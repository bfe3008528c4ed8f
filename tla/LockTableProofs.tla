-------------------------- MODULE LockTableProofs --------------------------
(***************************************************************************)
(* What the operators of LockTable and DeadLock do to a LOCK that is in    *)
(* order, for all values of the constants.  LockManagerProofs uses it.     *)
(***************************************************************************)
EXTENDS DeadLock, FiniteSetTheorems, SequenceTheorems, WellFoundedInduction, TLAPS

-----------------------------------------------------------------------------
(* Counting up.                                                            *)

\* The least of a set of natural numbers.
LEMMA Smallest ==
  ASSUME NEW S \in SUBSET Nat, S # {}
  PROVE  \E x \in S : \A y \in S : x <= y
  <1>1. PICK x \in S : \A y \in S : ~(<<y, x>> \in OpToRel(<, Nat))
    BY NatLessThanWellFounded, WFMin, Zenon
  <1>2. \A y \in S : ~(y < x)
    BY <1>1, Zenon DEF OpToRel
  <1>. QED
    BY <1>2

\* Induction up to n, with the set of the numbers for which it holds.
LEMMA CountUp ==
  ASSUME NEW n \in Nat, NEW T, 0 \in T, \A i \in 1..n : i - 1 \in T => i \in T
  PROVE  \A i \in 0..n : i \in T
  <1>. DEFINE S == {i \in 0..n : i \notin T}
  <1>1. SUFFICES ASSUME S # {} PROVE FALSE
    OBVIOUS
  <1>2. S \in SUBSET Nat
    OBVIOUS
  <1>3. PICK x \in S : \A y \in S : x <= y
    <2>. HIDE DEF S
    <2>. QED
      BY <1>1, <1>2, Smallest
  <1>4. x \in 0..n /\ x \notin T /\ x # 0
    BY <1>3
  <1>5. x \in 1..n /\ x - 1 \in 0..n /\ x - 1 \notin S
    BY <1>3, <1>4
  <1>. QED
    BY <1>4, <1>5

\* The turns of a loop: G[i] maps what there was before turn i to what there is after it.
IsLoop(G, n, S) == G \in [1..n -> [S -> S]]
IsRun(f, G, n, a, S) == f \in [0..n -> S] /\ f[0] = a /\ \A i \in 1..n : f[i] = G[i][f[i - 1]]

\* A loop of n turns, each of which maps S to S, can be run.
LEMMA Loop ==
  ASSUME NEW S, NEW n \in Nat, NEW a \in S, NEW G, IsLoop(G, n, S)
  PROVE  \E f : IsRun(f, G, n, a, S)
  <1>. USE DEF IsLoop
  <1>. DEFINE Run(k) == \E f \in [0..k -> S] : f[0] = a /\ \A i \in 1..k : f[i] = G[i][f[i - 1]]
              T == {k \in 0..n : Run(k)}
  <1>1. 0 \in T
    <2>1. [i \in 0..0 |-> a] \in [0..0 -> S]
      OBVIOUS
    <2>2. [i \in 0..0 |-> a][0] = a /\ \A i \in 1..0 : FALSE
      OBVIOUS
    <2>3. Run(0)
      BY <2>1, <2>2
    <2>. HIDE DEF Run
    <2>. QED
      BY <2>3
  <1>2. ASSUME NEW k \in 1..n, k - 1 \in T
        PROVE  k \in T
    <2>1. PICK f \in [0..(k - 1) -> S] : f[0] = a /\ \A i \in 1..(k - 1) : f[i] = G[i][f[i - 1]]
      BY <1>2
    <2>2. k - 1 \in 0..(k - 1) /\ f[k - 1] \in S
      BY <2>1
    <2>3. G[k][f[k - 1]] \in S
      BY <2>2
    <2>. DEFINE g == [i \in 0..k |-> IF i = k THEN G[k][f[k - 1]] ELSE f[i]]
    <2>4. g \in [0..k -> S]
      <3>1. \A i \in 0..k : i # k => i \in 0..(k - 1)
        OBVIOUS
      <3>. QED
        BY <3>1, <2>3
    <2>5. g[0] = a
      BY <2>1
    <2>6. ASSUME NEW i \in 1..k PROVE g[i] = G[i][g[i - 1]]
      <3>1. i - 1 \in 0..k /\ i - 1 # k /\ i \in 0..k
        OBVIOUS
      <3>2. g[i - 1] = f[i - 1]
        BY <3>1
      <3>3. CASE i = k
        BY <3>1, <3>2, <3>3
      <3>4. CASE i # k
        <4>1. i \in 1..(k - 1)
          BY <3>4
        <4>. QED
          BY <3>1, <3>2, <3>4, <4>1, <2>1
      <3>. QED
        BY <3>3, <3>4
    <2>7. Run(k)
      BY <2>4, <2>5, <2>6
    <2>. HIDE DEF Run
    <2>. QED
      BY <2>7
  <1>3. \A i \in 0..n : i \in T
    <2>. HIDE DEF T
    <2>. QED
      BY <1>1, <1>2, CountUp
  <1>4. Run(n)
    BY <1>3
  <1>. QED
    BY <1>4 DEF IsRun

-----------------------------------------------------------------------------
(* Lists of processes.                                                     *)

\* Nobody is in the list twice.
Distinct(seq) == \A i, j \in DOMAIN seq : seq[i] = seq[j] => i = j

\* What a list of processes is.
LEMMA ListFacts ==
  ASSUME NEW q \in Seq(Proc)
  PROVE  /\ Len(q) \in Nat /\ DOMAIN q = 1..Len(q) /\ \A i \in 1..Len(q) : q[i] \in Proc
         /\ \A x : Contains(q, x) <=> x \in ToSet(q)
         /\ \A x : x \in ToSet(q) <=> \E i \in 1..Len(q) : q[i] = x
         /\ ToSet(q) \subseteq Proc
  <1>1. Len(q) \in Nat /\ DOMAIN q = 1..Len(q) /\ \A i \in 1..Len(q) : q[i] \in Proc
    OBVIOUS
  <1>2. \A x : x \in ToSet(q) <=> \E i \in 1..Len(q) : q[i] = x
    BY <1>1 DEF ToSet
  <1>3. \A x : Contains(q, x) <=> x \in ToSet(q)
    BY <1>1, <1>2 DEF Contains
  <1>. QED
    BY <1>1, <1>2, <1>3

\* Two lists in a row.
LEMMA ConcatFacts ==
  ASSUME NEW S, NEW a \in Seq(S), NEW b \in Seq(S)
  PROVE  /\ a \o b \in Seq(S) /\ Len(a \o b) = Len(a) + Len(b)
         /\ \A j \in 1..(Len(a) + Len(b)) : (a \o b)[j] = IF j <= Len(a) THEN a[j] ELSE b[j - Len(a)]
  <1>1. a \o b \in Seq(S)
    OBVIOUS
  <1>2. Len(a \o b) = Len(a) + Len(b)
    OBVIOUS
  <1>3. \A j \in 1..(Len(a) + Len(b)) : (a \o b)[j] = IF j <= Len(a) THEN a[j] ELSE b[j - Len(a)]
    OBVIOUS
  <1>. QED
    BY <1>1, <1>2, <1>3

\* Where the elements of a list without one of them come from.
LEMMA WithoutPlaces ==
  ASSUME NEW q \in Seq(Proc), Distinct(q), NEW p, NEW i \in 1..Len(q), q[i] = p
  PROVE  /\ Without(q, p) \in Seq(Proc) /\ Len(Without(q, p)) = Len(q) - 1
         /\ \A j \in 1..(Len(q) - 1) : Without(q, p)[j] = IF j < i THEN q[j] ELSE q[j + 1]
  <1>1. Len(q) \in Nat /\ DOMAIN q = 1..Len(q) /\ i \in DOMAIN q
    BY ListFacts
  <1>2. \A j \in DOMAIN q : q[j] = p => j = i
    BY <1>1 DEF Distinct
  <1>3. (CHOOSE k \in DOMAIN q : q[k] = p /\ \A j \in DOMAIN q : q[j] = p => k <= j) = i
    BY <1>1, <1>2
  <1>4. Without(q, p) = SubSeq(q, 1, i - 1) \o SubSeq(q, i + 1, Len(q))
    BY <1>1, <1>3 DEF Without
  <1>5. /\ SubSeq(q, 1, i - 1) \in Seq(Proc) /\ Len(SubSeq(q, 1, i - 1)) = i - 1
        /\ \A j \in 1..(i - 1) : SubSeq(q, 1, i - 1)[j] = q[j]
    BY <1>1
  <1>6. /\ SubSeq(q, i + 1, Len(q)) \in Seq(Proc) /\ Len(SubSeq(q, i + 1, Len(q))) = Len(q) - i
        /\ \A j \in 1..(Len(q) - i) : SubSeq(q, i + 1, Len(q))[j] = q[i + j]
    BY <1>1
  <1>. DEFINE a == SubSeq(q, 1, i - 1)
              b == SubSeq(q, i + 1, Len(q))
  <1>. HIDE DEF a, b
  <1>7. /\ a \o b \in Seq(Proc) /\ Len(a \o b) = Len(q) - 1
        /\ \A j \in 1..(Len(q) - 1) : (a \o b)[j] = IF j < i THEN q[j] ELSE q[j + 1]
    <2>1. a \in Seq(Proc) /\ Len(a) = i - 1 /\ \A j \in 1..(i - 1) : a[j] = q[j]
      BY <1>5 DEF a
    <2>2. b \in Seq(Proc) /\ Len(b) = Len(q) - i /\ \A j \in 1..(Len(q) - i) : b[j] = q[i + j]
      BY <1>6 DEF b
    <2>3. a \o b \in Seq(Proc) /\ Len(a \o b) = Len(q) - 1
      <3>1. a \o b \in Seq(Proc) /\ Len(a \o b) = Len(a) + Len(b)
        BY <2>1, <2>2, ConcatFacts
      <3>. QED
        BY <1>1, <2>1, <2>2, <3>1
    <2>4. ASSUME NEW j \in 1..(Len(q) - 1)
          PROVE  (a \o b)[j] = IF j < i THEN q[j] ELSE q[j + 1]
      <3>1. CASE j < i
        BY <1>1, <2>1, <2>2, <3>1
      <3>2. CASE ~(j < i)
        <4>1. (a \o b)[j] = b[j - (i - 1)] /\ j - (i - 1) \in 1..(Len(q) - i)
          BY <1>1, <2>1, <2>2, <3>2
        <4>2. b[j - (i - 1)] = q[i + (j - (i - 1))]
          BY <2>2, <4>1
        <4>. QED
          BY <1>1, <3>2, <4>1, <4>2
      <3>. QED
        BY <3>1, <3>2
    <2>. QED
      BY <2>3, <2>4
  <1>. QED
    BY <1>4, <1>7 DEF a, b

\* Taking p off a list takes p off and leaves the order of the others.
LEMMA WithoutRight ==
  ASSUME NEW q \in Seq(Proc), Distinct(q), NEW p
  PROVE  /\ Without(q, p) \in Seq(Proc) /\ Distinct(Without(q, p))
         /\ \A x : x \in ToSet(Without(q, p)) <=> x \in ToSet(q) /\ x # p
         /\ \A x, y : x # p /\ y # p /\ IsBefore(x, y, q) => IsBefore(x, y, Without(q, p))
  <1>1. CASE p \notin ToSet(q)
    <2>1. Without(q, p) = q
      BY <1>1, ListFacts DEF Without
    <2>. QED
      BY <1>1, <2>1
  <1>2. CASE p \in ToSet(q)
    <2>1. PICK i \in 1..Len(q) : q[i] = p
      BY <1>2, ListFacts
    <2>2. Len(q) \in Nat /\ DOMAIN q = 1..Len(q)
      BY ListFacts
    <2>3. /\ Without(q, p) \in Seq(Proc) /\ Len(Without(q, p)) = Len(q) - 1
          /\ \A j \in 1..(Len(q) - 1) : Without(q, p)[j] = IF j < i THEN q[j] ELSE q[j + 1]
      BY <2>1, WithoutPlaces
    <2>4. ASSUME NEW w, w = Without(q, p)
          PROVE  /\ Distinct(w)
                 /\ \A x : x \in ToSet(w) <=> x \in ToSet(q) /\ x # p
                 /\ \A x, y : x # p /\ y # p /\ IsBefore(x, y, q) => IsBefore(x, y, w)
      <3>1. /\ w \in Seq(Proc) /\ Len(w) = Len(q) - 1 /\ DOMAIN w = 1..(Len(q) - 1)
            /\ \A j \in 1..(Len(q) - 1) : w[j] = IF j < i THEN q[j] ELSE q[j + 1]
        BY <2>3, <2>4, ListFacts
      <3>2. \A j, k \in 1..Len(q) : q[j] = q[k] => j = k
        BY <2>2 DEF Distinct
      <3>3. Distinct(w)
        <4>. SUFFICES ASSUME NEW j \in 1..(Len(q) - 1), NEW k \in 1..(Len(q) - 1), w[j] = w[k]
                      PROVE  j = k
          BY <3>1 DEF Distinct
        <4>1. j \in 1..Len(q) /\ j + 1 \in 1..Len(q) /\ k \in 1..Len(q) /\ k + 1 \in 1..Len(q)
          BY <2>2
        <4>. QED
          BY <2>1, <3>1, <3>2, <4>1
      <3>4. ASSUME NEW x PROVE x \in ToSet(w) <=> x \in ToSet(q) /\ x # p
        <4>1. ASSUME NEW j \in 1..(Len(q) - 1), w[j] = x
              PROVE  (\E k \in 1..Len(q) : q[k] = x) /\ x # p
          <5>1. j \in 1..Len(q) /\ j + 1 \in 1..Len(q)
            BY <2>2
          <5>. QED
            BY <2>1, <3>1, <3>2, <4>1, <5>1
        <4>2. ASSUME NEW k \in 1..Len(q), q[k] = x, x # p
              PROVE  \E j \in 1..(Len(q) - 1) : w[j] = x
          <5>1. k # i
            BY <2>1, <4>2
          <5>2. CASE k < i
            <6>1. k \in 1..(Len(q) - 1) /\ w[k] = q[k]
              BY <2>2, <3>1, <5>2
            <6>. QED
              BY <4>2, <6>1
          <5>3. CASE k > i
            <6>1. k - 1 \in 1..(Len(q) - 1) /\ ~(k - 1 < i) /\ (k - 1) + 1 = k
              BY <2>2, <5>3
            <6>2. w[k - 1] = q[k]
              BY <3>1, <6>1
            <6>. QED
              BY <4>2, <6>1, <6>2
          <5>. QED
            BY <5>1, <5>2, <5>3, <2>2
        <4>3. x \in ToSet(w) <=> \E j \in 1..(Len(q) - 1) : w[j] = x
          BY <3>1, ListFacts
        <4>4. x \in ToSet(q) <=> \E j \in 1..Len(q) : q[j] = x
          BY ListFacts
        <4>. QED
          BY <4>1, <4>2, <4>3, <4>4
      <3>5. ASSUME NEW x, NEW y, x # p, y # p, IsBefore(x, y, q)
            PROVE  IsBefore(x, y, w)
        <4>1. PICK j \in 1..Len(q), k \in 1..Len(q) : j < k /\ q[j] = x /\ q[k] = y
          BY <2>2, <3>5 DEF IsBefore
        <4>2. j # i /\ k # i
          BY <2>1, <3>5, <4>1
        <4>3. ASSUME NEW h \in 1..Len(q), h # i
              PROVE  LET g == IF h < i THEN h ELSE h - 1 IN g \in 1..(Len(q) - 1) /\ w[g] = q[h]
          <5>1. CASE h < i
            BY <2>2, <3>1, <5>1
          <5>2. CASE h > i
            <6>1. h - 1 \in 1..(Len(q) - 1) /\ ~(h - 1 < i) /\ (h - 1) + 1 = h
              BY <2>2, <5>2
            <6>. QED
              BY <3>1, <5>2, <6>1
          <5>. QED
            BY <2>2, <4>3, <5>1, <5>2
        <4>4. \E g1, g2 \in 1..(Len(q) - 1) : g1 < g2 /\ w[g1] = x /\ w[g2] = y
          <5>. DEFINE g1 == IF j < i THEN j ELSE j - 1
                      g2 == IF k < i THEN k ELSE k - 1
          <5>1. g1 \in 1..(Len(q) - 1) /\ w[g1] = x
            BY <4>1, <4>2, <4>3
          <5>2. g2 \in 1..(Len(q) - 1) /\ w[g2] = y
            BY <4>1, <4>2, <4>3
          <5>3. g1 < g2
            BY <2>2, <4>1, <4>2
          <5>. QED
            BY <5>1, <5>2, <5>3
        <4>. QED
          BY <3>1, <4>4 DEF IsBefore
      <3>. QED
        BY <3>3, <3>4, <3>5
    <2>. QED
      BY <2>3, <2>4
  <1>. QED
    BY <1>1, <1>2

\* Of two in a list one is before the other, and not after it.
LEMMA OrderFacts ==
  ASSUME NEW q \in Seq(Proc), Distinct(q)
  PROVE  /\ \A x, y : IsBefore(x, y, q) => x \in ToSet(q) /\ y \in ToSet(q) /\ x # y /\ ~IsBefore(y, x, q)
         /\ \A x, y \in ToSet(q) : x # y => IsBefore(x, y, q) \/ IsBefore(y, x, q)
  <1>1. /\ Len(q) \in Nat /\ DOMAIN q = 1..Len(q)
        /\ \A x : x \in ToSet(q) <=> \E i \in 1..Len(q) : q[i] = x
    BY ListFacts
  <1>2. ASSUME NEW x, NEW y, IsBefore(x, y, q)
        PROVE  x \in ToSet(q) /\ y \in ToSet(q) /\ x # y /\ ~IsBefore(y, x, q)
    <2>1. PICK i \in 1..Len(q), j \in 1..Len(q) : i < j /\ q[i] = x /\ q[j] = y
      BY <1>1, <1>2 DEF IsBefore
    <2>2. \A k \in 1..Len(q) : (q[k] = x => k = i) /\ (q[k] = y => k = j)
      BY <1>1, <2>1 DEF Distinct
    <2>3. ~IsBefore(y, x, q)
      BY <1>1, <2>1, <2>2 DEF IsBefore
    <2>4. x # y
      BY <2>1, <2>2
    <2>. QED
      BY <1>1, <2>1, <2>3, <2>4
  <1>3. ASSUME NEW x \in ToSet(q), NEW y \in ToSet(q), x # y
        PROVE  IsBefore(x, y, q) \/ IsBefore(y, x, q)
    <2>1. PICK i \in 1..Len(q), j \in 1..Len(q) : q[i] = x /\ q[j] = y
      BY <1>1
    <2>2. i < j \/ j < i
      BY <1>1, <1>3, <2>1
    <2>. QED
      BY <1>1, <2>1, <2>2 DEF IsBefore
  <1>. QED
    BY <1>2, <1>3

\* A list with a newcomer at its end.
LEMMA AppendRight ==
  ASSUME NEW q \in Seq(Proc), Distinct(q), NEW p \in Proc, p \notin ToSet(q)
  PROVE  /\ Append(q, p) \in Seq(Proc) /\ Distinct(Append(q, p))
         /\ \A x : x \in ToSet(Append(q, p)) <=> x \in ToSet(q) \/ x = p
         /\ Without(Append(q, p), p) = q
  <1>1. /\ Len(q) \in Nat /\ DOMAIN q = 1..Len(q)
        /\ \A x : x \in ToSet(q) <=> \E i \in 1..Len(q) : q[i] = x
    BY ListFacts
  <1>2. ASSUME NEW r, r = Append(q, p)
        PROVE  /\ r \in Seq(Proc) /\ Len(r) = Len(q) + 1 /\ DOMAIN r = 1..(Len(q) + 1)
               /\ r[Len(q) + 1] = p /\ \A i \in 1..Len(q) : r[i] = q[i]
    BY <1>1, <1>2
  <1>3. ASSUME NEW r, r = Append(q, p)
        PROVE  Distinct(r) /\ \A x : x \in ToSet(r) <=> x \in ToSet(q) \/ x = p
    <2>1. /\ r \in Seq(Proc) /\ Len(r) = Len(q) + 1 /\ DOMAIN r = 1..(Len(q) + 1)
          /\ r[Len(q) + 1] = p /\ \A i \in 1..Len(q) : r[i] = q[i]
      BY <1>2, <1>3
    <2>2. \A i \in 1..(Len(q) + 1) : i \in 1..Len(q) \/ i = Len(q) + 1
      BY <1>1
    <2>3. \A i \in 1..Len(q) : q[i] # p
      BY <1>1
    <2>4. Distinct(r)
      BY <1>1, <2>1, <2>2, <2>3 DEF Distinct
    <2>5. \A x : x \in ToSet(r) <=> \E i \in 1..(Len(q) + 1) : r[i] = x
      BY <2>1, ListFacts
    <2>6. ASSUME NEW x PROVE (\E i \in 1..(Len(q) + 1) : r[i] = x) <=> (\E i \in 1..Len(q) : q[i] = x) \/ x = p
      <3>1. \A i \in 1..Len(q) : i \in 1..(Len(q) + 1)
        BY <1>1
      <3>2. Len(q) + 1 \in 1..(Len(q) + 1)
        BY <1>1
      <3>. QED
        BY <2>1, <2>2, <3>1, <3>2
    <2>. QED
      BY <1>1, <2>4, <2>5, <2>6
  <1>4. Without(Append(q, p), p) = q
    <2>1. ASSUME NEW r, r = Append(q, p) PROVE Without(r, p) = q
      <3>1. /\ r \in Seq(Proc) /\ Len(r) = Len(q) + 1
            /\ r[Len(q) + 1] = p /\ \A i \in 1..Len(q) : r[i] = q[i]
        BY <1>2, <2>1
      <3>2. Distinct(r) /\ Len(q) + 1 \in 1..Len(r)
        <4>1. Distinct(r)
          BY <1>3, <2>1
        <4>2. Len(q) + 1 \in 1..(Len(q) + 1)
          BY <1>1
        <4>. QED
          BY <3>1, <4>1, <4>2
      <3>3. /\ Without(r, p) \in Seq(Proc) /\ Len(Without(r, p)) = Len(q)
            /\ \A j \in 1..Len(q) : Without(r, p)[j] = IF j < Len(q) + 1 THEN r[j] ELSE r[j + 1]
        <4>1. /\ Without(r, p) \in Seq(Proc) /\ Len(Without(r, p)) = Len(r) - 1
              /\ \A j \in 1..(Len(r) - 1) : Without(r, p)[j] = IF j < Len(q) + 1 THEN r[j] ELSE r[j + 1]
          BY <3>1, <3>2, WithoutPlaces
        <4>. QED
          BY <1>1, <3>1, <4>1
      <3>4. \A j \in 1..Len(q) : Without(r, p)[j] = q[j]
        BY <1>1, <3>1, <3>3
      <3>. QED
        BY <3>3, <3>4
    <2>. QED
      BY <2>1
  <1>. QED
    BY <1>2, <1>3, <1>4

\* A list with a newcomer at place i.
LEMMA InsertRight ==
  ASSUME NEW q \in Seq(Proc), Distinct(q), NEW p \in Proc, p \notin ToSet(q), NEW i \in 1..(Len(q) + 1)
  PROVE  /\ InsertAt(q, i, p) \in Seq(Proc) /\ Distinct(InsertAt(q, i, p))
         /\ \A x : x \in ToSet(InsertAt(q, i, p)) <=> x \in ToSet(q) \/ x = p
         /\ \A x, y : IsBefore(x, y, q) => IsBefore(x, y, InsertAt(q, i, p))
         /\ \A j \in 1..(i - 1) : IsBefore(q[j], p, InsertAt(q, i, p))
  <1>1. /\ Len(q) \in Nat /\ DOMAIN q = 1..Len(q) /\ \A j \in 1..Len(q) : q[j] \in Proc
        /\ \A x : x \in ToSet(q) <=> \E j \in 1..Len(q) : q[j] = x
    BY ListFacts
  <1>2. /\ InsertAt(q, i, p) \in Seq(Proc) /\ Len(InsertAt(q, i, p)) = Len(q) + 1
        /\ \A j \in 1..(Len(q) + 1) :
             InsertAt(q, i, p)[j] = IF j < i THEN q[j] ELSE IF j = i THEN p ELSE q[j - 1]
    <2>1. /\ SubSeq(q, 1, i - 1) \in Seq(Proc) /\ Len(SubSeq(q, 1, i - 1)) = i - 1
          /\ \A j \in 1..(i - 1) : SubSeq(q, 1, i - 1)[j] = q[j]
      BY <1>1
    <2>2. /\ SubSeq(q, i, Len(q)) \in Seq(Proc) /\ Len(SubSeq(q, i, Len(q))) = Len(q) - i + 1
          /\ \A j \in 1..(Len(q) - i + 1) : SubSeq(q, i, Len(q))[j] = q[i + j - 1]
      <3>1. CASE i = Len(q) + 1
        BY <1>1, <3>1
      <3>2. CASE i \in 1..Len(q)
        BY <1>1, <3>2
      <3>. QED
        BY <1>1, <3>1, <3>2
    <2>3. ASSUME NEW a, NEW b, a = SubSeq(q, 1, i - 1), b = SubSeq(q, i, Len(q))
          PROVE  /\ a \o <<p>> \o b \in Seq(Proc) /\ Len(a \o <<p>> \o b) = Len(q) + 1
                 /\ \A j \in 1..(Len(q) + 1) :
                      (a \o <<p>> \o b)[j] = IF j < i THEN q[j] ELSE IF j = i THEN p ELSE q[j - 1]
      <3>1. a \in Seq(Proc) /\ Len(a) = i - 1 /\ \A j \in 1..(i - 1) : a[j] = q[j]
        BY <2>1, <2>3
      <3>2. b \in Seq(Proc) /\ Len(b) = Len(q) - i + 1 /\ \A j \in 1..(Len(q) - i + 1) : b[j] = q[i + j - 1]
        BY <2>2, <2>3
      <3>3. ASSUME NEW c, c = a \o <<p>>
            PROVE  c \in Seq(Proc) /\ Len(c) = i /\ c[i] = p /\ \A j \in 1..(i - 1) : c[j] = q[j]
        <4>1. c \in Seq(Proc) /\ Len(c) = i
          BY <3>1, <3>3
        <4>2. c[i] = p
          BY <3>1, <3>3
        <4>3. \A j \in 1..(i - 1) : c[j] = a[j]
          BY <3>1, <3>3
        <4>. QED
          BY <3>1, <4>1, <4>2, <4>3
      <3>4. ASSUME NEW c, c = a \o <<p>>
            PROVE  /\ c \o b \in Seq(Proc) /\ Len(c \o b) = Len(q) + 1
                   /\ \A j \in 1..(Len(q) + 1) :
                        (c \o b)[j] = IF j < i THEN q[j] ELSE IF j = i THEN p ELSE q[j - 1]
        <4>1. c \in Seq(Proc) /\ Len(c) = i /\ c[i] = p /\ \A j \in 1..(i - 1) : c[j] = q[j]
          BY <3>3, <3>4
        <4>2. c \o b \in Seq(Proc) /\ Len(c \o b) = Len(q) + 1
          <5>1. c \o b \in Seq(Proc) /\ Len(c \o b) = Len(c) + Len(b)
            BY <3>2, <4>1, ConcatFacts
          <5>2. i + (Len(q) - i + 1) = Len(q) + 1
            BY <1>1
          <5>. QED
            BY <3>2, <4>1, <5>1, <5>2
        <4>3. ASSUME NEW j \in 1..(Len(q) + 1)
              PROVE  (c \o b)[j] = IF j < i THEN q[j] ELSE IF j = i THEN p ELSE q[j - 1]
          <5>1. CASE j <= i
            <6>1. (c \o b)[j] = c[j]
              BY <1>1, <3>2, <4>1, <5>1
            <6>. QED
              BY <1>1, <4>1, <5>1, <6>1
          <5>2. CASE j > i
            <6>1. (c \o b)[j] = b[j - i] /\ j - i \in 1..(Len(q) - i + 1)
              BY <1>1, <3>2, <4>1, <5>2
            <6>2. b[j - i] = q[i + (j - i) - 1] /\ i + (j - i) - 1 = j - 1
              BY <1>1, <3>2, <6>1
            <6>. QED
              BY <5>2, <6>1, <6>2
          <5>3. j <= i \/ j > i
            BY <1>1
          <5>. QED
            BY <5>1, <5>2, <5>3
        <4>. QED
          BY <4>2, <4>3
      <3>. QED
        BY <3>4
    <2>. QED
      BY <2>3 DEF InsertAt
  <1>3. ASSUME NEW w, w = InsertAt(q, i, p)
        PROVE  /\ Distinct(w)
               /\ \A x : x \in ToSet(w) <=> x \in ToSet(q) \/ x = p
               /\ \A x, y : IsBefore(x, y, q) => IsBefore(x, y, w)
               /\ \A j \in 1..(i - 1) : IsBefore(q[j], p, w)
    <2>1. /\ w \in Seq(Proc) /\ DOMAIN w = 1..(Len(q) + 1) /\ Len(w) = Len(q) + 1
          /\ \A j \in 1..(Len(q) + 1) : w[j] = IF j < i THEN q[j] ELSE IF j = i THEN p ELSE q[j - 1]
      BY <1>2, <1>3, ListFacts
    <2>2. (\A j, k \in 1..Len(q) : q[j] = q[k] => j = k) /\ \A j \in 1..Len(q) : q[j] # p
      BY <1>1 DEF Distinct
    <2>3. \A j \in 1..(Len(q) + 1) : (j < i => j \in 1..Len(q)) /\ (j > i => j - 1 \in 1..Len(q))
      BY <1>1
    <2>4. Distinct(w)
      <3>. SUFFICES ASSUME NEW j \in 1..(Len(q) + 1), NEW k \in 1..(Len(q) + 1), w[j] = w[k]
                    PROVE  j = k
        BY <2>1 DEF Distinct
      <3>. QED
        BY <1>1, <2>1, <2>2, <2>3
    <2>5. ASSUME NEW h \in 1..Len(q)
          PROVE  LET g == IF h < i THEN h ELSE h + 1 IN g \in 1..(Len(q) + 1) /\ w[g] = q[h]
      <3>1. CASE h < i
        BY <1>1, <2>1, <3>1
      <3>2. CASE ~(h < i)
        <4>1. h + 1 \in 1..(Len(q) + 1) /\ ~(h + 1 < i) /\ h + 1 # i /\ (h + 1) - 1 = h
          BY <1>1, <3>2
        <4>. QED
          BY <2>1, <3>2, <4>1
      <3>. QED
        BY <3>1, <3>2
    <2>6. i \in 1..(Len(q) + 1) /\ w[i] = p
      BY <2>1
    <2>7. ASSUME NEW x PROVE x \in ToSet(w) <=> x \in ToSet(q) \/ x = p
      <3>1. x \in ToSet(w) <=> \E j \in 1..(Len(q) + 1) : w[j] = x
        BY <2>1, ListFacts
      <3>2. ASSUME NEW j \in 1..(Len(q) + 1), w[j] = x PROVE x = p \/ \E k \in 1..Len(q) : q[k] = x
        BY <1>1, <2>1, <2>3, <3>2
      <3>. QED
        BY <1>1, <2>5, <2>6, <3>1, <3>2
    <2>8. ASSUME NEW x, NEW y, IsBefore(x, y, q) PROVE IsBefore(x, y, w)
      <3>1. PICK j \in 1..Len(q), k \in 1..Len(q) : j < k /\ q[j] = x /\ q[k] = y
        BY <1>1, <2>8 DEF IsBefore
      <3>. DEFINE g1 == IF j < i THEN j ELSE j + 1
                  g2 == IF k < i THEN k ELSE k + 1
      <3>2. g1 \in 1..(Len(q) + 1) /\ w[g1] = x
        BY <2>5, <3>1
      <3>3. g2 \in 1..(Len(q) + 1) /\ w[g2] = y
        BY <2>5, <3>1
      <3>4. g1 < g2
        BY <1>1, <3>1
      <3>. HIDE DEF g1, g2
      <3>. QED
        BY <2>1, <3>2, <3>3, <3>4 DEF IsBefore
    <2>9. ASSUME NEW j \in 1..(i - 1) PROVE IsBefore(q[j], p, w)
      <3>1. j \in 1..(Len(q) + 1) /\ w[j] = q[j] /\ j < i
        BY <1>1, <2>1
      <3>. QED
        BY <2>1, <2>6, <3>1 DEF IsBefore
    <2>. QED
      BY <2>4, <2>7, <2>8, <2>9
  <1>. QED
    BY <1>2, <1>3

-----------------------------------------------------------------------------
(* A LOCK in order.                                                        *)

Holders(lk, m) == {p \in Proc : m \in lk.holdMask[p]}
Waits(lk, p) == p \in ToSet(lk.waitProcs)
Askers(lk, w, m) == {p \in Proc : Waits(lk, p) /\ w[p] = m}

\* The counts and masks are those of the holders and the waiters; w is who waits
\* in which mode.
CountsRight(lk, w) ==
  /\ lk \in LOCK /\ Distinct(lk.waitProcs) /\ Distinct(lk.procLocks)
  /\ \A p \in Proc : Waits(lk, p) => w[p] \in LockMode /\ w[p] \notin lk.holdMask[p]
  /\ \A m \in LockMode : lk.granted[m] = Cardinality(Holders(lk, m))
  /\ \A m \in LockMode : lk.requested[m] = lk.granted[m] + Cardinality(Askers(lk, w, m))
  /\ \A m \in LockMode : m \in lk.waitMask <=> lk.requested[m] > lk.granted[m]
  /\ \A p \in Proc : lk.releaseMask[p] \subseteq lk.holdMask[p]

\* And who holds or waits has a PROCLOCK, nobody else has, but perhaps p.
AlmostRight(lk, w, p) ==
  /\ CountsRight(lk, w)
  /\ \A q \in Proc : q # p => (q \in ToSet(lk.procLocks) <=> lk.holdMask[q] # {} \/ Waits(lk, q))
  /\ lk.holdMask[p] # {} => p \in ToSet(lk.procLocks)

LockRight(lk, w) ==
  /\ CountsRight(lk, w)
  /\ \A q \in Proc : q \in ToSet(lk.procLocks) <=> lk.holdMask[q] # {} \/ Waits(lk, q)

\* Somebody else holds, or waits before q, in a mode that conflicts with q's.
Blocked(lk, w, q) ==
  \/ \E h \in Proc : h # q /\ lk.holdMask[h] \cap conflictTab(w[q]) # {}
  \/ \E r \in Proc : IsBefore(r, q, lk.waitProcs) /\ w[r] \in conflictTab(w[q])

WaitMode == [q \in Proc |-> proc[q].waitLockMode]

\* A LOCK is a record of the fields that the functions change.
LEMMA LockFacts ==
  ASSUME NEW lk \in LOCK
  PROVE  /\ lk.procLocks \in Seq(Proc) /\ lk.waitProcs \in Seq(Proc) /\ lk.waitMask \subseteq LockMode
         /\ lk.holdMask \in [Proc -> SUBSET LockMode] /\ lk.releaseMask \in [Proc -> SUBSET LockMode]
         /\ lk.requested \in [LockMode -> Nat] /\ lk.granted \in [LockMode -> Nat]
  BY DEF LOCK

\* The table of conflicts is symmetric.
LEMMA ConflictsSymmetric ==
  ASSUME NEW m \in LockMode, NEW m2 \in LockMode
  PROVE  m2 \in conflictTab(m) <=> m \in conflictTab(m2)
  <1>1. m \in 1..8 /\ m2 \in 1..8
    BY LockTableAssumption
  <1>2. m2 \in LockConflicts[m] <=> m \in LockConflicts[m2]
    <2>1. m \in {1, 2, 3, 4, 5, 6, 7, 8} /\ m2 \in {1, 2, 3, 4, 5, 6, 7, 8}
      BY <1>1
    <2>2. /\ LockConflicts[1] = {8} /\ LockConflicts[2] = {7, 8} /\ LockConflicts[3] = {5, 6, 7, 8}
          /\ LockConflicts[4] = {4, 5, 6, 7, 8} /\ LockConflicts[5] = {3, 4, 6, 7, 8}
          /\ LockConflicts[6] = {3, 4, 5, 6, 7, 8} /\ LockConflicts[7] = {2, 3, 4, 5, 6, 7, 8}
          /\ LockConflicts[8] = {1, 2, 3, 4, 5, 6, 7, 8}
      BY DEF LockConflicts
    <2>. QED
      BY <2>1, <2>2
  <1>. QED
    BY <1>2 DEF conflictTab

\* The processes and any set of them can be counted.
LEMMA ProcsFinite ==
  ASSUME NEW S \in SUBSET Proc
  PROVE  IsFiniteSet(S) /\ Cardinality(S) \in Nat
  <1>1. IsFiniteSet(Proc)
    <2>1. NProcs \in Int /\ 1 \in Int
      BY LockTableAssumption
    <2>. QED
      BY <2>1, FS_Interval DEF Proc
  <1>. QED
    BY <1>1, FS_Subset, FS_CardinalityType

\* One process more.
LEMMA OneMore ==
  ASSUME NEW S \in SUBSET Proc, NEW T, NEW p \in Proc, p \notin S, \A x : x \in T <=> x \in S \/ x = p
  PROVE  Cardinality(T) = Cardinality(S) + 1 /\ Cardinality(S) \in Nat /\ Cardinality(T) \in Nat
  <1>1. T = S \cup {p}
    BY SMT
  <1>2. IsFiniteSet(S) /\ Cardinality(S) \in Nat
    BY ProcsFinite
  <1>. QED
    BY <1>1, <1>2, FS_AddElement

\* Nobody.
LEMMA NobodyCounted ==
  ASSUME NEW S \in SUBSET Proc
  PROVE  Cardinality(S) = 0 <=> \A x \in Proc : x \notin S
  <1>1. IsFiniteSet(S)
    BY ProcsFinite
  <1>2. Cardinality(S) = 0 <=> S = {}
    BY <1>1, FS_EmptySet
  <1>. QED
    BY <1>2

\* The count of the holders of a mode tells whether somebody else has it.
LEMMA HoldersCount ==
  ASSUME NEW lk \in LOCK, NEW m \in LockMode, NEW p \in Proc, lk.granted[m] = Cardinality(Holders(lk, m))
  PROVE  lk.granted[m] <= (IF m \in lk.holdMask[p] THEN 1 ELSE 0) <=> \A q \in Proc : q # p => m \notin lk.holdMask[q]
  <1>. DEFINE others == {q \in Proc : q # p /\ m \in lk.holdMask[q]}
  <1>1. others \in SUBSET Proc /\ Holders(lk, m) \in SUBSET Proc
    BY DEF Holders
  <1>2. Cardinality(others) = 0 <=> \A q \in Proc : q # p => m \notin lk.holdMask[q]
    <2>1. Cardinality(others) = 0 <=> \A x \in Proc : x \notin others
      <3>. HIDE DEF others
      <3>. QED
        BY <1>1, NobodyCounted
    <2>. QED
      BY <2>1
  <1>3. CASE m \in lk.holdMask[p]
    <2>1. p \notin others /\ \A x : x \in Holders(lk, m) <=> x \in others \/ x = p
      BY <1>3 DEF Holders
    <2>2. Cardinality(Holders(lk, m)) = Cardinality(others) + 1 /\ Cardinality(others) \in Nat
      <3>. HIDE DEF others
      <3>. QED
        BY <1>1, <2>1, OneMore
    <2>. HIDE DEF others
    <2>. QED
      BY <1>2, <1>3, <2>2
  <1>4. CASE m \notin lk.holdMask[p]
    <2>1. Holders(lk, m) = others
      BY <1>4 DEF Holders
    <2>2. Cardinality(others) \in Nat
      <3>. HIDE DEF others
      <3>. QED
        BY <1>1, ProcsFinite
    <2>. HIDE DEF others
    <2>. QED
      BY <1>2, <1>4, <2>1, <2>2
  <1>. QED
    BY <1>3, <1>4

\* LockCheckConflicts, from counts only, says that nobody else holds a lock that
\* is in the way.
LEMMA CheckMeans ==
  ASSUME NEW lk \in LOCK, NEW m \in LockMode, NEW p \in Proc,
         \A k \in LockMode : lk.granted[k] = Cardinality(Holders(lk, k))
  PROVE  LockCheckConflicts(lk, p, m) <=> \A q \in Proc : q # p => lk.holdMask[q] \cap conflictTab(m) = {}
  <1>1. conflictTab(m) \subseteq LockMode
    BY DEF conflictTab
  <1>2. ASSUME NEW k \in conflictTab(m)
        PROVE  lk.granted[k] <= (IF k \in lk.holdMask[p] THEN 1 ELSE 0) <=> \A q \in Proc : q # p => k \notin lk.holdMask[q]
    BY <1>1, HoldersCount
  <1>. QED
    BY <1>2 DEF LockCheckConflicts

\* A LOCK that nobody holds or waits for is in order.
LEMMA FreeRight ==
  ASSUME NEW w
  PROVE  /\ LockRight(FreeLock, w)
         /\ \A p \in Proc : FreeLock.holdMask[p] = {} /\ FreeLock.releaseMask[p] = {} /\ ~Waits(FreeLock, p)
  <1>1. FreeLock \in LOCK
    BY DEF LOCK, FreeLock
  <1>2. FreeLock.procLocks = <<>> /\ FreeLock.waitProcs = <<>> /\ FreeLock.waitMask = {}
    BY DEF FreeLock
  <1>3. /\ \A p \in Proc : FreeLock.holdMask[p] = {} /\ FreeLock.releaseMask[p] = {}
        /\ \A m \in LockMode : FreeLock.granted[m] = 0 /\ FreeLock.requested[m] = 0
    BY DEF FreeLock
  <1>4. \A x : x \notin ToSet(<<>>)
    BY DEF ToSet
  <1>5. Distinct(<<>>)
    BY DEF Distinct
  <1>6. \A p \in Proc : ~Waits(FreeLock, p)
    BY <1>2, <1>4 DEF Waits
  <1>7. ASSUME NEW m \in LockMode
        PROVE  Cardinality(Holders(FreeLock, m)) = 0 /\ Cardinality(Askers(FreeLock, w, m)) = 0
    <2>1. Holders(FreeLock, m) \in SUBSET Proc /\ \A x \in Proc : x \notin Holders(FreeLock, m)
      BY <1>3 DEF Holders
    <2>2. Askers(FreeLock, w, m) \in SUBSET Proc /\ \A x \in Proc : x \notin Askers(FreeLock, w, m)
      BY <1>6 DEF Askers
    <2>. QED
      BY <2>1, <2>2, NobodyCounted
  <1>8. CountsRight(FreeLock, w)
    BY <1>1, <1>2, <1>3, <1>5, <1>6, <1>7 DEF CountsRight
  <1>9. \A p \in Proc : p \in ToSet(FreeLock.procLocks) <=> FreeLock.holdMask[p] # {} \/ Waits(FreeLock, p)
    BY <1>2, <1>3, <1>4, <1>6
  <1>. QED
    BY <1>3, <1>6, <1>8, <1>9 DEF LockRight

\* The same waiters in the same modes.
LEMMA SameModes ==
  ASSUME NEW lk, NEW w, NEW w2, LockRight(lk, w), \A p \in Proc : Waits(lk, p) => w2[p] = w[p]
  PROVE  LockRight(lk, w2)
  <1>1. \A m \in LockMode : Askers(lk, w2, m) = Askers(lk, w, m)
    BY DEF Askers
  <1>. QED
    BY <1>1 DEF LockRight, CountsRight

\* Whoever waits in a mode is counted as a request that is not granted.
LEMMA WaitMaskMeans ==
  ASSUME NEW lk, NEW w, CountsRight(lk, w), NEW m \in LockMode
  PROVE  m \in lk.waitMask <=> \E p \in Proc : Waits(lk, p) /\ w[p] = m
  <1>1. /\ lk.requested[m] = lk.granted[m] + Cardinality(Askers(lk, w, m))
        /\ m \in lk.waitMask <=> lk.requested[m] > lk.granted[m]
        /\ lk.granted[m] = Cardinality(Holders(lk, m))
    BY DEF CountsRight
  <1>2. Holders(lk, m) \in SUBSET Proc /\ Askers(lk, w, m) \in SUBSET Proc
    BY DEF Holders, Askers
  <1>3. Cardinality(Holders(lk, m)) \in Nat /\ Cardinality(Askers(lk, w, m)) \in Nat
    BY <1>2, ProcsFinite
  <1>4. Cardinality(Askers(lk, w, m)) = 0 <=> \A x \in Proc : x \notin Askers(lk, w, m)
    BY <1>2, NobodyCounted
  <1>5. m \in lk.waitMask <=> ~(Cardinality(Askers(lk, w, m)) = 0)
    BY <1>1, <1>3
  <1>. QED
    BY <1>4, <1>5 DEF Askers

\* r is lk with more locks of p.
Extended(lk, r, w, p, modes) ==
  /\ LockRight(r, w) /\ r.waitProcs = lk.waitProcs /\ r.releaseMask = lk.releaseMask
  /\ \A q \in Proc : r.holdMask[q] = IF q = p THEN lk.holdMask[q] \cup modes ELSE lk.holdMask[q]

\* More holders of each of the modes, none of which p held or waits for.
LEMMA SetupAndGrantRight ==
  ASSUME NEW lk, NEW w, LockRight(lk, w), NEW p \in Proc, NEW modes \in SUBSET LockMode,
         modes \cap lk.holdMask[p] = {}, Waits(lk, p) => w[p] \notin modes
  PROVE  Extended(lk, SetupAndGrant(lk, p, modes), w, p, modes)
  <1>1. SUFFICES ASSUME NEW r, r = SetupAndGrant(lk, p, modes)
                 PROVE  /\ LockRight(r, w) /\ r.waitProcs = lk.waitProcs /\ r.releaseMask = lk.releaseMask
                        /\ \A q \in Proc : r.holdMask[q] = IF q = p THEN lk.holdMask[q] \cup modes ELSE lk.holdMask[q]
    BY DEF Extended
  <1>2. /\ lk \in LOCK /\ Distinct(lk.procLocks) /\ Distinct(lk.waitProcs)
        /\ \A q \in Proc : Waits(lk, q) => w[q] \in LockMode /\ w[q] \notin lk.holdMask[q]
        /\ \A m \in LockMode : lk.granted[m] = Cardinality(Holders(lk, m))
        /\ \A m \in LockMode : lk.requested[m] = lk.granted[m] + Cardinality(Askers(lk, w, m))
        /\ \A m \in LockMode : m \in lk.waitMask <=> lk.requested[m] > lk.granted[m]
        /\ \A q \in Proc : lk.releaseMask[q] \subseteq lk.holdMask[q]
        /\ \A q \in Proc : q \in ToSet(lk.procLocks) <=> lk.holdMask[q] # {} \/ Waits(lk, q)
    BY DEF LockRight, CountsRight
  <1>3. /\ lk.procLocks \in Seq(Proc) /\ lk.waitProcs \in Seq(Proc) /\ lk.waitMask \subseteq LockMode
        /\ lk.holdMask \in [Proc -> SUBSET LockMode] /\ lk.releaseMask \in [Proc -> SUBSET LockMode]
        /\ lk.requested \in [LockMode -> Nat] /\ lk.granted \in [LockMode -> Nat]
    BY <1>2, LockFacts
  <1>4. /\ r.waitProcs = lk.waitProcs /\ r.releaseMask = lk.releaseMask
        /\ r.procLocks = (IF modes = {} \/ Contains(lk.procLocks, p) THEN lk.procLocks ELSE Append(lk.procLocks, p))
        /\ r.holdMask = [lk.holdMask EXCEPT ![p] = @ \cup modes]
        /\ r.granted = More(lk.granted, modes) /\ r.requested = More(lk.requested, modes)
        /\ r.waitMask = lk.waitMask \ {m \in modes : lk.granted[m] = lk.requested[m]}
        /\ r = [procLocks |-> r.procLocks, holdMask |-> r.holdMask, releaseMask |-> r.releaseMask,
                requested |-> r.requested, granted |-> r.granted, waitMask |-> r.waitMask,
                waitProcs |-> r.waitProcs]
    BY <1>1, <1>2 DEF SetupAndGrant, LOCK
  <1>5. \A q \in Proc : r.holdMask[q] = IF q = p THEN lk.holdMask[q] \cup modes ELSE lk.holdMask[q]
    BY <1>3, <1>4
  <1>6. \A m \in LockMode : /\ r.granted[m] = IF m \in modes THEN lk.granted[m] + 1 ELSE lk.granted[m]
                            /\ r.requested[m] = IF m \in modes THEN lk.requested[m] + 1 ELSE lk.requested[m]
    BY <1>4 DEF More
  <1>7. Distinct(r.procLocks) /\ r.procLocks \in Seq(Proc)
        /\ \A q \in Proc : q \in ToSet(r.procLocks) <=> q \in ToSet(lk.procLocks) \/ (q = p /\ modes # {})
    <2>1. CASE modes = {} \/ p \in ToSet(lk.procLocks)
      <3>1. r.procLocks = lk.procLocks
        BY <1>3, <1>4, <2>1, ListFacts
      <3>. QED
        BY <1>2, <1>3, <2>1, <3>1
    <2>2. CASE modes # {} /\ p \notin ToSet(lk.procLocks)
      <3>1. r.procLocks = Append(lk.procLocks, p)
        BY <1>3, <1>4, <2>2, ListFacts
      <3>. QED
        BY <1>2, <1>3, <2>2, <3>1, AppendRight
    <2>. QED
      BY <2>1, <2>2
  <1>8. r \in LOCK
    <2>1. r.holdMask \in [Proc -> SUBSET LockMode]
      BY <1>3, <1>4
    <2>2. r.granted \in [LockMode -> Nat] /\ r.requested \in [LockMode -> Nat]
      BY <1>3, <1>4 DEF More
    <2>3. r.waitMask \in SUBSET LockMode
      BY <1>3, <1>4
    <2>. QED
      BY <1>3, <1>4, <1>7, <2>1, <2>2, <2>3 DEF LOCK
  <1>9. \A q \in Proc : Waits(r, q) <=> Waits(lk, q)
    BY <1>4 DEF Waits
  <1>10. ASSUME NEW m \in LockMode
         PROVE  r.granted[m] = Cardinality(Holders(r, m))
    <2>1. CASE m \in modes
      <3>1. p \notin Holders(lk, m) /\ \A x : x \in Holders(r, m) <=> x \in Holders(lk, m) \/ x = p
        BY <1>5, <2>1 DEF Holders
      <3>2. Holders(lk, m) \in SUBSET Proc
        BY DEF Holders
      <3>. QED
        BY <1>2, <1>6, <2>1, <3>1, <3>2, OneMore
    <2>2. CASE m \notin modes
      <3>1. Holders(r, m) = Holders(lk, m)
        BY <1>5, <2>2 DEF Holders
      <3>. QED
        BY <1>2, <1>6, <2>2, <3>1
    <2>. QED
      BY <2>1, <2>2
  <1>11. ASSUME NEW m \in LockMode
         PROVE  /\ r.requested[m] = r.granted[m] + Cardinality(Askers(r, w, m))
                /\ m \in r.waitMask <=> r.requested[m] > r.granted[m]
    <2>1. Askers(r, w, m) = Askers(lk, w, m)
      BY <1>9 DEF Askers
    <2>2. Cardinality(Askers(lk, w, m)) \in Nat
      <3>1. Askers(lk, w, m) \in SUBSET Proc
        BY DEF Askers
      <3>. QED
        BY <3>1, ProcsFinite
    <2>3. lk.granted[m] \in Nat /\ lk.requested[m] \in Nat
      BY <1>3
    <2>4. m \in r.waitMask <=> m \in lk.waitMask /\ ~(m \in modes /\ lk.granted[m] = lk.requested[m])
      BY <1>4
    <2>. QED
      BY <1>2, <1>6, <2>1, <2>2, <2>3, <2>4
  <1>12. CountsRight(r, w)
    <2>1. \A q \in Proc : Waits(r, q) => w[q] \in LockMode /\ w[q] \notin r.holdMask[q]
      BY <1>2, <1>5, <1>9
    <2>2. \A q \in Proc : r.releaseMask[q] \subseteq r.holdMask[q]
      BY <1>2, <1>4, <1>5
    <2>. QED
      BY <1>2, <1>4, <1>7, <1>8, <1>10, <1>11, <2>1, <2>2 DEF CountsRight
  <1>13. \A q \in Proc : q \in ToSet(r.procLocks) <=> r.holdMask[q] # {} \/ Waits(r, q)
    BY <1>2, <1>5, <1>7, <1>9
  <1>. QED
    BY <1>4, <1>5, <1>12, <1>13 DEF LockRight

\* What a request adds to the LOCK.
LEMMA RequestFacts ==
  ASSUME NEW lk \in LOCK, NEW p \in Proc, NEW m \in LockMode, NEW s, s = SetupLockInTable(lk, p, m)
  PROVE  /\ s \in LOCK
         /\ s.procLocks = (IF p \in ToSet(lk.procLocks) THEN lk.procLocks ELSE Append(lk.procLocks, p))
         /\ s.requested = [lk.requested EXCEPT ![m] = @ + 1]
         /\ s.granted = lk.granted /\ s.holdMask = lk.holdMask /\ s.releaseMask = lk.releaseMask
         /\ s.waitMask = lk.waitMask /\ s.waitProcs = lk.waitProcs
  <1>1. /\ lk.procLocks \in Seq(Proc) /\ lk.requested \in [LockMode -> Nat]
    BY LockFacts
  <1>2. Contains(lk.procLocks, p) <=> p \in ToSet(lk.procLocks)
    BY <1>1, ListFacts
  <1>3. /\ s.procLocks = (IF p \in ToSet(lk.procLocks) THEN lk.procLocks ELSE Append(lk.procLocks, p))
        /\ s.requested = [lk.requested EXCEPT ![m] = @ + 1]
        /\ s.granted = lk.granted /\ s.holdMask = lk.holdMask /\ s.releaseMask = lk.releaseMask
        /\ s.waitMask = lk.waitMask /\ s.waitProcs = lk.waitProcs
    BY <1>2 DEF SetupLockInTable, LOCK
  <1>4. s.procLocks \in Seq(Proc) /\ s.requested \in [LockMode -> Nat]
    BY <1>1, <1>3
  <1>5. s = [procLocks |-> s.procLocks, holdMask |-> lk.holdMask, releaseMask |-> lk.releaseMask,
             requested |-> s.requested, granted |-> lk.granted, waitMask |-> lk.waitMask,
             waitProcs |-> lk.waitProcs]
    BY DEF SetupLockInTable, LOCK
  <1>. QED
    BY <1>3, <1>4, <1>5 DEF LOCK

\* A request that is granted at once.
LEMMA SetupThenGrant ==
  ASSUME NEW lk \in LOCK, NEW p \in Proc, NEW m \in LockMode
  PROVE  GrantLock(SetupLockInTable(lk, p, m), p, m) = SetupAndGrant(lk, p, {m})
  <1>1. /\ lk.holdMask \in [Proc -> SUBSET LockMode]
        /\ lk.requested \in [LockMode -> Nat] /\ lk.granted \in [LockMode -> Nat]
    BY LockFacts
  <1>. SUFFICES ASSUME NEW s, s = SetupLockInTable(lk, p, m), NEW g, g = GrantLock(s, p, m),
                       NEW t, t = SetupAndGrant(lk, p, {m})
                PROVE  g = t
    OBVIOUS
  <1>2. /\ s \in LOCK
        /\ s.procLocks = (IF Contains(lk.procLocks, p) THEN lk.procLocks ELSE Append(lk.procLocks, p))
        /\ s.requested = [lk.requested EXCEPT ![m] = @ + 1]
        /\ s.granted = lk.granted /\ s.holdMask = lk.holdMask /\ s.releaseMask = lk.releaseMask
        /\ s.waitMask = lk.waitMask /\ s.waitProcs = lk.waitProcs
    <2>1. Contains(lk.procLocks, p) <=> p \in ToSet(lk.procLocks)
      BY LockFacts, ListFacts
    <2>. QED
      BY <2>1, RequestFacts
  <1>3. s.requested[m] = lk.requested[m] + 1
    BY <1>1, <1>2
  <1>4. [lk.requested EXCEPT ![m] = @ + 1] = More(lk.requested, {m})
    BY <1>1 DEF More
  <1>5. [lk.granted EXCEPT ![m] = @ + 1] = More(lk.granted, {m})
    BY <1>1 DEF More
  <1>6. lk.waitMask \ {k \in {m} : lk.granted[k] = lk.requested[k]} =
          IF lk.granted[m] + 1 = lk.requested[m] + 1 THEN lk.waitMask \ {m} ELSE lk.waitMask
    <2>1. lk.granted[m] \in Nat /\ lk.requested[m] \in Nat
      BY <1>1
    <2>2. lk.granted[m] + 1 = lk.requested[m] + 1 <=> lk.granted[m] = lk.requested[m]
      BY <2>1
    <2>3. CASE lk.granted[m] = lk.requested[m]
      <3>1. {k \in {m} : lk.granted[k] = lk.requested[k]} = {m}
        BY <2>3
      <3>. QED
        BY <2>2, <2>3, <3>1
    <2>4. CASE lk.granted[m] # lk.requested[m]
      <3>1. {k \in {m} : lk.granted[k] = lk.requested[k]} = {}
        BY <2>4
      <3>2. lk.waitMask \ {} = lk.waitMask
        OBVIOUS
      <3>. QED
        BY <2>2, <2>4, <3>1, <3>2
    <2>. QED
      BY <2>3, <2>4
  <1>7. g = [procLocks |-> s.procLocks, holdMask |-> [s.holdMask EXCEPT ![p] = @ \cup {m}],
             releaseMask |-> s.releaseMask, requested |-> s.requested,
             granted |-> [s.granted EXCEPT ![m] = @ + 1],
             waitMask |-> IF s.granted[m] + 1 = s.requested[m] THEN s.waitMask \ {m} ELSE s.waitMask,
             waitProcs |-> s.waitProcs]
    BY <1>2 DEF GrantLock, LOCK
  <1>8. t = [procLocks |-> IF Contains(lk.procLocks, p) THEN lk.procLocks ELSE Append(lk.procLocks, p),
             holdMask |-> [lk.holdMask EXCEPT ![p] = @ \cup {m}],
             releaseMask |-> lk.releaseMask, requested |-> More(lk.requested, {m}),
             granted |-> More(lk.granted, {m}),
             waitMask |-> lk.waitMask \ {k \in {m} : lk.granted[k] = lk.requested[k]},
             waitProcs |-> lk.waitProcs]
    <2>1. {m} # {}
      OBVIOUS
    <2>. QED
      BY <2>1 DEF SetupAndGrant, LOCK
  <1>. QED
    BY <1>2, <1>3, <1>4, <1>5, <1>6, <1>7, <1>8

\* A request that is taken back leaves the LOCK as it was.
LEMMA RequestTakenBack ==
  ASSUME NEW lk, NEW w, LockRight(lk, w), NEW p \in Proc, NEW m \in LockMode, ~Waits(lk, p)
  PROVE  [DropProcLock(SetupLockInTable(lk, p, m), p) EXCEPT !.requested[m] = @ - 1] = lk
  <1>1. lk \in LOCK /\ Distinct(lk.procLocks) /\ (p \in ToSet(lk.procLocks) <=> lk.holdMask[p] # {})
    BY DEF LockRight, CountsRight
  <1>2. lk.procLocks \in Seq(Proc) /\ lk.requested \in [LockMode -> Nat]
    BY <1>1, LockFacts
  <1>3. SUFFICES ASSUME NEW s, s = SetupLockInTable(lk, p, m)
                 PROVE  [DropProcLock(s, p) EXCEPT !.requested[m] = @ - 1] = lk
    OBVIOUS
  <1>4. /\ s \in LOCK
        /\ s.procLocks = (IF p \in ToSet(lk.procLocks) THEN lk.procLocks ELSE Append(lk.procLocks, p))
        /\ s.requested = [lk.requested EXCEPT ![m] = @ + 1]
        /\ s.granted = lk.granted /\ s.holdMask = lk.holdMask /\ s.releaseMask = lk.releaseMask
        /\ s.waitMask = lk.waitMask /\ s.waitProcs = lk.waitProcs
    BY <1>1, <1>3, RequestFacts
  <1>5. ASSUME NEW d, d = DropProcLock(s, p)
        PROVE  d = [s EXCEPT !.procLocks = lk.procLocks]
    <2>1. CASE lk.holdMask[p] = {}
      <3>1. s.procLocks = Append(lk.procLocks, p) /\ s.holdMask[p] = {} /\ p \notin ToSet(lk.procLocks)
        BY <1>1, <1>4, <2>1
      <3>2. Without(s.procLocks, p) = lk.procLocks
        BY <1>1, <1>2, <3>1, AppendRight
      <3>. QED
        BY <1>5, <3>1, <3>2 DEF DropProcLock
    <2>2. CASE lk.holdMask[p] # {}
      <3>1. s.procLocks = lk.procLocks /\ s.holdMask[p] # {}
        BY <1>1, <1>4, <2>2
      <3>. QED
        BY <1>4, <1>5, <3>1 DEF DropProcLock, LOCK
    <2>. QED
      BY <2>1, <2>2
  <1>6. [s.requested EXCEPT ![m] = @ - 1] = lk.requested
    BY <1>2, <1>4
  <1>7. ASSUME NEW d, d = [s EXCEPT !.procLocks = lk.procLocks]
        PROVE  [d EXCEPT !.requested[m] = @ - 1] = lk
    <2>1. d = [procLocks |-> lk.procLocks, holdMask |-> lk.holdMask, releaseMask |-> lk.releaseMask,
               requested |-> s.requested, granted |-> lk.granted, waitMask |-> lk.waitMask,
               waitProcs |-> lk.waitProcs]
      BY <1>4, <1>7 DEF LOCK
    <2>2. [d EXCEPT !.requested[m] = @ - 1] =
              [procLocks |-> lk.procLocks, holdMask |-> lk.holdMask, releaseMask |-> lk.releaseMask,
               requested |-> lk.requested, granted |-> lk.granted, waitMask |-> lk.waitMask,
               waitProcs |-> lk.waitProcs]
      BY <1>6, <2>1
    <2>. QED
      BY <1>1, <2>2 DEF LOCK
  <1>. QED
    BY <1>5, <1>7

\* The LOCK with p's request in it and p at place i of the queue.
QueuedAt(lk, p, m, i) ==
  [SetupLockInTable(lk, p, m) EXCEPT !.waitProcs = InsertAt(@, i, p), !.waitMask = @ \cup {m}]

\* A request that has to wait, at place i of the queue.
LEMMA RequestQueued ==
  ASSUME NEW lk, NEW w, LockRight(lk, w), NEW p \in Proc, NEW m \in LockMode, ~Waits(lk, p), m \notin lk.holdMask[p],
         NEW i \in 1..(Len(lk.waitProcs) + 1), NEW w2, w2[p] = m, \A q \in Proc : Waits(lk, q) => w2[q] = w[q],
         NEW r, r = QueuedAt(lk, p, m, i)
  PROVE  /\ LockRight(r, w2)
         /\ r.waitProcs = InsertAt(lk.waitProcs, i, p)
         /\ r.holdMask = lk.holdMask /\ r.releaseMask = lk.releaseMask
         /\ \A q \in Proc : Waits(r, q) <=> Waits(lk, q) \/ q = p
  <1>2. /\ lk \in LOCK /\ Distinct(lk.procLocks) /\ Distinct(lk.waitProcs)
        /\ \A q \in Proc : Waits(lk, q) => w[q] \in LockMode /\ w[q] \notin lk.holdMask[q]
        /\ \A k \in LockMode : lk.granted[k] = Cardinality(Holders(lk, k))
        /\ \A k \in LockMode : lk.requested[k] = lk.granted[k] + Cardinality(Askers(lk, w, k))
        /\ \A k \in LockMode : k \in lk.waitMask <=> lk.requested[k] > lk.granted[k]
        /\ \A q \in Proc : lk.releaseMask[q] \subseteq lk.holdMask[q]
        /\ \A q \in Proc : q \in ToSet(lk.procLocks) <=> lk.holdMask[q] # {} \/ Waits(lk, q)
    BY DEF LockRight, CountsRight
  <1>3. /\ lk.procLocks \in Seq(Proc) /\ lk.waitProcs \in Seq(Proc) /\ lk.waitMask \subseteq LockMode
        /\ lk.requested \in [LockMode -> Nat] /\ lk.granted \in [LockMode -> Nat]
    BY <1>2, LockFacts
  <1>4. /\ r.procLocks = (IF p \in ToSet(lk.procLocks) THEN lk.procLocks ELSE Append(lk.procLocks, p))
        /\ r.requested = [lk.requested EXCEPT ![m] = @ + 1]
        /\ r.granted = lk.granted /\ r.holdMask = lk.holdMask /\ r.releaseMask = lk.releaseMask
        /\ r.waitMask = lk.waitMask \cup {m} /\ r.waitProcs = InsertAt(lk.waitProcs, i, p)
        /\ r = [procLocks |-> r.procLocks, holdMask |-> lk.holdMask, releaseMask |-> lk.releaseMask,
                requested |-> r.requested, granted |-> lk.granted, waitMask |-> r.waitMask,
                waitProcs |-> r.waitProcs]
    <2>1. ASSUME NEW s, s = SetupLockInTable(lk, p, m)
          PROVE  r.procLocks = s.procLocks /\ r.requested = s.requested /\ r.granted = s.granted
                 /\ r.holdMask = s.holdMask /\ r.releaseMask = s.releaseMask
                 /\ r.waitMask = s.waitMask \cup {m} /\ r.waitProcs = InsertAt(s.waitProcs, i, p)
                 /\ r = [procLocks |-> s.procLocks, holdMask |-> s.holdMask, releaseMask |-> s.releaseMask,
                         requested |-> s.requested, granted |-> s.granted, waitMask |-> r.waitMask,
                         waitProcs |-> r.waitProcs]
      <3>1. s \in LOCK
        BY <1>2, <2>1, RequestFacts
      <3>2. r = [s EXCEPT !.waitProcs = InsertAt(@, i, p), !.waitMask = @ \cup {m}]
        BY <2>1 DEF QueuedAt
      <3>. QED
        BY <3>1, <3>2 DEF LOCK
    <2>2. ASSUME NEW s, s = SetupLockInTable(lk, p, m)
          PROVE  /\ s.procLocks = (IF p \in ToSet(lk.procLocks) THEN lk.procLocks ELSE Append(lk.procLocks, p))
                 /\ s.requested = [lk.requested EXCEPT ![m] = @ + 1]
                 /\ s.granted = lk.granted /\ s.holdMask = lk.holdMask /\ s.releaseMask = lk.releaseMask
                 /\ s.waitMask = lk.waitMask /\ s.waitProcs = lk.waitProcs
      BY <1>2, <2>2, RequestFacts
    <2>. QED
      BY <2>1, <2>2
  <1>5. p \notin ToSet(lk.waitProcs)
    BY DEF Waits
  <1>6. /\ r.waitProcs \in Seq(Proc) /\ Distinct(r.waitProcs)
        /\ \A x : x \in ToSet(r.waitProcs) <=> x \in ToSet(lk.waitProcs) \/ x = p
    BY <1>2, <1>3, <1>4, <1>5, InsertRight
  <1>7. \A q \in Proc : Waits(r, q) <=> Waits(lk, q) \/ q = p
    BY <1>6 DEF Waits
  <1>8. /\ Distinct(r.procLocks) /\ r.procLocks \in Seq(Proc)
        /\ \A q \in Proc : q \in ToSet(r.procLocks) <=> q \in ToSet(lk.procLocks) \/ q = p
    <2>1. r.procLocks = (IF p \in ToSet(lk.procLocks) THEN lk.procLocks ELSE Append(lk.procLocks, p))
      BY <1>4
    <2>2. CASE p \in ToSet(lk.procLocks)
      BY <1>2, <1>3, <2>1, <2>2
    <2>3. CASE p \notin ToSet(lk.procLocks)
      <3>1. r.procLocks = Append(lk.procLocks, p)
        BY <2>1, <2>3
      <3>2. /\ Append(lk.procLocks, p) \in Seq(Proc) /\ Distinct(Append(lk.procLocks, p))
            /\ \A x : x \in ToSet(Append(lk.procLocks, p)) <=> x \in ToSet(lk.procLocks) \/ x = p
        BY <1>2, <1>3, <2>3, AppendRight
      <3>. QED
        BY <3>1, <3>2
    <2>. QED
      BY <2>2, <2>3
  <1>9. r.requested \in [LockMode -> Nat] /\ r.waitMask \in SUBSET LockMode
    <2>1. r.requested = [lk.requested EXCEPT ![m] = @ + 1] /\ r.waitMask = lk.waitMask \cup {m}
      BY <1>4
    <2>2. r.requested \in [LockMode -> Nat]
      <3>1. lk.requested \in [LockMode -> Nat]
        BY <1>3
      <3>2. [lk.requested EXCEPT ![m] = @ + 1] \in [LockMode -> Nat]
        BY <3>1
      <3>. QED
        BY <2>1, <3>2
    <2>3. lk.waitMask \cup {m} \in SUBSET LockMode
      BY <1>3
    <2>4. r.waitMask \in SUBSET LockMode
      BY <2>1, <2>3, Zenon
    <2>. QED
      BY <2>2, <2>4
  <1>10. r \in LOCK
    BY <1>2, <1>4, <1>6, <1>8, <1>9 DEF LOCK
  <1>11. ASSUME NEW k \in LockMode
         PROVE  /\ r.granted[k] = Cardinality(Holders(r, k))
                /\ r.requested[k] = r.granted[k] + Cardinality(Askers(r, w2, k))
                /\ k \in r.waitMask <=> r.requested[k] > r.granted[k]
    <2>1. Holders(r, k) = Holders(lk, k) /\ r.granted[k] = lk.granted[k]
      BY <1>4 DEF Holders
    <2>2. Askers(lk, w, k) \in SUBSET Proc
      BY DEF Askers
    <2>3. Cardinality(Askers(lk, w, k)) \in Nat /\ lk.granted[k] \in Nat /\ lk.requested[k] \in Nat
      BY <1>3, <2>2, ProcsFinite
    <2>4. r.granted[k] = Cardinality(Holders(r, k))
      BY <1>2, <2>1
    <2>5. CASE k = m
      <3>1. p \notin Askers(lk, w, k) /\ \A x : x \in Askers(r, w2, k) <=> x \in Askers(lk, w, k) \/ x = p
        BY <1>7, <2>5 DEF Askers
      <3>2. Cardinality(Askers(r, w2, k)) = Cardinality(Askers(lk, w, k)) + 1
        BY <2>2, <3>1, OneMore
      <3>3. r.requested[k] = lk.requested[k] + 1 /\ k \in r.waitMask
        BY <1>3, <1>4, <2>5
      <3>4. lk.requested[k] = lk.granted[k] + Cardinality(Askers(lk, w, k))
        BY <1>2
      <3>. QED
        <4>1. r.requested[k] = r.granted[k] + Cardinality(Askers(r, w2, k))
          BY <2>1, <2>3, <3>2, <3>3, <3>4
        <4>2. r.requested[k] > r.granted[k]
          BY <2>1, <2>3, <3>3, <3>4
        <4>. QED
          BY <2>4, <3>3, <4>1, <4>2
    <2>6. CASE k # m
      <3>1. Askers(r, w2, k) = Askers(lk, w, k)
        BY <1>7, <2>6 DEF Askers
      <3>2. r.requested[k] = lk.requested[k] /\ (k \in r.waitMask <=> k \in lk.waitMask)
        BY <1>3, <1>4, <2>6
      <3>. QED
        BY <1>2, <2>1, <2>4, <3>1, <3>2
    <2>. QED
      BY <2>5, <2>6
  <1>12. \A q \in Proc : Waits(r, q) => w2[q] \in LockMode /\ w2[q] \notin r.holdMask[q]
    BY <1>2, <1>4, <1>7
  <1>13. CountsRight(r, w2)
    BY <1>2, <1>4, <1>6, <1>8, <1>10, <1>11, <1>12 DEF CountsRight
  <1>14. \A q \in Proc : q \in ToSet(r.procLocks) <=> r.holdMask[q] # {} \/ Waits(r, q)
    BY <1>2, <1>4, <1>7, <1>8
  <1>. QED
    BY <1>4, <1>7, <1>13, <1>14 DEF LockRight

\* The LOCK after the waiter q got its lock.
WokenUp(lk, q, m) == [GrantLock(lk, q, m) EXCEPT !.waitProcs = Without(@, q)]

\* A waiter gets what it waits for and leaves the queue.
LEMMA GrantWaiter ==
  ASSUME NEW lk, NEW w, LockRight(lk, w), NEW q \in Proc, Waits(lk, q), NEW m, m = w[q],
         NEW r, r = WokenUp(lk, q, m)
  PROVE  /\ LockRight(r, w) /\ r.releaseMask = lk.releaseMask /\ r.waitProcs = Without(lk.waitProcs, q)
         /\ \A x \in Proc : Waits(r, x) <=> Waits(lk, x) /\ x # q
         /\ \A x \in Proc : \A k : k \in r.holdMask[x] <=> k \in lk.holdMask[x] \/ (x = q /\ k = m)
  <1>1. /\ lk \in LOCK /\ Distinct(lk.procLocks) /\ Distinct(lk.waitProcs)
        /\ \A x \in Proc : Waits(lk, x) => w[x] \in LockMode /\ w[x] \notin lk.holdMask[x]
        /\ \A k \in LockMode : lk.granted[k] = Cardinality(Holders(lk, k))
        /\ \A k \in LockMode : lk.requested[k] = lk.granted[k] + Cardinality(Askers(lk, w, k))
        /\ \A k \in LockMode : k \in lk.waitMask <=> lk.requested[k] > lk.granted[k]
        /\ \A x \in Proc : lk.releaseMask[x] \subseteq lk.holdMask[x]
        /\ \A x \in Proc : x \in ToSet(lk.procLocks) <=> lk.holdMask[x] # {} \/ Waits(lk, x)
    BY DEF LockRight, CountsRight
  <1>2. /\ lk.procLocks \in Seq(Proc) /\ lk.waitProcs \in Seq(Proc) /\ lk.waitMask \subseteq LockMode
        /\ lk.requested \in [LockMode -> Nat] /\ lk.granted \in [LockMode -> Nat]
        /\ lk.holdMask \in [Proc -> SUBSET LockMode]
    BY <1>1, LockFacts
  <1>3. m \in LockMode /\ m \notin lk.holdMask[q]
    BY <1>1
  <1>4. /\ r.procLocks = lk.procLocks /\ r.requested = lk.requested /\ r.releaseMask = lk.releaseMask
        /\ r.waitProcs = Without(lk.waitProcs, q)
        /\ r.granted = [lk.granted EXCEPT ![m] = @ + 1]
        /\ r.holdMask = [lk.holdMask EXCEPT ![q] = @ \cup {m}]
        /\ r.waitMask = IF lk.granted[m] + 1 = lk.requested[m] THEN lk.waitMask \ {m} ELSE lk.waitMask
    BY <1>1 DEF WokenUp, GrantLock, LOCK
  <1>5. r = [procLocks |-> lk.procLocks, holdMask |-> r.holdMask, releaseMask |-> lk.releaseMask,
             requested |-> lk.requested, granted |-> r.granted, waitMask |-> r.waitMask,
             waitProcs |-> r.waitProcs]
    BY <1>1 DEF WokenUp, GrantLock, LOCK
  <1>6. /\ r.waitProcs \in Seq(Proc) /\ Distinct(r.waitProcs)
        /\ \A x : x \in ToSet(r.waitProcs) <=> x \in ToSet(lk.waitProcs) /\ x # q
    BY <1>1, <1>2, <1>4, WithoutRight
  <1>7. \A x \in Proc : Waits(r, x) <=> Waits(lk, x) /\ x # q
    BY <1>6 DEF Waits
  <1>8. r.holdMask = [lk.holdMask EXCEPT ![q] = @ \cup {m}]
    BY <1>4
  <1>9. \A x \in Proc : r.holdMask[x] = IF x = q THEN lk.holdMask[x] \cup {m} ELSE lk.holdMask[x]
    BY <1>2, <1>8
  <1>9a. \A x \in Proc : \A k : k \in r.holdMask[x] <=> k \in lk.holdMask[x] \/ (x = q /\ k = m)
    <2>. SUFFICES ASSUME NEW x \in Proc, NEW k
                  PROVE  k \in r.holdMask[x] <=> k \in lk.holdMask[x] \/ (x = q /\ k = m)
      OBVIOUS
    <2>1. CASE x = q
      <3>1. r.holdMask[x] = lk.holdMask[x] \cup {m}
        BY <1>9, <2>1
      <3>. QED
        BY <2>1, <3>1
    <2>2. CASE x # q
      <3>1. r.holdMask[x] = lk.holdMask[x]
        BY <1>9, <2>2
      <3>. QED
        BY <2>2, <3>1
    <2>. QED
      BY <2>1, <2>2
  <1>10. r.granted = [lk.granted EXCEPT ![m] = @ + 1]
    BY <1>4
  <1>11. \A k \in LockMode : r.granted[k] = IF k = m THEN lk.granted[k] + 1 ELSE lk.granted[k]
    BY <1>2, <1>10
  <1>12. r \in LOCK
    <2>1. r.holdMask \in [Proc -> SUBSET LockMode]
      <3>1. lk.holdMask[q] \cup {m} \in SUBSET LockMode
        BY <1>2, <1>3
      <3>2. [lk.holdMask EXCEPT ![q] = @ \cup {m}] \in [Proc -> SUBSET LockMode]
        BY <1>2, <3>1
      <3>. QED
        BY <1>8, <3>2
    <2>2. r.granted \in [LockMode -> Nat]
      <3>1. [lk.granted EXCEPT ![m] = @ + 1] \in [LockMode -> Nat]
        BY <1>2, <1>3
      <3>. QED
        BY <1>10, <3>1
    <2>3. r.waitMask \in SUBSET LockMode
      BY <1>2, <1>4
    <2>. QED
      BY <1>1, <1>5, <1>6, <2>1, <2>2, <2>3 DEF LOCK
  <1>13. ASSUME NEW k \in LockMode
         PROVE  /\ r.granted[k] = Cardinality(Holders(r, k))
                /\ r.requested[k] = r.granted[k] + Cardinality(Askers(r, w, k))
                /\ k \in r.waitMask <=> r.requested[k] > r.granted[k]
    <2>1. Holders(lk, k) \in SUBSET Proc /\ Askers(r, w, k) \in SUBSET Proc
      BY DEF Holders, Askers
    <2>2. lk.granted[k] \in Nat /\ lk.requested[k] \in Nat /\ Cardinality(Askers(r, w, k)) \in Nat
      BY <1>2, <2>1, ProcsFinite
    <2>3. r.requested[k] = lk.requested[k]
      BY <1>4
    <2>4. CASE k = m
      <3>1. q \notin Holders(lk, k) /\ \A x : x \in Holders(r, k) <=> x \in Holders(lk, k) \/ x = q
        BY <1>3, <1>9a, <2>4 DEF Holders
      <3>2. Cardinality(Holders(r, k)) = Cardinality(Holders(lk, k)) + 1
        BY <2>1, <3>1, OneMore
      <3>3. q \notin Askers(r, w, k) /\ \A x : x \in Askers(lk, w, k) <=> x \in Askers(r, w, k) \/ x = q
        BY <1>7, <2>4 DEF Askers
      <3>4. Cardinality(Askers(lk, w, k)) = Cardinality(Askers(r, w, k)) + 1
        BY <2>1, <3>3, OneMore
      <3>5. lk.granted[k] = Cardinality(Holders(lk, k)) /\ lk.requested[k] = lk.granted[k] + Cardinality(Askers(lk, w, k))
        BY <1>1
      <3>6. r.granted[k] = lk.granted[k] + 1
        BY <1>11, <2>4
      <3>7. k \in lk.waitMask
        BY <1>1, <2>2, <3>4, <3>5
      <3>8. k \in r.waitMask <=> ~(lk.granted[k] + 1 = lk.requested[k])
        BY <1>4, <2>4, <3>7
      <3>. QED
        BY <2>2, <2>3, <3>2, <3>4, <3>5, <3>6, <3>8
    <2>5. CASE k # m
      <3>1. Holders(r, k) = Holders(lk, k)
        BY <1>9a, <2>5 DEF Holders
      <3>2. Askers(r, w, k) = Askers(lk, w, k)
        BY <1>7, <2>5 DEF Askers
      <3>3. r.granted[k] = lk.granted[k] /\ (k \in r.waitMask <=> k \in lk.waitMask)
        BY <1>4, <1>11, <2>5
      <3>. QED
        BY <1>1, <2>3, <3>1, <3>2, <3>3
    <2>. QED
      BY <2>4, <2>5
  <1>14. CountsRight(r, w)
    <2>1. \A x \in Proc : Waits(r, x) => w[x] \in LockMode /\ w[x] \notin r.holdMask[x]
      <3>. SUFFICES ASSUME NEW x \in Proc, Waits(r, x)
                    PROVE  w[x] \in LockMode /\ w[x] \notin r.holdMask[x]
        OBVIOUS
      <3>1. Waits(lk, x) /\ x # q
        BY <1>7
      <3>. QED
        BY <1>1, <1>9a, <3>1
    <2>2. \A x \in Proc : r.releaseMask[x] \subseteq r.holdMask[x]
      <3>1. r.releaseMask = lk.releaseMask
        BY <1>4
      <3>. QED
        BY <1>1, <1>9a, <3>1
    <2>3. Distinct(r.procLocks)
      BY <1>1, <1>4
    <2>. QED
      BY <1>6, <1>12, <1>13, <2>1, <2>2, <2>3 DEF CountsRight
  <1>15. \A x \in Proc : x \in ToSet(r.procLocks) <=> r.holdMask[x] # {} \/ Waits(r, x)
    <2>. SUFFICES ASSUME NEW x \in Proc
                  PROVE  x \in ToSet(r.procLocks) <=> r.holdMask[x] # {} \/ Waits(r, x)
      OBVIOUS
    <2>1. r.procLocks = lk.procLocks
      BY <1>4
    <2>2. x \in ToSet(r.procLocks) <=> lk.holdMask[x] # {} \/ Waits(lk, x)
      BY <1>1, <2>1
    <2>3. r.holdMask[x] # {} <=> lk.holdMask[x] # {} \/ x = q
      BY <1>9a
    <2>. QED
      BY <1>7, <2>2, <2>3
  <1>. QED
    BY <1>4, <1>7, <1>9, <1>14, <1>15 DEF LockRight

\* The LOCK after p gave up the modes, before CleanUpLock.
Freed(lk, p, modes, marked) == [UnGrantLock(lk, p, modes) EXCEPT !.releaseMask = marked]

GaveUp(lk, r, w, p, modes, marked) ==
  /\ AlmostRight(r, w, p) /\ r.releaseMask = marked /\ r.waitProcs = lk.waitProcs /\ r.waitMask = lk.waitMask
  /\ \A x \in Proc : \A k : k \in r.holdMask[x] <=> k \in lk.holdMask[x] /\ ~(x = p /\ k \in modes)

\* The modes are held by p; what is marked is held and none of them.
MayFree(lk, p, modes, marked) ==
  /\ modes \subseteq lk.holdMask[p] /\ marked \in [Proc -> SUBSET LockMode]
  /\ \A x \in Proc : \A k : k \in marked[x] => k \in lk.holdMask[x] /\ ~(x = p /\ k \in modes)

\* p's locks in some of the modes it holds are given back; what was marked for
\* release is given back, or another mode.
LEMMA UnGrantRight ==
  ASSUME NEW lk, NEW w, LockRight(lk, w), NEW p \in Proc, NEW modes, NEW marked, MayFree(lk, p, modes, marked),
         NEW r, r = Freed(lk, p, modes, marked)
  PROVE  GaveUp(lk, r, w, p, modes, marked)
  <1>. USE DEF MayFree
  <1>1. /\ lk \in LOCK /\ Distinct(lk.procLocks) /\ Distinct(lk.waitProcs)
        /\ \A x \in Proc : Waits(lk, x) => w[x] \in LockMode /\ w[x] \notin lk.holdMask[x]
        /\ \A k \in LockMode : lk.granted[k] = Cardinality(Holders(lk, k))
        /\ \A k \in LockMode : lk.requested[k] = lk.granted[k] + Cardinality(Askers(lk, w, k))
        /\ \A k \in LockMode : k \in lk.waitMask <=> lk.requested[k] > lk.granted[k]
        /\ \A x \in Proc : x \in ToSet(lk.procLocks) <=> lk.holdMask[x] # {} \/ Waits(lk, x)
    BY DEF LockRight, CountsRight
  <1>2. /\ lk.procLocks \in Seq(Proc) /\ lk.waitProcs \in Seq(Proc) /\ lk.waitMask \subseteq LockMode
        /\ lk.requested \in [LockMode -> Nat] /\ lk.granted \in [LockMode -> Nat]
        /\ lk.holdMask \in [Proc -> SUBSET LockMode]
    BY <1>1, LockFacts
  <1>3. /\ r.procLocks = lk.procLocks /\ r.waitProcs = lk.waitProcs /\ r.waitMask = lk.waitMask
        /\ r.releaseMask = marked
        /\ r.holdMask = [lk.holdMask EXCEPT ![p] = @ \ modes]
        /\ r.granted = Less(lk.granted, modes) /\ r.requested = Less(lk.requested, modes)
    BY <1>1 DEF Freed, UnGrantLock, LOCK
  <1>4. r = [procLocks |-> lk.procLocks, holdMask |-> r.holdMask, releaseMask |-> marked,
             requested |-> r.requested, granted |-> r.granted, waitMask |-> lk.waitMask,
             waitProcs |-> lk.waitProcs]
    BY <1>1 DEF Freed, UnGrantLock, LOCK
  <1>5. r.holdMask = [lk.holdMask EXCEPT ![p] = @ \ modes]
    BY <1>3
  <1>6. \A x \in Proc : r.holdMask[x] = IF x = p THEN lk.holdMask[x] \ modes ELSE lk.holdMask[x]
    BY <1>2, <1>5
  <1>6a. \A x \in Proc : \A k : k \in r.holdMask[x] <=> k \in lk.holdMask[x] /\ ~(x = p /\ k \in modes)
    <2>. SUFFICES ASSUME NEW x \in Proc, NEW k
                  PROVE  k \in r.holdMask[x] <=> k \in lk.holdMask[x] /\ ~(x = p /\ k \in modes)
      OBVIOUS
    <2>1. CASE x = p
      <3>1. r.holdMask[x] = lk.holdMask[x] \ modes
        BY <1>6, <2>1
      <3>. QED
        BY <2>1, <3>1
    <2>2. CASE x # p
      <3>1. r.holdMask[x] = lk.holdMask[x]
        BY <1>6, <2>2
      <3>. QED
        BY <2>2, <3>1
    <2>. QED
      BY <2>1, <2>2
  <1>7. \A k \in LockMode : /\ r.granted[k] = IF k \in modes THEN lk.granted[k] - 1 ELSE lk.granted[k]
                            /\ r.requested[k] = IF k \in modes THEN lk.requested[k] - 1 ELSE lk.requested[k]
    BY <1>3 DEF Less
  <1>8. \A x \in Proc : Waits(r, x) <=> Waits(lk, x)
    BY <1>3 DEF Waits
  <1>9. ASSUME NEW k \in LockMode
        PROVE  /\ r.granted[k] = Cardinality(Holders(r, k)) /\ r.granted[k] \in Nat /\ r.requested[k] \in Nat
               /\ r.requested[k] = r.granted[k] + Cardinality(Askers(r, w, k))
               /\ k \in r.waitMask <=> r.requested[k] > r.granted[k]
    <2>1. Holders(r, k) \in SUBSET Proc /\ Askers(lk, w, k) \in SUBSET Proc
      BY DEF Holders, Askers
    <2>2. lk.granted[k] \in Nat /\ lk.requested[k] \in Nat /\ Cardinality(Askers(lk, w, k)) \in Nat
      BY <1>2, <2>1, ProcsFinite
    <2>3. Askers(r, w, k) = Askers(lk, w, k)
      BY <1>8 DEF Askers
    <2>4. /\ lk.granted[k] = Cardinality(Holders(lk, k))
          /\ lk.requested[k] = lk.granted[k] + Cardinality(Askers(lk, w, k))
          /\ k \in lk.waitMask <=> lk.requested[k] > lk.granted[k]
          /\ k \in r.waitMask <=> k \in lk.waitMask
      BY <1>1, <1>3
    <2>5. CASE k \in modes
      <3>1. p \notin Holders(r, k) /\ \A x : x \in Holders(lk, k) <=> x \in Holders(r, k) \/ x = p
        BY <1>6a, <2>5 DEF Holders
      <3>2. Cardinality(Holders(lk, k)) = Cardinality(Holders(r, k)) + 1 /\ Cardinality(Holders(r, k)) \in Nat
        <4>1. Holders(r, k) \in SUBSET Proc
          BY <2>1
        <4>. QED
          BY <3>1, <4>1, OneMore
      <3>3. r.granted[k] = lk.granted[k] - 1 /\ r.requested[k] = lk.requested[k] - 1
        BY <1>7, <2>5
      <3>. QED
        BY <2>2, <2>3, <2>4, <3>2, <3>3
    <2>6. CASE k \notin modes
      <3>1. Holders(r, k) = Holders(lk, k)
        BY <1>6a, <2>6 DEF Holders
      <3>2. r.granted[k] = lk.granted[k] /\ r.requested[k] = lk.requested[k]
        BY <1>7, <2>6
      <3>. QED
        BY <2>2, <2>3, <2>4, <3>1, <3>2
    <2>. QED
      BY <2>5, <2>6
  <1>10. r \in LOCK
    <2>1. lk.holdMask[p] \ modes \in SUBSET LockMode
      BY <1>2
    <2>2. r.holdMask \in [Proc -> SUBSET LockMode]
      BY <1>2, <1>5, <2>1
    <2>3. r.granted = [k \in LockMode |-> r.granted[k]] /\ r.requested = [k \in LockMode |-> r.requested[k]]
      BY <1>3 DEF Less
    <2>4. r.granted \in [LockMode -> Nat]
      BY <1>9, <2>3
    <2>5. r.requested \in [LockMode -> Nat]
      BY <1>9, <2>3
    <2>. QED
      BY <1>2, <1>4, <2>2, <2>4, <2>5 DEF LOCK
  <1>11. CountsRight(r, w)
    <2>1. \A x \in Proc : Waits(r, x) => w[x] \in LockMode /\ w[x] \notin r.holdMask[x]
      BY <1>1, <1>6a, <1>8
    <2>2. \A x \in Proc : r.releaseMask[x] \subseteq r.holdMask[x]
      BY <1>3, <1>6
    <2>3. Distinct(r.procLocks) /\ Distinct(r.waitProcs)
      BY <1>1, <1>3
    <2>. QED
      BY <1>9, <1>10, <2>1, <2>2, <2>3 DEF CountsRight
  <1>12. \A x \in Proc : x # p => (x \in ToSet(r.procLocks) <=> r.holdMask[x] # {} \/ Waits(r, x))
    BY <1>1, <1>3, <1>6, <1>8
  <1>13. r.holdMask[p] # {} => p \in ToSet(r.procLocks)
    BY <1>1, <1>3, <1>6
  <1>. QED
    BY <1>3, <1>6a, <1>11, <1>12, <1>13 DEF AlmostRight, GaveUp

\* The LOCK after p has left the queue, before CleanUpLock.
Left(lk, p, m, left) ==
  [lk EXCEPT !.waitProcs = Without(@, p), !.requested[m] = left,
             !.waitMask = IF lk.granted[m] = left THEN @ \ {m} ELSE @]

\* A waiter gives up.
LEMMA WaiterLeaves ==
  ASSUME NEW lk, NEW w, LockRight(lk, w), NEW p \in Proc, Waits(lk, p), NEW m, m = w[p],
         NEW left, left = lk.requested[m] - 1,
         NEW r, r = Left(lk, p, m, left)
  PROVE  /\ AlmostRight(r, w, p) /\ r.releaseMask = lk.releaseMask /\ r.holdMask = lk.holdMask
         /\ \A x \in Proc : Waits(r, x) <=> Waits(lk, x) /\ x # p
  <1>1. /\ lk \in LOCK /\ Distinct(lk.procLocks) /\ Distinct(lk.waitProcs)
        /\ \A x \in Proc : Waits(lk, x) => w[x] \in LockMode /\ w[x] \notin lk.holdMask[x]
        /\ \A k \in LockMode : lk.granted[k] = Cardinality(Holders(lk, k))
        /\ \A k \in LockMode : lk.requested[k] = lk.granted[k] + Cardinality(Askers(lk, w, k))
        /\ \A k \in LockMode : k \in lk.waitMask <=> lk.requested[k] > lk.granted[k]
        /\ \A x \in Proc : lk.releaseMask[x] \subseteq lk.holdMask[x]
        /\ \A x \in Proc : x \in ToSet(lk.procLocks) <=> lk.holdMask[x] # {} \/ Waits(lk, x)
    BY DEF LockRight, CountsRight
  <1>2. /\ lk.procLocks \in Seq(Proc) /\ lk.waitProcs \in Seq(Proc) /\ lk.waitMask \subseteq LockMode
        /\ lk.requested \in [LockMode -> Nat] /\ lk.granted \in [LockMode -> Nat]
    BY <1>1, LockFacts
  <1>3. m \in LockMode
    BY <1>1
  <1>4. /\ r.procLocks = lk.procLocks /\ r.releaseMask = lk.releaseMask
        /\ r.waitProcs = Without(lk.waitProcs, p)
        /\ r.granted = lk.granted /\ r.holdMask = lk.holdMask
        /\ r.waitMask = IF lk.granted[m] = left THEN lk.waitMask \ {m} ELSE lk.waitMask
    BY <1>1 DEF Left, LOCK
  <1>5. r.requested = [lk.requested EXCEPT ![m] = left]
    BY <1>1 DEF Left, LOCK
  <1>6. r = [procLocks |-> lk.procLocks, holdMask |-> lk.holdMask, releaseMask |-> lk.releaseMask,
             requested |-> r.requested, granted |-> lk.granted, waitMask |-> r.waitMask,
             waitProcs |-> r.waitProcs]
    BY <1>1 DEF Left, LOCK
  <1>7. /\ r.waitProcs \in Seq(Proc) /\ Distinct(r.waitProcs)
        /\ \A x : x \in ToSet(r.waitProcs) <=> x \in ToSet(lk.waitProcs) /\ x # p
    BY <1>1, <1>2, <1>4, WithoutRight
  <1>8. \A x \in Proc : Waits(r, x) <=> Waits(lk, x) /\ x # p
    BY <1>7 DEF Waits
  <1>9. ASSUME NEW k \in LockMode
        PROVE  /\ Askers(r, w, k) \in SUBSET Proc /\ Cardinality(Askers(r, w, k)) \in Nat
               /\ lk.granted[k] \in Nat /\ lk.requested[k] \in Nat
               /\ lk.requested[k] = lk.granted[k] + Cardinality(Askers(lk, w, k))
    <2>1. Askers(r, w, k) \in SUBSET Proc
      BY DEF Askers
    <2>2. Cardinality(Askers(r, w, k)) \in Nat
      BY <2>1, ProcsFinite
    <2>. QED
      BY <1>1, <1>2, <2>1, <2>2
  <1>10. Cardinality(Askers(lk, w, m)) = Cardinality(Askers(r, w, m)) + 1
    <2>1. Askers(r, w, m) \in SUBSET Proc
      BY <1>3, <1>9
    <2>2. p \notin Askers(r, w, m) /\ \A x : x \in Askers(lk, w, m) <=> x \in Askers(r, w, m) \/ x = p
      BY <1>8 DEF Askers
    <2>. QED
      BY <2>1, <2>2, OneMore
  <1>11. left \in Nat /\ left = lk.granted[m] + Cardinality(Askers(r, w, m))
    BY <1>3, <1>9, <1>10
  <1>12. r.requested \in [LockMode -> Nat] /\ \A k \in LockMode : r.requested[k] = IF k = m THEN left ELSE lk.requested[k]
    <2>1. [lk.requested EXCEPT ![m] = left] \in [LockMode -> Nat]
      BY <1>2, <1>3, <1>11
    <2>2. \A k \in LockMode : [lk.requested EXCEPT ![m] = left][k] = IF k = m THEN left ELSE lk.requested[k]
      BY <1>2
    <2>. QED
      BY <1>5, <2>1, <2>2
  <1>13. ASSUME NEW k \in LockMode
         PROVE  /\ r.granted[k] = Cardinality(Holders(r, k))
                /\ r.requested[k] = r.granted[k] + Cardinality(Askers(r, w, k))
                /\ k \in r.waitMask <=> r.requested[k] > r.granted[k]
    <2>1. Holders(r, k) = Holders(lk, k)
      BY <1>4 DEF Holders
    <2>2. r.granted[k] = lk.granted[k] /\ r.granted[k] = Cardinality(Holders(r, k))
      BY <1>1, <1>4, <2>1
    <2>3. CASE k = m
      <3>1. m \in lk.waitMask
        BY <1>1, <1>3, <1>9, <1>10
      <3>2. m \in r.waitMask <=> ~(lk.granted[m] = left)
        BY <1>4, <3>1
      <3>3. r.requested[k] = left
        BY <1>12, <2>3
      <3>. QED
        <4>1. /\ lk.granted[m] \in Nat /\ Cardinality(Askers(r, w, m)) \in Nat
              /\ left = lk.granted[m] + Cardinality(Askers(r, w, m))
          BY <1>3, <1>9, <1>11
        <4>2. r.requested[m] = left /\ r.granted[m] = lk.granted[m]
          BY <2>2, <2>3, <3>3
        <4>3. m \in r.waitMask <=> r.requested[m] > r.granted[m]
          <5>. DEFINE Differ(a, c) == c > a <=> ~(a = c)
          <5>0. ASSUME NEW a \in Nat, NEW b \in Nat PROVE Differ(a, a + b)
            OBVIOUS
          <5>0a. Differ(lk.granted[m], left)
            <6>. HIDE DEF Differ
            <6>. QED
              BY <4>1, <5>0
          <5>1. left > lk.granted[m] <=> ~(lk.granted[m] = left)
            BY <5>0a
          <5>. QED
            BY <3>2, <4>2, <5>1
        <4>. QED
          BY <2>2, <2>3, <4>1, <4>2, <4>3
    <2>4. CASE k # m
      <3>1. Askers(r, w, k) = Askers(lk, w, k)
        BY <1>8, <2>4 DEF Askers
      <3>2. r.requested[k] = lk.requested[k] /\ (k \in r.waitMask <=> k \in lk.waitMask)
        BY <1>4, <1>12, <2>4
      <3>. QED
        BY <1>1, <2>2, <3>1, <3>2
    <2>. QED
      BY <2>3, <2>4
  <1>14. r \in LOCK
    <2>1. r.waitMask \in SUBSET LockMode
      BY <1>2, <1>4
    <2>. QED
      BY <1>1, <1>6, <1>7, <1>12, <2>1 DEF Left, LOCK
  <1>15. CountsRight(r, w)
    <2>1. \A x \in Proc : Waits(r, x) => w[x] \in LockMode /\ w[x] \notin r.holdMask[x]
      BY <1>1, <1>4, <1>8
    <2>2. \A x \in Proc : r.releaseMask[x] \subseteq r.holdMask[x]
      BY <1>1, <1>4
    <2>3. Distinct(r.procLocks)
      BY <1>1, <1>4
    <2>. QED
      BY <1>7, <1>13, <1>14, <2>1, <2>2, <2>3 DEF CountsRight
  <1>16. \A x \in Proc : x # p => (x \in ToSet(r.procLocks) <=> r.holdMask[x] # {} \/ Waits(r, x))
    BY <1>1, <1>4, <1>8
  <1>17. r.holdMask[p] # {} => p \in ToSet(r.procLocks)
    BY <1>1, <1>4
  <1>. QED
    BY <1>4, <1>8, <1>15, <1>16, <1>17 DEF AlmostRight

\* p's PROCLOCK goes if p holds nothing.
LEMMA DropRight ==
  ASSUME NEW lk, NEW w, NEW p \in Proc, AlmostRight(lk, w, p), ~Waits(lk, p), NEW r, r = DropProcLock(lk, p)
  PROVE  /\ LockRight(r, w) /\ r.releaseMask = lk.releaseMask /\ r.holdMask = lk.holdMask
         /\ r.waitProcs = lk.waitProcs
  <1>1. /\ CountsRight(lk, w) /\ lk \in LOCK /\ Distinct(lk.procLocks)
        /\ \A x \in Proc : x # p => (x \in ToSet(lk.procLocks) <=> lk.holdMask[x] # {} \/ Waits(lk, x))
        /\ lk.holdMask[p] # {} => p \in ToSet(lk.procLocks)
    BY DEF AlmostRight, CountsRight
  <1>2. CASE lk.holdMask[p] # {}
    <2>1. r = lk
      BY <1>2 DEF DropProcLock
    <2>2. \A x \in Proc : x \in ToSet(r.procLocks) <=> r.holdMask[x] # {} \/ Waits(r, x)
      BY <1>1, <1>2, <2>1
    <2>. QED
      BY <1>1, <2>1, <2>2 DEF LockRight
  <1>3. CASE lk.holdMask[p] = {}
    <2>1. r = [lk EXCEPT !.procLocks = Without(@, p)]
      BY <1>3 DEF DropProcLock
    <2>2. /\ r.procLocks = Without(lk.procLocks, p) /\ r.waitProcs = lk.waitProcs /\ r.holdMask = lk.holdMask
          /\ r.releaseMask = lk.releaseMask /\ r.requested = lk.requested /\ r.granted = lk.granted
          /\ r.waitMask = lk.waitMask
      BY <1>1, <2>1 DEF LOCK
    <2>3. r = [procLocks |-> r.procLocks, holdMask |-> lk.holdMask, releaseMask |-> lk.releaseMask,
               requested |-> lk.requested, granted |-> lk.granted, waitMask |-> lk.waitMask,
               waitProcs |-> lk.waitProcs]
      BY <1>1, <2>1 DEF LOCK
    <2>4. lk.procLocks \in Seq(Proc)
      BY <1>1, LockFacts
    <2>5. /\ r.procLocks \in Seq(Proc) /\ Distinct(r.procLocks)
          /\ \A x : x \in ToSet(r.procLocks) <=> x \in ToSet(lk.procLocks) /\ x # p
      BY <1>1, <2>2, <2>4, WithoutRight
    <2>6. r \in LOCK
      BY <1>1, <2>3, <2>5 DEF LOCK
    <2>7. \A x \in Proc : Waits(r, x) <=> Waits(lk, x)
      BY <2>2 DEF Waits
    <2>8. \A k \in LockMode : Holders(r, k) = Holders(lk, k) /\ Askers(r, w, k) = Askers(lk, w, k)
      BY <2>2, <2>7 DEF Holders, Askers
    <2>9. CountsRight(r, w)
      BY <1>1, <2>2, <2>5, <2>6, <2>7, <2>8 DEF CountsRight
    <2>10. \A x \in Proc : x \in ToSet(r.procLocks) <=> r.holdMask[x] # {} \/ Waits(r, x)
      BY <1>1, <1>3, <2>2, <2>5, <2>7
    <2>. QED
      BY <2>2, <2>9, <2>10 DEF LockRight
  <1>. QED
    BY <1>2, <1>3

-----------------------------------------------------------------------------
(* ProcLockWakeup.                                                         *)

SEEN == [lk : LOCK, aheadRequests : SUBSET LockMode]

\* One turn of the loop maps what has been seen to what has been seen.
LEMMA TurnTyped ==
  ASSUME NEW seen \in SEEN, NEW q \in Proc, proc[q].waitLockMode \in LockMode
  PROVE  WakeupTurn(seen, q) \in SEEN
  <1>. DEFINE m == proc[q].waitLockMode
  <1>1. seen.lk \in LOCK /\ seen.aheadRequests \in SUBSET LockMode /\ m \in LockMode
    BY DEF SEEN
  <1>. HIDE DEF m
  <1>2. ASSUME NEW r, r = [GrantLock(seen.lk, q, m) EXCEPT !.waitProcs = Without(@, q)]
        PROVE  r \in LOCK
    <2>1. /\ seen.lk.procLocks \in Seq(Proc) /\ seen.lk.waitProcs \in Seq(Proc)
          /\ seen.lk.waitMask \subseteq LockMode
          /\ seen.lk.holdMask \in [Proc -> SUBSET LockMode] /\ seen.lk.releaseMask \in [Proc -> SUBSET LockMode]
          /\ seen.lk.requested \in [LockMode -> Nat] /\ seen.lk.granted \in [LockMode -> Nat]
      BY <1>1, LockFacts
    <2>2. /\ r.granted = [seen.lk.granted EXCEPT ![m] = @ + 1]
          /\ r.holdMask = [seen.lk.holdMask EXCEPT ![q] = @ \cup {m}]
          /\ r.waitProcs = Without(seen.lk.waitProcs, q)
          /\ r.waitMask = IF seen.lk.granted[m] + 1 = seen.lk.requested[m] THEN seen.lk.waitMask \ {m} ELSE seen.lk.waitMask
          /\ r = [procLocks |-> seen.lk.procLocks, holdMask |-> r.holdMask, releaseMask |-> seen.lk.releaseMask,
                  requested |-> seen.lk.requested, granted |-> r.granted, waitMask |-> r.waitMask,
                  waitProcs |-> r.waitProcs]
      BY <1>1, <1>2 DEF GrantLock, LOCK
    <2>3. [seen.lk.granted EXCEPT ![m] = @ + 1] \in [LockMode -> Nat]
      BY <1>1, <2>1
    <2>4. [seen.lk.holdMask EXCEPT ![q] = @ \cup {m}] \in [Proc -> SUBSET LockMode]
      <3>1. seen.lk.holdMask[q] \cup {m} \in SUBSET LockMode
        BY <1>1, <2>1
      <3>. QED
        BY <2>1, <3>1
    <2>5. Without(seen.lk.waitProcs, q) \in Seq(Proc)
      <3>1. CASE \E i \in DOMAIN seen.lk.waitProcs : seen.lk.waitProcs[i] = q
        <4>. DEFINE i == CHOOSE i \in DOMAIN seen.lk.waitProcs :
                           /\ seen.lk.waitProcs[i] = q
                           /\ \A j \in DOMAIN seen.lk.waitProcs : seen.lk.waitProcs[j] = q => i <= j
        <4>1. \E k \in DOMAIN seen.lk.waitProcs :
                           /\ seen.lk.waitProcs[k] = q
                           /\ \A j \in DOMAIN seen.lk.waitProcs : seen.lk.waitProcs[j] = q => k <= j
          <5>. DEFINE S == {j \in DOMAIN seen.lk.waitProcs : seen.lk.waitProcs[j] = q}
          <5>1. S \in SUBSET Nat /\ S # {}
            BY <2>1, <3>1
          <5>2. PICK k \in S : \A j \in S : k <= j
            <6>. HIDE DEF S
            <6>. QED
              BY <5>1, Smallest
          <5>. QED
            BY <5>2
        <4>2. i \in DOMAIN seen.lk.waitProcs
          BY <4>1
        <4>3. Without(seen.lk.waitProcs, q) =
                SubSeq(seen.lk.waitProcs, 1, i - 1) \o SubSeq(seen.lk.waitProcs, i + 1, Len(seen.lk.waitProcs))
          BY <3>1 DEF Without
        <4>. HIDE DEF i
        <4>4. /\ SubSeq(seen.lk.waitProcs, 1, i - 1) \in Seq(Proc)
              /\ SubSeq(seen.lk.waitProcs, i + 1, Len(seen.lk.waitProcs)) \in Seq(Proc)
          BY <2>1, <4>2
        <4>. QED
          BY <4>3, <4>4, ConcatFacts
      <3>2. CASE ~\E i \in DOMAIN seen.lk.waitProcs : seen.lk.waitProcs[i] = q
        BY <2>1, <3>2 DEF Without
      <3>. QED
        BY <3>1, <3>2
    <2>6. r.waitMask \in SUBSET LockMode
      BY <2>1, <2>2
    <2>7. /\ r.granted \in [LockMode -> Nat] /\ r.holdMask \in [Proc -> SUBSET LockMode]
          /\ r.waitProcs \in Seq(Proc)
      BY <2>2, <2>3, <2>4, <2>5
    <2>8. r = [procLocks |-> seen.lk.procLocks, holdMask |-> r.holdMask, releaseMask |-> seen.lk.releaseMask,
               requested |-> seen.lk.requested, granted |-> r.granted, waitMask |-> r.waitMask,
               waitProcs |-> r.waitProcs]
      BY <2>2
    <2>. QED
      BY <2>1, <2>6, <2>7, <2>8 DEF LOCK
  <1>3. [seen EXCEPT !.lk = [GrantLock(seen.lk, q, m) EXCEPT !.waitProcs = Without(@, q)]] \in SEEN
    BY <1>1, <1>2 DEF SEEN
  <1>4. [seen EXCEPT !.aheadRequests = @ \cup {m}] \in SEEN
    BY <1>1 DEF SEEN
  <1>. QED
    BY <1>3, <1>4 DEF WakeupTurn, m

\* The loop of ProcLockWakeup, turn by turn.
LEMMA WakeupLoop ==
  ASSUME NEW lk \in LOCK, \A p \in Proc : Waits(lk, p) => proc[p].waitLockMode \in LockMode
  PROVE  \E look : /\ look[0] = [lk |-> lk, aheadRequests |-> {}]
                   /\ \A i \in 1..Len(lk.waitProcs) : look[i] = WakeupTurn(look[i - 1], lk.waitProcs[i])
                   /\ ProcLockWakeup(lk) = look[Len(lk.waitProcs)].lk
  <1>. DEFINE n == Len(lk.waitProcs)
              a == [lk |-> lk, aheadRequests |-> {}]
              look == CHOOSE f : f = [i \in 0..n |-> IF i = 0 THEN a ELSE WakeupTurn(f[i - 1], lk.waitProcs[i])]
  <1>1. ProcLockWakeup(lk) = look[n].lk
    BY DEF ProcLockWakeup
  <1>2. /\ n \in Nat /\ a \in SEEN /\ \A i \in 1..n : lk.waitProcs[i] \in Proc /\ Waits(lk, lk.waitProcs[i])
    <2>1. lk.waitProcs \in Seq(Proc)
      BY LockFacts
    <2>2. \A i \in 1..n : lk.waitProcs[i] \in Proc /\ Waits(lk, lk.waitProcs[i])
      BY <2>1, ListFacts DEF Waits
    <2>. QED
      BY <2>1, <2>2 DEF SEEN
  <1>. DEFINE G == [i \in 1..n |-> [s \in SEEN |-> WakeupTurn(s, lk.waitProcs[i])]]
  <1>3. G \in [1..n -> [SEEN -> SEEN]]
    <2>1. \A i \in 1..n : [s \in SEEN |-> WakeupTurn(s, lk.waitProcs[i])] \in [SEEN -> SEEN]
      BY <1>2, TurnTyped
    <2>. QED
      BY <2>1
  <1>4. \A i \in 1..n : \A s \in SEEN : G[i][s] = WakeupTurn(s, lk.waitProcs[i])
    OBVIOUS
  <1>. HIDE DEF G, n, a
  <1>5. PICK f \in [0..n -> SEEN] : f[0] = a /\ \A i \in 1..n : f[i] = G[i][f[i - 1]]
    <2>1. n \in Nat /\ a \in SEEN /\ IsLoop(G, n, SEEN)
      BY <1>2, <1>3 DEF IsLoop
    <2>2. PICK f : IsRun(f, G, n, a, SEEN)
      BY <2>1, Loop, Zenon
    <2>. QED
      BY <2>2 DEF IsRun
  <1>6. \A i \in 0..n : i # 0 => i \in 1..n /\ i - 1 \in 0..n
    BY <1>2
  <1>7. \A i \in 0..n : f[i] = IF i = 0 THEN a ELSE WakeupTurn(f[i - 1], lk.waitProcs[i])
    BY <1>4, <1>5, <1>6
  <1>8. f = [i \in 0..n |-> IF i = 0 THEN a ELSE WakeupTurn(f[i - 1], lk.waitProcs[i])]
    BY <1>5, <1>7
  <1>9. look = [i \in 0..n |-> IF i = 0 THEN a ELSE WakeupTurn(look[i - 1], lk.waitProcs[i])]
    BY <1>8
  <1>. HIDE DEF look
  <1>10. look[0] = a /\ \A i \in 1..n : look[i] = WakeupTurn(look[i - 1], lk.waitProcs[i])
    <2>1. 0 \in 0..n /\ \A i \in 1..n : i \in 0..n /\ i # 0
      BY <1>2
    <2>2. \A i \in 0..n : look[i] = IF i = 0 THEN a ELSE WakeupTurn(look[i - 1], lk.waitProcs[i])
      BY <1>9
    <2>. QED
      BY <2>1, <2>2
  <1>. QED
    BY <1>1, <1>10 DEF n, a

\* r is lk after some of its waiters got their locks and left the queue.
Woke(lk, r, w) ==
  /\ LockRight(r, w) /\ r.releaseMask = lk.releaseMask
  /\ \A x \in Proc : Waits(r, x) => Waits(lk, x)
  /\ \A x \in Proc : \A k : k \in r.holdMask[x] <=>
       k \in lk.holdMask[x] \/ (Waits(lk, x) /\ ~Waits(r, x) /\ k = w[x])
  /\ \A x, h \in Proc : Waits(lk, x) /\ ~Waits(r, x) /\ h # x => r.holdMask[h] \cap conflictTab(w[x]) = {}

\* Before turn i + 1 of ProcLockWakeup's loop.
WakeupSeen(lk, s, i) ==
  /\ Woke(lk, s.lk, WaitMode)
  /\ \A j \in 1..Len(lk.waitProcs) : j > i => Waits(s.lk, lk.waitProcs[j])
  /\ \A x, y \in Proc : Waits(s.lk, x) /\ Waits(s.lk, y) /\ IsBefore(x, y, lk.waitProcs) =>
                          IsBefore(x, y, s.lk.waitProcs)
  /\ \A m : m \in s.aheadRequests <=> \E j \in 1..i : Waits(s.lk, lk.waitProcs[j]) /\ WaitMode[lk.waitProcs[j]] = m
  /\ \A j \in 1..i : Waits(s.lk, lk.waitProcs[j]) => Blocked(s.lk, WaitMode, lk.waitProcs[j])

\* A waiter that is in nobody's way and has nobody in its way gets its lock.
LEMMA TurnGrants ==
  ASSUME NEW lk, LockRight(lk, WaitMode), NEW s \in SEEN, NEW i \in 1..Len(lk.waitProcs), WakeupSeen(lk, s, i - 1),
         NEW q, q = lk.waitProcs[i], NEW m, m = proc[q].waitLockMode, LockCheckConflicts(s.lk, q, m),
         NEW r, r = WokenUp(s.lk, q, m),
         NEW t, t = [s EXCEPT !.lk = r]
  PROVE  WakeupSeen(lk, t, i)
  <1>1. lk.waitProcs \in Seq(Proc) /\ Distinct(lk.waitProcs) /\ lk \in LOCK
    BY LockFacts DEF LockRight, CountsRight
  <1>2. /\ Len(lk.waitProcs) \in Nat /\ DOMAIN lk.waitProcs = 1..Len(lk.waitProcs)
        /\ \A j \in 1..Len(lk.waitProcs) : lk.waitProcs[j] \in Proc
        /\ \A j \in 1..Len(lk.waitProcs) : Waits(lk, lk.waitProcs[j])
    BY <1>1, ListFacts DEF Waits
  <1>3. q \in Proc /\ WaitMode[q] = m /\ i \in Nat
    BY <1>2 DEF WaitMode
  <1>4. LockRight(s.lk, WaitMode) /\ Waits(s.lk, q)
    BY <1>2 DEF WakeupSeen, Woke
  <1>5. /\ LockRight(r, WaitMode) /\ r.releaseMask = s.lk.releaseMask /\ r.waitProcs = Without(s.lk.waitProcs, q)
        /\ \A x \in Proc : Waits(r, x) <=> Waits(s.lk, x) /\ x # q
        /\ \A x \in Proc : \A k : k \in r.holdMask[x] <=> k \in s.lk.holdMask[x] \/ (x = q /\ k = m)
    BY <1>3, <1>4, GrantWaiter
  <1>6. \A x \in Proc : \A k : k \in r.holdMask[x] <=> k \in s.lk.holdMask[x] \/ (x = q /\ k = m)
    BY <1>5
  <1>7. t.lk = r /\ t.aheadRequests = s.aheadRequests
    BY DEF SEEN
  <1>8. Waits(lk, q) /\ m \in LockMode /\ s.lk \in LOCK /\ s.lk.waitProcs \in Seq(Proc) /\ Distinct(s.lk.waitProcs)
    <2>1. Waits(lk, q)
      BY <1>2
    <2>2. WaitMode[q] \in LockMode
      BY <1>3, <2>1 DEF LockRight, CountsRight
    <2>. QED
      BY <1>3, <1>4, <2>1, <2>2, LockFacts DEF LockRight, CountsRight
  <1>9. Woke(lk, r, WaitMode)
    <2>1. /\ s.lk.releaseMask = lk.releaseMask
          /\ \A x \in Proc : Waits(s.lk, x) => Waits(lk, x)
          /\ \A x \in Proc : \A k : k \in s.lk.holdMask[x] <=>
               k \in lk.holdMask[x] \/ (Waits(lk, x) /\ ~Waits(s.lk, x) /\ k = WaitMode[x])
          /\ \A x, h \in Proc : Waits(lk, x) /\ ~Waits(s.lk, x) /\ h # x =>
               s.lk.holdMask[h] \cap conflictTab(WaitMode[x]) = {}
      BY DEF WakeupSeen, Woke
    <2>2. \A x \in Proc : Waits(r, x) => Waits(lk, x)
      BY <1>5, <2>1
    <2>3. \A x \in Proc : \A k : k \in r.holdMask[x] <=>
             k \in lk.holdMask[x] \/ (Waits(lk, x) /\ ~Waits(r, x) /\ k = WaitMode[x])
      <3>. SUFFICES ASSUME NEW x \in Proc, NEW k
                    PROVE  k \in r.holdMask[x] <=>
                             k \in lk.holdMask[x] \/ (Waits(lk, x) /\ ~Waits(r, x) /\ k = WaitMode[x])
        OBVIOUS
      <3>1. k \in s.lk.holdMask[x] <=> k \in lk.holdMask[x] \/ (Waits(lk, x) /\ ~Waits(s.lk, x) /\ k = WaitMode[x])
        BY <2>1
      <3>2. Waits(r, x) <=> Waits(s.lk, x) /\ x # q
        BY <1>5
      <3>3. Waits(s.lk, x) => Waits(lk, x)
        BY <2>1
      <3>4. CASE x = q
        BY <1>3, <1>4, <1>6, <1>8, <3>1, <3>2, <3>4
      <3>5. CASE x # q
        BY <1>6, <3>1, <3>2, <3>5
      <3>. QED
        BY <3>4, <3>5
    <2>4. ASSUME NEW x \in Proc, NEW h \in Proc, Waits(lk, x), ~Waits(r, x), h # x
          PROVE  r.holdMask[h] \cap conflictTab(WaitMode[x]) = {}
      <3>1. \A h2 \in Proc : h2 # q => s.lk.holdMask[h2] \cap conflictTab(m) = {}
        <4>1. \A k \in LockMode : s.lk.granted[k] = Cardinality(Holders(s.lk, k))
          BY <1>4 DEF LockRight, CountsRight
        <4>. QED
          BY <1>3, <1>8, <4>1, CheckMeans
      <3>2. CASE x = q
        BY <1>3, <1>6, <2>4, <3>1, <3>2
      <3>3. CASE x # q
        <4>1. ~Waits(s.lk, x)
          BY <1>5, <2>4, <3>3
        <4>2. s.lk.holdMask[h] \cap conflictTab(WaitMode[x]) = {}
          BY <2>1, <2>4, <4>1
        <4>3. CASE h # q
          <5>1. r.holdMask[h] = s.lk.holdMask[h]
            BY <1>5, <4>3
          <5>. QED
            BY <4>2, <5>1
        <4>4. CASE h = q
          <5>1. WaitMode[x] \in s.lk.holdMask[x] /\ WaitMode[x] \in LockMode
            <6>1. WaitMode[x] \in LockMode
              BY <2>4 DEF LockRight, CountsRight
            <6>. QED
              BY <2>1, <2>4, <4>1, <6>1
          <5>2. WaitMode[x] \notin conflictTab(m)
            BY <3>1, <3>3, <5>1
          <5>3. m \notin conflictTab(WaitMode[x])
            BY <1>8, <5>1, <5>2, ConflictsSymmetric
          <5>4. \A k : k \in r.holdMask[h] => k \in s.lk.holdMask[h] \/ k = m
            BY <1>6
          <5>. QED
            BY <4>2, <5>3, <5>4
        <4>. QED
          BY <4>3, <4>4
      <3>. QED
        BY <3>2, <3>3
    <2>. QED
      BY <1>5, <2>1, <2>2, <2>3, <2>4 DEF Woke
  <1>10. \A j \in 1..Len(lk.waitProcs) : j > i => Waits(r, lk.waitProcs[j])
    <2>. SUFFICES ASSUME NEW j \in 1..Len(lk.waitProcs), j > i
                  PROVE  Waits(r, lk.waitProcs[j])
      OBVIOUS
    <2>1. Waits(s.lk, lk.waitProcs[j])
      <3>1. j > i - 1
        BY <1>3
      <3>. QED
        BY <3>1 DEF WakeupSeen
    <2>2. lk.waitProcs[j] # q
      BY <1>1, <1>2, <1>3 DEF Distinct
    <2>. QED
      BY <1>2, <1>5, <2>1, <2>2
  <1>11. ASSUME NEW x \in Proc, NEW y \in Proc, Waits(r, x), Waits(r, y), IsBefore(x, y, lk.waitProcs)
         PROVE  IsBefore(x, y, r.waitProcs)
    <2>1. Waits(s.lk, x) /\ Waits(s.lk, y) /\ x # q /\ y # q
      BY <1>5, <1>11
    <2>2. IsBefore(x, y, s.lk.waitProcs)
      BY <1>11, <2>1 DEF WakeupSeen
    <2>. QED
      BY <1>5, <1>8, <2>1, <2>2, WithoutRight
  <1>12. \A j \in 1..i : (Waits(r, lk.waitProcs[j]) <=> Waits(s.lk, lk.waitProcs[j]) /\ j # i)
    <2>. SUFFICES ASSUME NEW j \in 1..i
                  PROVE  Waits(r, lk.waitProcs[j]) <=> Waits(s.lk, lk.waitProcs[j]) /\ j # i
      OBVIOUS
    <2>1. j \in 1..Len(lk.waitProcs)
      BY <1>2, <1>3
    <2>2. lk.waitProcs[j] = q <=> j = i
      BY <1>1, <1>2, <2>1 DEF Distinct
    <2>. QED
      BY <1>2, <1>5, <2>1, <2>2
  <1>13. ASSUME NEW k
         PROVE  k \in t.aheadRequests <=> \E j \in 1..i : Waits(r, lk.waitProcs[j]) /\ WaitMode[lk.waitProcs[j]] = k
    <2>1. k \in s.aheadRequests <=>
            \E j \in 1..(i - 1) : Waits(s.lk, lk.waitProcs[j]) /\ WaitMode[lk.waitProcs[j]] = k
      BY DEF WakeupSeen
    <2>2. \A j \in 1..i : j # i => j \in 1..(i - 1)
      BY <1>3
    <2>3. \A j \in 1..(i - 1) : j \in 1..i /\ j # i
      BY <1>3
    <2>. QED
      BY <1>7, <1>12, <2>1, <2>2, <2>3
  <1>14. ASSUME NEW j \in 1..i, Waits(r, lk.waitProcs[j])
         PROVE  Blocked(r, WaitMode, lk.waitProcs[j])
    <2>1. j \in 1..(i - 1) /\ Waits(s.lk, lk.waitProcs[j]) /\ lk.waitProcs[j] \in Proc
      BY <1>2, <1>3, <1>12, <1>14
    <2>2. Blocked(s.lk, WaitMode, lk.waitProcs[j])
      BY <2>1 DEF WakeupSeen
    <2>3. lk.waitProcs[j] # q
      BY <1>5, <1>14, <2>1
    <2>4. CASE \E h \in Proc : h # lk.waitProcs[j] /\ s.lk.holdMask[h] \cap conflictTab(WaitMode[lk.waitProcs[j]]) # {}
      <3>1. PICK h \in Proc : h # lk.waitProcs[j] /\ s.lk.holdMask[h] \cap conflictTab(WaitMode[lk.waitProcs[j]]) # {}
        BY <2>4
      <3>2. s.lk.holdMask[h] \subseteq r.holdMask[h]
        BY <1>6
      <3>. QED
        BY <3>1, <3>2 DEF Blocked
    <2>5. CASE \E x \in Proc : IsBefore(x, lk.waitProcs[j], s.lk.waitProcs) /\ WaitMode[x] \in conflictTab(WaitMode[lk.waitProcs[j]])
      <3>1. PICK x \in Proc : IsBefore(x, lk.waitProcs[j], s.lk.waitProcs) /\ WaitMode[x] \in conflictTab(WaitMode[lk.waitProcs[j]])
        BY <2>5
      <3>2. CASE x = q
        <4>1. m \in r.holdMask[q] /\ m \in conflictTab(WaitMode[lk.waitProcs[j]])
          BY <1>3, <1>6, <3>1, <3>2
        <4>. QED
          BY <1>3, <2>3, <4>1 DEF Blocked
      <3>3. CASE x # q
        <4>1. IsBefore(x, lk.waitProcs[j], r.waitProcs)
          BY <1>5, <1>8, <2>3, <3>1, <3>3, WithoutRight
        <4>. QED
          BY <3>1, <4>1 DEF Blocked
      <3>. QED
        BY <3>2, <3>3
    <2>. QED
      BY <2>2, <2>4, <2>5 DEF Blocked
  <1>15. /\ Woke(lk, t.lk, WaitMode)
         /\ \A j \in 1..Len(lk.waitProcs) : j > i => Waits(t.lk, lk.waitProcs[j])
         /\ \A x, y \in Proc : Waits(t.lk, x) /\ Waits(t.lk, y) /\ IsBefore(x, y, lk.waitProcs) =>
                                 IsBefore(x, y, t.lk.waitProcs)
    BY <1>7, <1>9, <1>10, <1>11
  <1>16. \A k : k \in t.aheadRequests <=>
                  \E j \in 1..i : Waits(t.lk, lk.waitProcs[j]) /\ WaitMode[lk.waitProcs[j]] = k
    BY <1>7, <1>13
  <1>17. \A j \in 1..i : Waits(t.lk, lk.waitProcs[j]) => Blocked(t.lk, WaitMode, lk.waitProcs[j])
    BY <1>7, <1>14
  <1>. QED
    BY <1>15, <1>16, <1>17 DEF WakeupSeen

\* A waiter that has somebody in its way goes on waiting.
LEMMA TurnKeeps ==
  ASSUME NEW lk, LockRight(lk, WaitMode), NEW s \in SEEN, NEW i \in 1..Len(lk.waitProcs), WakeupSeen(lk, s, i - 1),
         NEW q, q = lk.waitProcs[i], NEW m, m = proc[q].waitLockMode,
         ~(conflictTab(m) \cap s.aheadRequests = {} /\ LockCheckConflicts(s.lk, q, m)),
         NEW t, t = [s EXCEPT !.aheadRequests = @ \cup {m}]
  PROVE  WakeupSeen(lk, t, i)
  <1>1. lk.waitProcs \in Seq(Proc) /\ Distinct(lk.waitProcs) /\ lk \in LOCK
    BY LockFacts DEF LockRight, CountsRight
  <1>2. /\ Len(lk.waitProcs) \in Nat /\ DOMAIN lk.waitProcs = 1..Len(lk.waitProcs)
        /\ \A j \in 1..Len(lk.waitProcs) : lk.waitProcs[j] \in Proc
        /\ \A j \in 1..Len(lk.waitProcs) : Waits(lk, lk.waitProcs[j])
    BY <1>1, ListFacts DEF Waits
  <1>3. q \in Proc /\ WaitMode[q] = m /\ i \in Nat
    BY <1>2 DEF WaitMode
  <1>4. LockRight(s.lk, WaitMode) /\ Waits(s.lk, q)
    BY <1>2 DEF WakeupSeen, Woke
  <1>5. t.lk = s.lk /\ \A k : k \in t.aheadRequests <=> k \in s.aheadRequests \/ k = m
    BY DEF SEEN
  <1>6. m \in LockMode /\ s.lk \in LOCK /\ \A k \in LockMode : s.lk.granted[k] = Cardinality(Holders(s.lk, k))
    BY <1>3, <1>4 DEF LockRight, CountsRight
  <1>7. \A j \in 1..i : j = i \/ j \in 1..(i - 1)
    BY <1>3
  <1>8. \A j \in 1..(i - 1) : j \in 1..i /\ j \in 1..Len(lk.waitProcs) /\ j < i
    BY <1>2, <1>3
  <1>9. Woke(lk, t.lk, WaitMode)
    BY <1>5 DEF WakeupSeen
  <1>10. \A j \in 1..Len(lk.waitProcs) : j > i => Waits(t.lk, lk.waitProcs[j])
    <2>1. \A j \in 1..Len(lk.waitProcs) : j > i => j > i - 1
      BY <1>3
    <2>. QED
      BY <1>5, <2>1 DEF WakeupSeen
  <1>11. \A x, y \in Proc : Waits(t.lk, x) /\ Waits(t.lk, y) /\ IsBefore(x, y, lk.waitProcs) =>
                          IsBefore(x, y, t.lk.waitProcs)
    BY <1>5 DEF WakeupSeen
  <1>12. ASSUME NEW k
         PROVE  k \in t.aheadRequests <=> \E j \in 1..i : Waits(t.lk, lk.waitProcs[j]) /\ WaitMode[lk.waitProcs[j]] = k
    <2>1. k \in s.aheadRequests <=>
            \E j \in 1..(i - 1) : Waits(s.lk, lk.waitProcs[j]) /\ WaitMode[lk.waitProcs[j]] = k
      BY DEF WakeupSeen
    <2>2. i \in 1..i
      BY <1>3
    <2>. QED
      BY <1>3, <1>4, <1>5, <1>7, <1>8, <2>1, <2>2
  <1>13. ASSUME NEW j \in 1..i, Waits(t.lk, lk.waitProcs[j])
         PROVE  Blocked(t.lk, WaitMode, lk.waitProcs[j])
    <2>1. CASE j # i
      <3>1. j \in 1..(i - 1)
        BY <1>7, <2>1
      <3>. QED
        BY <1>5, <1>13, <3>1 DEF WakeupSeen
    <2>2. CASE j = i
      <3>1. CASE ~LockCheckConflicts(s.lk, q, m)
        <4>1. \E h \in Proc : h # q /\ s.lk.holdMask[h] \cap conflictTab(m) # {}
          BY <1>3, <1>6, <3>1, CheckMeans
        <4>. QED
          BY <1>3, <1>5, <2>2, <4>1 DEF Blocked
      <3>2. CASE conflictTab(m) \cap s.aheadRequests # {}
        <4>1. PICK k : k \in conflictTab(m) /\ k \in s.aheadRequests
          BY <3>2
        <4>2. PICK j2 \in 1..(i - 1) : Waits(s.lk, lk.waitProcs[j2]) /\ WaitMode[lk.waitProcs[j2]] = k
          BY <4>1 DEF WakeupSeen
        <4>3. lk.waitProcs[j2] \in Proc /\ IsBefore(lk.waitProcs[j2], q, lk.waitProcs)
          BY <1>2, <1>8 DEF IsBefore
        <4>4. IsBefore(lk.waitProcs[j2], q, s.lk.waitProcs)
          BY <1>3, <1>4, <4>2, <4>3 DEF WakeupSeen
        <4>. QED
          BY <1>3, <1>5, <2>2, <4>1, <4>2, <4>3, <4>4 DEF Blocked
      <3>. QED
        BY <3>1, <3>2
    <2>. QED
      BY <2>1, <2>2
  <1>. QED
    BY <1>9, <1>10, <1>11, <1>12, <1>13 DEF WakeupSeen

\* Those in the queue have not changed their order.
QueueKept(queue, r) ==
  \A x, y \in Proc : Waits(r, x) /\ Waits(r, y) /\ IsBefore(x, y, queue) => IsBefore(x, y, r.waitProcs)

\* ProcLockWakeup grants locks that are in nobody's way, and leaves nobody in the
\* queue who has nobody in its way.
LEMMA WakeupRight ==
  ASSUME NEW lk, LockRight(lk, WaitMode)
  PROVE  /\ Woke(lk, ProcLockWakeup(lk), WaitMode)
         /\ \A q \in Proc : Waits(ProcLockWakeup(lk), q) => Blocked(ProcLockWakeup(lk), WaitMode, q)
         /\ QueueKept(lk.waitProcs, ProcLockWakeup(lk))
  <1>1. /\ lk \in LOCK /\ lk.waitProcs \in Seq(Proc)
        /\ \A p \in Proc : Waits(lk, p) => proc[p].waitLockMode \in LockMode
    BY LockFacts DEF LockRight, CountsRight, WaitMode
  <1>2. PICK look : /\ look[0] = [lk |-> lk, aheadRequests |-> {}]
                    /\ \A i \in 1..Len(lk.waitProcs) : look[i] = WakeupTurn(look[i - 1], lk.waitProcs[i])
                    /\ ProcLockWakeup(lk) = look[Len(lk.waitProcs)].lk
    BY <1>1, WakeupLoop
  <1>3. /\ Len(lk.waitProcs) \in Nat /\ \A j \in 1..Len(lk.waitProcs) : lk.waitProcs[j] \in Proc /\ Waits(lk, lk.waitProcs[j])
        /\ \A x : Waits(lk, x) <=> \E j \in 1..Len(lk.waitProcs) : lk.waitProcs[j] = x
    BY <1>1, ListFacts DEF Waits
  <1>. DEFINE T == {i \in 0..Len(lk.waitProcs) : look[i] \in SEEN /\ WakeupSeen(lk, look[i], i)}
  <1>4. 0 \in T
    <2>1. look[0] \in SEEN /\ look[0].lk = lk /\ look[0].aheadRequests = {}
      BY <1>1, <1>2 DEF SEEN
    <2>2. Woke(lk, lk, WaitMode)
      BY DEF Woke
    <2>3. \A j \in 1..0 : FALSE
      OBVIOUS
    <2>4. WakeupSeen(lk, look[0], 0)
      BY <1>3, <2>1, <2>2, <2>3 DEF WakeupSeen
    <2>. QED
      BY <1>3, <2>1, <2>4
  <1>5. ASSUME NEW i \in 1..Len(lk.waitProcs), i - 1 \in T
        PROVE  i \in T
    <2>1. look[i - 1] \in SEEN /\ WakeupSeen(lk, look[i - 1], i - 1) /\ look[i] = WakeupTurn(look[i - 1], lk.waitProcs[i])
      BY <1>2, <1>5
    <2>2. look[i] \in SEEN
      BY <1>1, <1>3, <2>1, TurnTyped
    <2>3. ASSUME NEW s, s = look[i - 1], NEW q, q = lk.waitProcs[i], NEW m, m = proc[q].waitLockMode
          PROVE  WakeupSeen(lk, WakeupTurn(s, q), i)
      <3>1. s \in SEEN /\ WakeupSeen(lk, s, i - 1)
        BY <2>1, <2>3
      <3>2. CASE conflictTab(m) \cap s.aheadRequests = {} /\ LockCheckConflicts(s.lk, q, m)
        <4>1. ASSUME NEW r, r = WokenUp(s.lk, q, m),
                     NEW t, t = [s EXCEPT !.lk = r]
              PROVE  WakeupTurn(s, q) = t /\ WakeupSeen(lk, t, i)
          <5>1. WakeupSeen(lk, t, i)
            BY <2>3, <3>1, <3>2, <4>1, TurnGrants, Zenon
          <5>2. WakeupTurn(s, q) = t
            BY <2>3, <3>2, <4>1 DEF WakeupTurn, WokenUp
          <5>. QED
            BY <5>1, <5>2
        <4>. QED
          BY <4>1
      <3>3. CASE ~(conflictTab(m) \cap s.aheadRequests = {} /\ LockCheckConflicts(s.lk, q, m))
        <4>1. WakeupTurn(s, q) = [s EXCEPT !.aheadRequests = @ \cup {m}]
          BY <2>3, <3>3 DEF WakeupTurn
        <4>. QED
          BY <2>3, <3>1, <3>3, <4>1, TurnKeeps
      <3>. QED
        BY <3>2, <3>3
    <2>4. WakeupSeen(lk, look[i], i)
      BY <2>1, <2>3
    <2>5. i \in 0..Len(lk.waitProcs)
      BY <1>3
    <2>. QED
      BY <2>2, <2>4, <2>5
  <1>6. \A i \in 0..Len(lk.waitProcs) : i \in T
    <2>. HIDE DEF T
    <2>. QED
      BY <1>3, <1>4, <1>5, CountUp
  <1>7. WakeupSeen(lk, look[Len(lk.waitProcs)], Len(lk.waitProcs))
    <2>1. Len(lk.waitProcs) \in 0..Len(lk.waitProcs)
      BY <1>3
    <2>. QED
      BY <1>6, <2>1
  <1>8. Woke(lk, ProcLockWakeup(lk), WaitMode)
    BY <1>2, <1>7 DEF WakeupSeen
  <1>9. ASSUME NEW q \in Proc, Waits(ProcLockWakeup(lk), q)
        PROVE  Blocked(ProcLockWakeup(lk), WaitMode, q)
    <2>1. Waits(lk, q)
      BY <1>8, <1>9 DEF Woke
    <2>2. PICK j \in 1..Len(lk.waitProcs) : lk.waitProcs[j] = q
      BY <1>3, <2>1
    <2>. QED
      BY <1>2, <1>7, <1>9, <2>2 DEF WakeupSeen
  <1>10. QueueKept(lk.waitProcs, ProcLockWakeup(lk))
    BY <1>2, <1>7 DEF WakeupSeen, QueueKept
  <1>. QED
    BY <1>8, <1>9, <1>10

\* Everybody in the queue has somebody in its way.
AllBlocked(lk, w) == \A q \in Proc : Waits(lk, q) => Blocked(lk, w, q)

\* No mode is held and nobody waits when nothing is requested.
LEMMA UnrequestedMeans ==
  ASSUME NEW lk, NEW w, CountsRight(lk, w), Unrequested(lk)
  PROVE  \A x \in Proc : lk.holdMask[x] = {} /\ lk.releaseMask[x] = {} /\ ~Waits(lk, x)
  <1>1. /\ lk \in LOCK
        /\ \A x \in Proc : Waits(lk, x) => w[x] \in LockMode
        /\ \A k \in LockMode : lk.granted[k] = Cardinality(Holders(lk, k))
        /\ \A k \in LockMode : lk.requested[k] = lk.granted[k] + Cardinality(Askers(lk, w, k))
        /\ \A x \in Proc : lk.releaseMask[x] \subseteq lk.holdMask[x]
    BY DEF CountsRight
  <1>2. lk.holdMask \in [Proc -> SUBSET LockMode] /\ lk.granted \in [LockMode -> Nat]
    BY <1>1, LockFacts
  <1>3. ASSUME NEW k \in LockMode
        PROVE  Holders(lk, k) = {} /\ Askers(lk, w, k) = {}
    <2>1. /\ Holders(lk, k) \subseteq Proc /\ Askers(lk, w, k) \subseteq Proc
      BY DEF Holders, Askers
    <2>2. ASSUME NEW a, a = Cardinality(Holders(lk, k)), NEW b, b = Cardinality(Askers(lk, w, k))
          PROVE  a = 0 /\ b = 0
      <3>1. a \in Nat /\ b \in Nat
        BY <2>1, <2>2, ProcsFinite, FS_CardinalityType, FS_Subset
      <3>2. a + b = 0
        BY <1>1, <2>2 DEF Unrequested
      <3>. QED
        BY <3>1, <3>2
    <2>3. IsFiniteSet(Holders(lk, k)) /\ IsFiniteSet(Askers(lk, w, k))
      BY <2>1, ProcsFinite, FS_Subset
    <2>. QED
      BY <2>2, <2>3, FS_EmptySet
  <1>4. ASSUME NEW x \in Proc
        PROVE  lk.holdMask[x] = {} /\ ~Waits(lk, x)
    <2>1. \A k \in LockMode : k \notin lk.holdMask[x]
      BY <1>3 DEF Holders
    <2>2. ~Waits(lk, x)
      BY <1>1, <1>3 DEF Askers
    <2>. QED
      BY <1>2, <2>1, <2>2
  <1>. QED
    BY <1>1, <1>4

\* CleanUpLock looks at the queue unless everybody in it is blocked.
LEMMA CleanUpRight ==
  ASSUME NEW lk, NEW p \in Proc, AlmostRight(lk, WaitMode, p), ~Waits(lk, p), NEW wakeup,
         wakeup \/ AllBlocked(lk, WaitMode), NEW r, r = CleanUpLock(lk, p, wakeup)
  PROVE  Woke(lk, r, WaitMode) /\ AllBlocked(r, WaitMode) /\ QueueKept(lk.waitProcs, r)
  <1>1. CASE Unrequested(lk)
    <2>1. r = FreeLock
      BY <1>1 DEF CleanUpLock
    <2>2. \A x \in Proc : lk.holdMask[x] = {} /\ lk.releaseMask[x] = {} /\ ~Waits(lk, x)
      BY <1>1, UnrequestedMeans DEF AlmostRight
    <2>3. /\ LockRight(FreeLock, WaitMode)
          /\ \A x \in Proc : FreeLock.holdMask[x] = {} /\ FreeLock.releaseMask[x] = {} /\ ~Waits(FreeLock, x)
      BY FreeRight
    <2>4. lk.releaseMask \in [Proc -> SUBSET LockMode] /\ FreeLock.releaseMask = [x \in Proc |-> {}]
      BY LockFacts DEF AlmostRight, CountsRight, FreeLock
    <2>5. FreeLock.releaseMask = lk.releaseMask
      BY <2>2, <2>4
    <2>. QED
      BY <2>1, <2>2, <2>3, <2>5 DEF Woke, AllBlocked, QueueKept
  <1>2. CASE ~Unrequested(lk)
    <2>1. PICK d : d = DropProcLock(lk, p)
      OBVIOUS
    <2>2. LockRight(d, WaitMode) /\ d.releaseMask = lk.releaseMask /\ d.holdMask = lk.holdMask /\ d.waitProcs = lk.waitProcs
      BY <2>1, DropRight
    <2>3. \A x : Waits(d, x) <=> Waits(lk, x)
      BY <2>2 DEF Waits
    <2>4. CASE wakeup
      <3>1. r = ProcLockWakeup(d)
        BY <1>2, <2>1, <2>4 DEF CleanUpLock
      <3>2. /\ Woke(d, r, WaitMode) /\ \A q \in Proc : Waits(r, q) => Blocked(r, WaitMode, q)
            /\ QueueKept(d.waitProcs, r)
        BY <2>2, <3>1, WakeupRight
      <3>. QED
        BY <2>2, <2>3, <3>2 DEF Woke, AllBlocked, QueueKept
    <2>5. CASE ~wakeup
      <3>1. r = d
        BY <1>2, <2>1, <2>5 DEF CleanUpLock
      <3>2. Woke(lk, r, WaitMode)
        BY <2>2, <2>3, <3>1 DEF Woke
      <3>3. AllBlocked(r, WaitMode)
        BY <2>2, <2>3, <2>5, <3>1 DEF AllBlocked, Blocked
      <3>4. QueueKept(lk.waitProcs, r)
        BY <2>2, <3>1 DEF QueueKept
      <3>. QED
        BY <3>2, <3>3, <3>4
    <2>. QED
      BY <2>4, <2>5
  <1>. QED
    BY <1>1, <1>2

\* What a step may do to a LOCK that has its waiters looked at: p gives up the modes
\* and its place in the queue, and others leave the queue with what they waited for.
Settled(lk, r, p, modes) ==
  /\ LockRight(r, WaitMode) /\ AllBlocked(r, WaitMode)
  /\ \A x \in Proc : Waits(r, x) => Waits(lk, x)
  /\ \A x \in Proc : \A k : k \in r.holdMask[x] <=>
       \/ k \in lk.holdMask[x] /\ ~(x = p /\ k \in modes)
       \/ Waits(lk, x) /\ ~Waits(r, x) /\ x # p /\ k = WaitMode[x]
  /\ \A x, h \in Proc : Waits(lk, x) /\ ~Waits(r, x) /\ x # p /\ h # x =>
       r.holdMask[h] \cap conflictTab(WaitMode[x]) = {}

\* The LOCK after p gave up the modes.
FreedAndCleaned(lk, p, modes, marked) ==
  CleanUpLock(Freed(lk, p, modes, marked), p, \E m \in modes : WakeupNeeded(lk, m))

\* Releasing modes settles the LOCK.
LEMMA ReleaseRight ==
  ASSUME NEW lk, LockRight(lk, WaitMode), AllBlocked(lk, WaitMode), NEW p \in Proc, ~Waits(lk, p),
         NEW modes, NEW marked, MayFree(lk, p, modes, marked),
         NEW r, r = FreedAndCleaned(lk, p, modes, marked)
  PROVE  Settled(lk, r, p, modes) /\ r.releaseMask = marked /\ QueueKept(lk.waitProcs, r)
  <1>1. PICK b : b = Freed(lk, p, modes, marked)
    OBVIOUS
  <1>2. /\ AlmostRight(b, WaitMode, p) /\ b.releaseMask = marked /\ b.waitProcs = lk.waitProcs /\ b.waitMask = lk.waitMask
        /\ \A x \in Proc : \A k : k \in b.holdMask[x] <=> k \in lk.holdMask[x] /\ ~(x = p /\ k \in modes)
    <2>1. GaveUp(lk, b, WaitMode, p, modes, marked)
      BY <1>1, UnGrantRight
    <2>. QED
      BY <2>1 DEF GaveUp
  <1>3. \A x : Waits(b, x) <=> Waits(lk, x)
    BY <1>2 DEF Waits
  <1>4. \A x \in Proc : \A k : k \in b.holdMask[x] <=> k \in lk.holdMask[x] /\ ~(x = p /\ k \in modes)
    BY <1>2
  <1>5. ASSUME ~\E m \in modes : WakeupNeeded(lk, m)
        PROVE  AllBlocked(b, WaitMode)
    <2>. SUFFICES ASSUME NEW q \in Proc, Waits(b, q)
                  PROVE  Blocked(b, WaitMode, q)
      BY DEF AllBlocked
    <2>1. Waits(lk, q) /\ Blocked(lk, WaitMode, q) /\ WaitMode[q] \in LockMode
      BY <1>3 DEF AllBlocked, LockRight, CountsRight
    <2>2. CASE \E h \in Proc : h # q /\ lk.holdMask[h] \cap conflictTab(WaitMode[q]) # {}
      <3>1. PICK h \in Proc, k \in conflictTab(WaitMode[q]) : h # q /\ k \in lk.holdMask[h]
        BY <2>2
      <3>2. ~(h = p /\ k \in modes)
        <4>1. SUFFICES ASSUME k \in modes
                       PROVE  FALSE
          OBVIOUS
        <4>2. k \in LockMode
          BY <3>1 DEF conflictTab
        <4>3. WaitMode[q] \in conflictTab(k)
          BY <2>1, <3>1, <4>2, ConflictsSymmetric
        <4>4. WaitMode[q] \in lk.waitMask
          BY <2>1, WaitMaskMeans DEF LockRight
        <4>. QED
          BY <1>5, <4>1, <4>3, <4>4 DEF WakeupNeeded
      <3>3. k \in b.holdMask[h]
        BY <1>4, <3>1, <3>2
      <3>. QED
        BY <3>1, <3>3 DEF Blocked
    <2>3. CASE \E x \in Proc : IsBefore(x, q, lk.waitProcs) /\ WaitMode[x] \in conflictTab(WaitMode[q])
      BY <1>2, <2>3 DEF Blocked
    <2>. QED
      BY <2>1, <2>2, <2>3 DEF Blocked
  <1>6. Woke(b, r, WaitMode) /\ AllBlocked(r, WaitMode) /\ QueueKept(b.waitProcs, r)
    <2>1. r = CleanUpLock(b, p, \E m \in modes : WakeupNeeded(lk, m))
      BY <1>1 DEF FreedAndCleaned
    <2>2. ~Waits(b, p)
      BY <1>3
    <2>. QED
      BY <1>2, <1>5, <2>1, <2>2, CleanUpRight
  <1>7. /\ LockRight(r, WaitMode) /\ r.releaseMask = marked
        /\ \A x \in Proc : Waits(r, x) => Waits(lk, x)
        /\ \A x, h \in Proc : Waits(lk, x) /\ ~Waits(r, x) /\ h # x => r.holdMask[h] \cap conflictTab(WaitMode[x]) = {}
    BY <1>2, <1>3, <1>6 DEF Woke
  <1>8. ASSUME NEW x \in Proc, NEW k
        PROVE  k \in r.holdMask[x] <=> \/ k \in lk.holdMask[x] /\ ~(x = p /\ k \in modes)
                                       \/ Waits(lk, x) /\ ~Waits(r, x) /\ x # p /\ k = WaitMode[x]
    <2>1. k \in r.holdMask[x] <=> k \in b.holdMask[x] \/ (Waits(b, x) /\ ~Waits(r, x) /\ k = WaitMode[x])
      BY <1>6 DEF Woke
    <2>. QED
      BY <1>3, <1>4, <2>1
  <1>. QED
    BY <1>2, <1>6, <1>7, <1>8 DEF Settled

\* LockRelease of one mode.
LEMMA ReleaseModeRight ==
  ASSUME NEW lk, LockRight(lk, WaitMode), AllBlocked(lk, WaitMode), NEW p \in Proc, ~Waits(lk, p),
         NEW m, m \in lk.holdMask[p], m \notin lk.releaseMask[p], NEW r, r = ReleaseMode(lk, p, m)
  PROVE  Settled(lk, r, p, {m}) /\ r.releaseMask = lk.releaseMask /\ QueueKept(lk.waitProcs, r)
  <1>1. /\ lk \in LOCK /\ lk.releaseMask \in [Proc -> SUBSET LockMode]
        /\ \A x \in Proc : lk.releaseMask[x] \subseteq lk.holdMask[x]
    BY LockFacts DEF LockRight, CountsRight
  <1>2. UnGrantLock(lk, p, {m}) = Freed(lk, p, {m}, lk.releaseMask)
    BY <1>1 DEF UnGrantLock, Freed, LOCK
  <1>3. WakeupNeeded(lk, m) <=> \E m2 \in {m} : WakeupNeeded(lk, m2)
    OBVIOUS
  <1>4. r = FreedAndCleaned(lk, p, {m}, lk.releaseMask)
    BY <1>2, <1>3 DEF ReleaseMode, FreedAndCleaned, CleanUpLock
  <1>5. MayFree(lk, p, {m}, lk.releaseMask)
    BY <1>1 DEF MayFree
  <1>. QED
    BY <1>4, <1>5, ReleaseRight

\* A waiter gives up; w is who waits in which mode, and that is what proc says but
\* perhaps for p.
LEMMA GiveUpRight ==
  ASSUME NEW lk, NEW w, LockRight(lk, w), NEW p \in Proc, Waits(lk, p), NEW m, m = w[p],
         \A q \in Proc : q # p /\ Waits(lk, q) => w[q] = WaitMode[q], NEW r, r = WithoutWaiter(lk, p, m)
  PROVE  Settled(lk, r, p, {}) /\ r.releaseMask = lk.releaseMask /\ ~Waits(r, p) /\ QueueKept(lk.waitProcs, r)
  <1>1. PICK left : left = lk.requested[m] - 1
    OBVIOUS
  <1>2. PICK b : b = Left(lk, p, m, left)
    OBVIOUS
  <1>3. /\ AlmostRight(b, w, p) /\ b.releaseMask = lk.releaseMask /\ b.holdMask = lk.holdMask
        /\ \A x \in Proc : Waits(b, x) <=> Waits(lk, x) /\ x # p
    BY <1>1, <1>2, WaiterLeaves
  <1>4. r = CleanUpLock(b, p, TRUE)
    BY <1>1, <1>2 DEF WithoutWaiter, Left
  <1>5. AlmostRight(b, WaitMode, p)
    <2>1. CountsRight(b, w) /\ \A q \in Proc : Waits(b, q) => w[q] = WaitMode[q]
      BY <1>3 DEF AlmostRight
    <2>2. \A k \in LockMode : Askers(b, w, k) = Askers(b, WaitMode, k)
      BY <2>1 DEF Askers
    <2>3. CountsRight(b, WaitMode)
      BY <2>1, <2>2 DEF CountsRight
    <2>. QED
      BY <1>3, <2>3 DEF AlmostRight
  <1>6. Woke(b, r, WaitMode) /\ AllBlocked(r, WaitMode) /\ QueueKept(b.waitProcs, r)
    BY <1>3, <1>4, <1>5, CleanUpRight
  <1>7. /\ LockRight(r, WaitMode) /\ r.releaseMask = lk.releaseMask
        /\ \A x \in Proc : Waits(r, x) => Waits(lk, x) /\ x # p
        /\ \A x, h \in Proc : Waits(lk, x) /\ ~Waits(r, x) /\ x # p /\ h # x =>
             r.holdMask[h] \cap conflictTab(WaitMode[x]) = {}
    BY <1>3, <1>6 DEF Woke
  <1>8. ASSUME NEW x \in Proc, NEW k
        PROVE  k \in r.holdMask[x] <=> \/ k \in lk.holdMask[x] /\ ~(x = p /\ k \in {})
                                       \/ Waits(lk, x) /\ ~Waits(r, x) /\ x # p /\ k = WaitMode[x]
    <2>1. k \in r.holdMask[x] <=> k \in b.holdMask[x] \/ (Waits(b, x) /\ ~Waits(r, x) /\ k = WaitMode[x])
      BY <1>6 DEF Woke
    <2>. QED
      BY <1>3, <2>1
  <1>9. QueueKept(lk.waitProcs, r)
    <2>1. lk \in LOCK /\ Distinct(lk.waitProcs) /\ lk.waitProcs \in Seq(Proc)
      BY LockFacts DEF LockRight, CountsRight
    <2>2. b.waitProcs = Without(lk.waitProcs, p)
      BY <1>2, <2>1 DEF Left, LOCK
    <2>3. \A x, y : x # p /\ y # p /\ IsBefore(x, y, lk.waitProcs) => IsBefore(x, y, b.waitProcs)
      BY <2>1, <2>2, WithoutRight
    <2>. QED
      BY <1>6, <1>7, <2>3 DEF QueueKept
  <1>. QED
    BY <1>6, <1>7, <1>8, <1>9 DEF Settled

\* What is held and who waits is the same.
KeptHolders(lk, s) == s \in LOCK /\ s.granted = lk.granted /\ s.holdMask = lk.holdMask /\ s.waitProcs = lk.waitProcs /\ s.waitMask = lk.waitMask

\* A request leaves what is held alone.
LEMMA RequestKeeps ==
  ASSUME NEW lk \in LOCK, NEW p \in Proc, NEW m \in LockMode, NEW s, s = SetupLockInTable(lk, p, m)
  PROVE  KeptHolders(lk, s)
  <1>1. s \in LOCK
    BY RequestFacts
  <1>2. s.granted = lk.granted /\ s.holdMask = lk.holdMask /\ s.waitProcs = lk.waitProcs /\ s.waitMask = lk.waitMask
    BY DEF SetupLockInTable, LOCK
  <1>. QED
    BY <1>1, <1>2 DEF KeptHolders

\* A LOCK that p gained the modes of, and that is otherwise as it was.
Gained(lk, r, p, modes) ==
  /\ LockRight(r, WaitMode) /\ AllBlocked(r, WaitMode)
  /\ r.waitProcs = lk.waitProcs /\ r.releaseMask = lk.releaseMask
  /\ \A x \in Proc : \A k : k \in r.holdMask[x] <=> k \in lk.holdMask[x] \/ (x = p /\ k \in modes)

\* Whoever is blocked stays so when somebody gets more locks.
LEMMA GainRight ==
  ASSUME NEW lk, LockRight(lk, WaitMode), AllBlocked(lk, WaitMode), NEW p \in Proc, NEW modes \in SUBSET LockMode,
         modes \cap lk.holdMask[p] = {}, Waits(lk, p) => WaitMode[p] \notin modes,
         NEW r, r = SetupAndGrant(lk, p, modes)
  PROVE  Gained(lk, r, p, modes)
  <1>1. /\ LockRight(r, WaitMode) /\ r.waitProcs = lk.waitProcs /\ r.releaseMask = lk.releaseMask
        /\ \A q \in Proc : r.holdMask[q] = IF q = p THEN lk.holdMask[q] \cup modes ELSE lk.holdMask[q]
    <2>1. Extended(lk, r, WaitMode, p, modes)
      BY SetupAndGrantRight
    <2>. QED
      BY <2>1 DEF Extended
  <1>2. \A x \in Proc : \A k : k \in r.holdMask[x] <=> k \in lk.holdMask[x] \/ (x = p /\ k \in modes)
    <2>. SUFFICES ASSUME NEW x \in Proc, NEW k
                  PROVE  k \in r.holdMask[x] <=> k \in lk.holdMask[x] \/ (x = p /\ k \in modes)
      OBVIOUS
    <2>1. CASE x = p
      BY <1>1, <2>1
    <2>2. CASE x # p
      BY <1>1, <2>2
    <2>. QED
      BY <2>1, <2>2
  <1>3. AllBlocked(r, WaitMode)
    <2>. SUFFICES ASSUME NEW q \in Proc, Waits(r, q)
                  PROVE  Blocked(r, WaitMode, q)
      BY DEF AllBlocked
    <2>1. Blocked(lk, WaitMode, q)
      BY <1>1 DEF AllBlocked, Waits
    <2>2. \A h \in Proc : lk.holdMask[h] \subseteq r.holdMask[h]
      BY <1>2
    <2>. QED
      BY <1>1, <2>1, <2>2 DEF Blocked
  <1>. QED
    BY <1>1, <1>2, <1>3 DEF Gained

\* A request that nobody is in the way of is granted.
LEMMA GrantRight ==
  ASSUME NEW lk, LockRight(lk, WaitMode), AllBlocked(lk, WaitMode), NEW p \in Proc, NEW m \in LockMode, ~Waits(lk, p),
         m \notin lk.holdMask[p], NEW s, s = SetupLockInTable(lk, p, m), LockCheckConflicts(s, p, m),
         NEW r, r = GrantLock(s, p, m)
  PROVE  /\ Gained(lk, r, p, {m})
         /\ \A q \in Proc : q # p => lk.holdMask[q] \cap conflictTab(m) = {}
  <1>1. lk \in LOCK /\ \A k \in LockMode : lk.granted[k] = Cardinality(Holders(lk, k))
    BY DEF LockRight, CountsRight
  <1>2. r = SetupAndGrant(lk, p, {m})
    BY <1>1, SetupThenGrant
  <1>3. Gained(lk, r, p, {m})
    <2>1. PICK modes \in SUBSET LockMode : modes = {m}
      OBVIOUS
    <2>2. modes \cap lk.holdMask[p] = {} /\ r = SetupAndGrant(lk, p, modes)
      BY <1>2, <2>1
    <2>3. Gained(lk, r, p, modes)
      BY <2>2, GainRight
    <2>. QED
      BY <2>1, <2>3
  <1>4. s \in LOCK /\ s.granted = lk.granted /\ s.holdMask = lk.holdMask
    BY <1>1, RequestKeeps DEF KeptHolders
  <1>5. \A k \in LockMode : s.granted[k] = Cardinality(Holders(s, k))
    BY <1>1, <1>4 DEF Holders
  <1>6. \A q \in Proc : q # p => s.holdMask[q] \cap conflictTab(m) = {}
    BY <1>4, <1>5, CheckMeans
  <1>. QED
    BY <1>3, <1>4, <1>6

\* Why p does not get the lock in front of place i of the queue.
InTheWay(lk, p, m, i) ==
  \/ ~LockCheckConflicts(SetupLockInTable(lk, p, m), p, m)
  \/ \E j \in 1..(i - 1) : WaitMode[lk.waitProcs[j]] \in conflictTab(m)

\* Nobody is overtaken by somebody else but the newcomer, who has somebody in its way.
LEMMA QueueRight ==
  ASSUME NEW lk, LockRight(lk, WaitMode), AllBlocked(lk, WaitMode), NEW p \in Proc, NEW m \in LockMode, ~Waits(lk, p),
         m \notin lk.holdMask[p], NEW i \in 1..(Len(lk.waitProcs) + 1), InTheWay(lk, p, m, i),
         NEW w2, w2[p] = m, \A q \in Proc : q # p => w2[q] = WaitMode[q],
         NEW r, r = QueuedAt(lk, p, m, i)
  PROVE  AllBlocked(r, w2)
  <1>1. \A q \in Proc : Waits(lk, q) => q # p /\ w2[q] = WaitMode[q]
    OBVIOUS
  <1>2. /\ LockRight(r, w2) /\ r.waitProcs = InsertAt(lk.waitProcs, i, p) /\ r.holdMask = lk.holdMask
        /\ \A q \in Proc : Waits(r, q) <=> Waits(lk, q) \/ q = p
    BY <1>1, RequestQueued
  <1>3. lk \in LOCK /\ lk.waitProcs \in Seq(Proc) /\ Distinct(lk.waitProcs) /\ p \notin ToSet(lk.waitProcs)
    BY LockFacts DEF LockRight, CountsRight, Waits
  <1>4. /\ \A x, y : IsBefore(x, y, lk.waitProcs) => IsBefore(x, y, r.waitProcs)
        /\ \A j \in 1..(i - 1) : IsBefore(lk.waitProcs[j], p, r.waitProcs)
    BY <1>2, <1>3, InsertRight
  <1>5. \A x, y : IsBefore(x, y, lk.waitProcs) => Waits(lk, x)
    BY <1>3, ListFacts DEF IsBefore, Waits
  <1>6. ASSUME NEW q \in Proc, Waits(lk, q)
        PROVE  Blocked(r, w2, q)
    <2>1. Blocked(lk, WaitMode, q) /\ w2[q] = WaitMode[q]
      BY <1>1, <1>6 DEF AllBlocked
    <2>2. CASE \E h \in Proc : h # q /\ lk.holdMask[h] \cap conflictTab(WaitMode[q]) # {}
      BY <1>2, <2>1, <2>2 DEF Blocked
    <2>3. CASE \E x \in Proc : IsBefore(x, q, lk.waitProcs) /\ WaitMode[x] \in conflictTab(WaitMode[q])
      <3>1. PICK x \in Proc : IsBefore(x, q, lk.waitProcs) /\ WaitMode[x] \in conflictTab(WaitMode[q])
        BY <2>3
      <3>2. w2[x] = WaitMode[x] /\ IsBefore(x, q, r.waitProcs)
        BY <1>1, <1>4, <1>5, <3>1
      <3>. QED
        BY <2>1, <3>1, <3>2 DEF Blocked
    <2>. QED
      BY <2>1, <2>2, <2>3 DEF Blocked
  <1>7. Blocked(r, w2, p)
    <2>1. CASE ~LockCheckConflicts(SetupLockInTable(lk, p, m), p, m)
      <3>1. PICK s : s = SetupLockInTable(lk, p, m)
        OBVIOUS
      <3>2. s \in LOCK /\ s.granted = lk.granted /\ s.holdMask = lk.holdMask
        BY <1>3, <3>1, RequestKeeps DEF KeptHolders
      <3>3. \A k \in LockMode : s.granted[k] = Cardinality(Holders(s, k))
        BY <3>2 DEF LockRight, CountsRight, Holders
      <3>4. ~LockCheckConflicts(s, p, m)
        BY <2>1, <3>1
      <3>5. \E h \in Proc : h # p /\ s.holdMask[h] \cap conflictTab(m) # {}
        BY <3>2, <3>3, <3>4, CheckMeans
      <3>. QED
        BY <1>2, <3>2, <3>5 DEF Blocked
    <2>2. CASE \E j \in 1..(i - 1) : WaitMode[lk.waitProcs[j]] \in conflictTab(m)
      <3>1. PICK j \in 1..(i - 1) : WaitMode[lk.waitProcs[j]] \in conflictTab(m)
        BY <2>2
      <3>2. lk.waitProcs[j] \in Proc /\ Waits(lk, lk.waitProcs[j])
        BY <1>3, ListFacts DEF Waits
      <3>. QED
        BY <1>1, <1>4, <3>1, <3>2 DEF Blocked
    <2>. QED
      BY <2>1, <2>2 DEF InTheWay
  <1>. QED
    BY <1>2, <1>6, <1>7 DEF AllBlocked

\* A queue rearranged has the waiters looked at.
LEMMA RearrangeRight ==
  ASSUME NEW lk, LockRight(lk, WaitMode), NEW queue \in Seq(Proc), Distinct(queue), ToSet(queue) = ToSet(lk.waitProcs),
         NEW r, r = ProcLockWakeup([lk EXCEPT !.waitProcs = queue])
  PROVE  Settled(lk, r, 0, {}) /\ r.releaseMask = lk.releaseMask /\ QueueKept(queue, r)
  <1>1. PICK b : b = [lk EXCEPT !.waitProcs = queue]
    OBVIOUS
  <1>2. /\ b \in LOCK /\ b.procLocks = lk.procLocks /\ b.holdMask = lk.holdMask /\ b.releaseMask = lk.releaseMask
        /\ b.requested = lk.requested /\ b.granted = lk.granted /\ b.waitMask = lk.waitMask /\ b.waitProcs = queue
    BY <1>1 DEF LockRight, CountsRight, LOCK
  <1>3. \A x : Waits(b, x) <=> Waits(lk, x)
    BY <1>2 DEF Waits
  <1>4. \A k : Holders(b, k) = Holders(lk, k) /\ Askers(b, WaitMode, k) = Askers(lk, WaitMode, k)
    BY <1>2, <1>3 DEF Holders, Askers
  <1>5. LockRight(b, WaitMode)
    BY <1>2, <1>3, <1>4 DEF LockRight, CountsRight
  <1>6. /\ Woke(b, r, WaitMode) /\ \A q \in Proc : Waits(r, q) => Blocked(r, WaitMode, q)
        /\ QueueKept(b.waitProcs, r)
    BY <1>1, <1>5, WakeupRight
  <1>7. 0 \notin Proc
    BY DEF Proc
  <1>. QED
    BY <1>2, <1>3, <1>6, <1>7 DEF Woke, Settled, AllBlocked

\* Then nobody is before somebody else who was not before.
LEMMA OrderKept ==
  ASSUME NEW queue \in Seq(Proc), Distinct(queue), NEW r, r.waitProcs \in Seq(Proc), Distinct(r.waitProcs),
         QueueKept(queue, r), NEW x \in Proc, NEW y \in Proc, x \in ToSet(queue), y \in ToSet(queue),
         IsBefore(x, y, r.waitProcs)
  PROVE  IsBefore(x, y, queue)
  <1>1. Waits(r, x) /\ Waits(r, y) /\ x # y /\ ~IsBefore(y, x, r.waitProcs)
    BY OrderFacts DEF Waits
  <1>2. ~IsBefore(y, x, queue)
    BY <1>1 DEF QueueKept
  <1>. QED
    BY <1>1, <1>2, OrderFacts

-----------------------------------------------------------------------------
(* Rearranging the queues.                                                 *)

\* A number of 1..n that none of the others exceeds.
LEMMA Largest ==
  ASSUME NEW n \in Nat, NEW S, S \subseteq 1..n, S # {}
  PROVE  Max(S) \in S /\ \A j \in S : j <= Max(S)
  <1>. DEFINE R == {n - i : i \in S}
  <1>0. \A i \in S : i \in 1..n /\ n - i \in Nat
    OBVIOUS
  <1>1. R \in SUBSET Nat /\ R # {}
    BY <1>0
  <1>2. PICK x \in R : \A y \in R : x <= y
    <2>. HIDE DEF R
    <2>. QED
      BY <1>1, Smallest
  <1>3. PICK i \in S : x = n - i
    BY <1>2
  <1>4. \A j \in S : n - j \in R /\ j \in Nat
    BY <1>0
  <1>. HIDE DEF R
  <1>5. \A j \in S : n - i <= n - j
    BY <1>2, <1>3, <1>4
  <1>6. \A j \in S : i >= j
    BY <1>4, <1>5
  <1>7. Max(S) \in S /\ \A j \in S : Max(S) >= j
    BY <1>3, <1>6 DEF Max
  <1>. QED
    BY <1>4, <1>7

\* The least number of a set of them.
LEMMA LeastIn ==
  ASSUME NEW S \in SUBSET Nat, S # {}
  PROVE  Min(S) \in S
  <1>1. PICK x \in S : \A y \in S : x <= y
    BY Smallest
  <1>. QED
    BY <1>1 DEF Min

\* A list with p put in front.
LEMMA PrependRight ==
  ASSUME NEW q \in Seq(Proc), Distinct(q), NEW p \in Proc, p \notin ToSet(q)
  PROVE  /\ <<p>> \o q \in Seq(Proc) /\ Distinct(<<p>> \o q)
         /\ \A x : x \in ToSet(<<p>> \o q) <=> x \in ToSet(q) \/ x = p
         /\ \A x, y : x # p /\ IsBefore(x, y, <<p>> \o q) => IsBefore(x, y, q)
  <1>1. PICK r : r = <<p>> \o q
    OBVIOUS
  <1>2. PICK o : o = <<p>>
    OBVIOUS
  <1>3. o \in Seq(Proc) /\ Len(o) = 1 /\ o[1] = p
    BY <1>2
  <1>4. r = o \o q
    BY <1>1, <1>2
  <1>5. Len(q) \in Nat /\ DOMAIN q = 1..Len(q)
    BY ListFacts
  <1>6. r \in Seq(Proc) /\ Len(r) = 1 + Len(q) /\ \A j \in 1..(1 + Len(q)) : r[j] = IF j <= 1 THEN o[j] ELSE q[j - 1]
    BY <1>3, <1>4, ConcatFacts
  <1>7. /\ DOMAIN r = 1..(1 + Len(q)) /\ r[1] = p
        /\ \A j \in 1..(1 + Len(q)) : j # 1 => j - 1 \in 1..Len(q) /\ r[j] = q[j - 1]
    <2>1. DOMAIN r = 1..Len(r)
      BY <1>6, ListFacts
    <2>. QED
      BY <1>3, <1>5, <1>6, <2>1
  <1>8. \A x : x \in ToSet(q) <=> \E i \in 1..Len(q) : q[i] = x
    BY ListFacts
  <1>9. \A x : x \in ToSet(r) <=> \E i \in 1..(1 + Len(q)) : r[i] = x
    BY <1>6, ListFacts
  <1>10. ASSUME NEW x
         PROVE  x \in ToSet(r) <=> x \in ToSet(q) \/ x = p
    <2>1. ASSUME x \in ToSet(r), x # p
          PROVE  x \in ToSet(q)
      <3>1. PICK i \in 1..(1 + Len(q)) : r[i] = x
        BY <1>9, <2>1
      <3>. QED
        BY <1>7, <1>8, <2>1, <3>1
    <2>2. ASSUME x \in ToSet(q)
          PROVE  x \in ToSet(r)
      <3>1. PICK i \in 1..Len(q) : q[i] = x
        BY <1>8, <2>2
      <3>2. i + 1 \in 1..(1 + Len(q)) /\ i + 1 # 1 /\ (i + 1) - 1 = i
        BY <1>5
      <3>. QED
        BY <1>7, <1>9, <3>1, <3>2
    <2>3. 1 \in 1..(1 + Len(q))
      BY <1>5
    <2>. QED
      BY <1>7, <1>9, <2>1, <2>2, <2>3
  <1>11. Distinct(r)
    <2>. SUFFICES ASSUME NEW i \in 1..(1 + Len(q)), NEW j \in 1..(1 + Len(q)), r[i] = r[j]
                  PROVE  i = j
      BY <1>7 DEF Distinct
    <2>1. \A k \in 1..(1 + Len(q)) : k # 1 => r[k] # p
      BY <1>7, <1>8
    <2>2. CASE i = 1 \/ j = 1
      BY <1>7, <2>1, <2>2
    <2>3. CASE i # 1 /\ j # 1
      <3>1. i - 1 = j - 1
        BY <1>5, <1>7, <2>3 DEF Distinct
      <3>. QED
        BY <1>5, <3>1
    <2>. QED
      BY <2>2, <2>3
  <1>12. ASSUME NEW x, NEW y, x # p, IsBefore(x, y, r)
         PROVE  IsBefore(x, y, q)
    <2>1. PICK i \in 1..(1 + Len(q)), j \in 1..(1 + Len(q)) : i < j /\ r[i] = x /\ r[j] = y
      BY <1>7, <1>12 DEF IsBefore
    <2>2. i # 1 /\ j # 1
      BY <1>7, <1>12, <2>1
    <2>3. /\ i - 1 \in 1..Len(q) /\ j - 1 \in 1..Len(q) /\ i - 1 < j - 1
          /\ q[i - 1] = x /\ q[j - 1] = y
      BY <1>5, <1>7, <2>1, <2>2
    <2>. QED
      BY <1>5, <2>3 DEF IsBefore
  <1>. QED
    BY <1>1, <1>6, <1>10, <1>11, <1>12

\* Only the waiter of a constraint comes before anybody it was behind in the queue.
MayOvertake(x, constraints) == \E e \in ToSet(constraints) : e.waiter = x
Overtaken(x, y, order, queue) == IsBefore(x, y, order) /\ IsBefore(y, x, queue)
InOrder(order, queue, constraints) ==
  \A x, y \in Proc : Overtaken(x, y, order, queue) => MayOvertake(x, constraints)

\* What TopoSort has placed, and who is still left.
SORTED(queue, constraints) ==
  {s \in [ordering : Seq(Proc), left : SUBSET Proc] :
     /\ Distinct(s.ordering) /\ ToSet(s.ordering) \subseteq ToSet(queue)
     /\ s.left \subseteq ToSet(queue) /\ s.left \cap ToSet(s.ordering) = {}
     /\ InOrder(s.ordering, queue, constraints)
     /\ \A x \in s.left, y \in ToSet(s.ordering) : IsBefore(y, x, queue) => MayOvertake(x, constraints)}

\* Somebody who is left is placed, or nobody.
LEMMA PlaceLastRight ==
  ASSUME NEW queue \in Seq(Proc), Distinct(queue), NEW constraints, NEW s \in SORTED(queue, constraints)
  PROVE  PlaceLast(s, queue, constraints) \in SORTED(queue, constraints)
  <1>. DEFINE candidates == {i \in DOMAIN queue :
                /\ queue[i] \in s.left
                /\ \A e \in ToSet(constraints) : e.waiter = queue[i] => e.blocker \notin s.left}
  <1>1. PICK c : c = candidates
    OBVIOUS
  <1>2. PICK p : p = queue[Max(c)]
    OBVIOUS
  <1>3. PlaceLast(s, queue, constraints) =
          IF c = {} THEN s ELSE [ordering |-> <<p>> \o s.ordering, left |-> s.left \ {p}]
    BY <1>1, <1>2 DEF PlaceLast
  <1>4. CASE c = {}
    BY <1>3, <1>4
  <1>5. CASE c # {}
    <2>1. Len(queue) \in Nat /\ DOMAIN queue = 1..Len(queue)
      BY ListFacts
    <2>2. c \subseteq 1..Len(queue) /\ \A i \in c : queue[i] \in s.left
      BY <1>1, <2>1
    <2>13. \A i \in 1..Len(queue) : i \notin c /\ queue[i] \in s.left => MayOvertake(queue[i], constraints)
      BY <1>1, <2>1 DEF MayOvertake
    <2>. HIDE DEF candidates
    <2>3. Max(c) \in c /\ \A i \in c : i <= Max(c)
      BY <1>5, <2>1, <2>2, Largest
    <2>4. p \in s.left
      BY <1>2, <2>2, <2>3
    <2>5. /\ s.ordering \in Seq(Proc) /\ Distinct(s.ordering) /\ s.left \subseteq Proc /\ p \in Proc
          /\ p \notin ToSet(s.ordering) /\ p \in ToSet(queue)
      BY <2>4 DEF SORTED
    <2>6. /\ <<p>> \o s.ordering \in Seq(Proc) /\ Distinct(<<p>> \o s.ordering)
          /\ \A x : x \in ToSet(<<p>> \o s.ordering) <=> x \in ToSet(s.ordering) \/ x = p
          /\ \A x, y : x # p /\ IsBefore(x, y, <<p>> \o s.ordering) => IsBefore(x, y, s.ordering)
      BY <2>5, PrependRight
    <2>7. PICK o : o = <<p>> \o s.ordering
      OBVIOUS
    <2>8. PICK r : r = [ordering |-> o, left |-> s.left \ {p}]
      OBVIOUS
    <2>9. r \in [ordering : Seq(Proc), left : SUBSET Proc] /\ r.ordering = o /\ r.left = s.left \ {p}
      BY <2>5, <2>6, <2>7, <2>8
    <2>10. ToSet(s.ordering) \subseteq ToSet(queue) /\ s.left \subseteq ToSet(queue) /\ s.left \cap ToSet(s.ordering) = {}
      BY DEF SORTED
    <2>11. ToSet(r.ordering) \subseteq ToSet(queue) /\ r.left \subseteq ToSet(queue) /\ r.left \cap ToSet(r.ordering) = {}
      BY <2>5, <2>6, <2>7, <2>9, <2>10
    <2>14. ASSUME NEW x \in s.left, IsBefore(p, x, queue)
           PROVE  MayOvertake(x, constraints)
      <3>1. PICK i \in 1..Len(queue), j \in 1..Len(queue) : i < j /\ queue[i] = p /\ queue[j] = x
        BY <2>1, <2>14 DEF IsBefore
      <3>2. Max(c) \in 1..Len(queue) /\ queue[Max(c)] = p
        BY <1>2, <2>2, <2>3
      <3>3. i = Max(c)
        BY <2>1, <3>1, <3>2 DEF Distinct
      <3>4. j \notin c
        BY <2>1, <2>3, <3>1, <3>2, <3>3
      <3>. QED
        BY <2>13, <3>1, <3>4
    <2>15. \A x \in s.left, y \in ToSet(s.ordering) : IsBefore(y, x, queue) => MayOvertake(x, constraints)
      BY DEF SORTED
    <2>16. InOrder(r.ordering, queue, constraints)
      <3>. SUFFICES ASSUME NEW x \in Proc, NEW y \in Proc, IsBefore(x, y, o), IsBefore(y, x, queue)
                    PROVE  MayOvertake(x, constraints)
        BY <2>9 DEF InOrder, Overtaken
      <3>1. CASE x = p
        <4>1. o \in Seq(Proc) /\ Distinct(o) /\ y \in ToSet(o) /\ y # p
          BY <2>6, <2>7, <3>1, OrderFacts
        <4>2. y \in ToSet(s.ordering)
          BY <2>6, <2>7, <4>1
        <4>. QED
          BY <2>4, <2>15, <3>1, <4>2
      <3>2. CASE x # p
        <4>1. IsBefore(x, y, s.ordering) /\ InOrder(s.ordering, queue, constraints)
          BY <2>6, <2>7, <3>2 DEF SORTED
        <4>. QED
          BY <4>1 DEF InOrder, Overtaken
      <3>. QED
        BY <3>1, <3>2
    <2>17. \A x \in r.left, y \in ToSet(r.ordering) : IsBefore(y, x, queue) => MayOvertake(x, constraints)
      BY <2>6, <2>7, <2>9, <2>14, <2>15
    <2>12. r \in SORTED(queue, constraints)
      BY <2>6, <2>7, <2>9, <2>11, <2>16, <2>17 DEF SORTED
    <2>. QED
      BY <1>3, <1>5, <2>7, <2>8, <2>12
  <1>. QED
    BY <1>4, <1>5

\* Some of the waiters in another order.
PartOf(order, queue) == order \in Seq(Proc) /\ Distinct(order) /\ ToSet(order) \subseteq ToSet(queue)

\* What TopoSort has placed after each of its turns.
IsPlaced(f, l, constraints) ==
  LET queue == lock[l].waitProcs IN
  /\ f \in [0..Len(queue) -> SORTED(queue, constraints)] /\ f[0] = [ordering |-> <<>>, left |-> ToSet(queue)]
  /\ \A i \in 1..Len(queue) : f[i] = PlaceLast(f[i - 1], queue, constraints)
  /\ f[Len(queue)].ordering = TopoSort(l, constraints)

\* TopoSort, turn by turn.
LEMMA TopoSortLoop ==
  ASSUME NEW l \in Lock, lock[l].waitProcs \in Seq(Proc), Distinct(lock[l].waitProcs), NEW constraints
  PROVE  \E f : IsPlaced(f, l, constraints)
  <1>1. PICK queue : queue = lock[l].waitProcs
    OBVIOUS
  <1>. DEFINE n == Len(queue)
              a == [ordering |-> <<>>, left |-> ToSet(queue)]
              S == SORTED(queue, constraints)
              sorted[k \in 0..n] == IF k = 0 THEN a ELSE PlaceLast(sorted[k - 1], queue, constraints)
              G == [k \in 1..n |-> [s \in S |-> PlaceLast(s, queue, constraints)]]
  <1>2. TopoSort(l, constraints) = sorted[n].ordering
    BY <1>1 DEF TopoSort
  <1>3. queue \in Seq(Proc) /\ Distinct(queue) /\ n \in Nat /\ ToSet(queue) \subseteq Proc
    BY <1>1, ListFacts
  <1>4. a \in S
    <2>1. <<>> \in Seq(Proc) /\ Distinct(<<>>) /\ ToSet(<<>>) = {}
      BY DEF Distinct, ToSet
    <2>2. InOrder(<<>>, queue, constraints)
      BY DEF InOrder, Overtaken, IsBefore
    <2>. QED
      BY <1>3, <2>1, <2>2 DEF SORTED
  <1>5. \A s \in S : PlaceLast(s, queue, constraints) \in S
    BY <1>3, PlaceLastRight
  <1>6. IsLoop(G, n, S)
    <2>1. [s \in S |-> PlaceLast(s, queue, constraints)] \in [S -> S]
      BY <1>5
    <2>. QED
      BY <2>1 DEF IsLoop
  <1>7. \A i \in 1..n : \A s \in S : G[i][s] = PlaceLast(s, queue, constraints)
    OBVIOUS
  <1>. HIDE DEF G, n, a, S
  <1>8. PICK f \in [0..n -> S] : f[0] = a /\ \A i \in 1..n : f[i] = G[i][f[i - 1]]
    <2>1. PICK f : IsRun(f, G, n, a, S)
      BY <1>3, <1>4, <1>6, Loop, Zenon
    <2>. QED
      BY <2>1 DEF IsRun
  <1>9. \A i \in 0..n : i # 0 => i \in 1..n /\ i - 1 \in 0..n
    BY <1>3
  <1>10. \A i \in 0..n : f[i] = IF i = 0 THEN a ELSE PlaceLast(f[i - 1], queue, constraints)
    BY <1>7, <1>8, <1>9
  <1>11. f = [i \in 0..n |-> IF i = 0 THEN a ELSE PlaceLast(f[i - 1], queue, constraints)]
    BY <1>8, <1>10
  <1>12. sorted = [i \in 0..n |-> IF i = 0 THEN a ELSE PlaceLast(sorted[i - 1], queue, constraints)]
    BY <1>11
  <1>. HIDE DEF sorted
  <1>13. sorted[0] = a /\ \A i \in 1..n : sorted[i] = PlaceLast(sorted[i - 1], queue, constraints)
    <2>1. 0 \in 0..n /\ \A i \in 1..n : i \in 0..n /\ i # 0
      BY <1>3
    <2>2. \A i \in 0..n : sorted[i] = IF i = 0 THEN a ELSE PlaceLast(sorted[i - 1], queue, constraints)
      BY <1>12
    <2>. QED
      BY <2>1, <2>2
  <1>. DEFINE T == {i \in 0..n : sorted[i] \in S}
  <1>14. 0 \in T
    BY <1>3, <1>4, <1>13
  <1>15. \A i \in 1..n : i - 1 \in T => i \in T
    <2>1. \A i \in 1..n : i \in 0..n
      BY <1>3
    <2>. QED
      BY <1>5, <1>13, <2>1
  <1>16. \A i \in 0..n : i \in T
    <2>. HIDE DEF T
    <2>. QED
      BY <1>3, <1>14, <1>15, CountUp
  <1>17. PICK g : g = sorted
    OBVIOUS
  <1>18. g \in [0..n -> S]
    <2>1. \A i \in 0..n : g[i] \in S
      BY <1>16, <1>17
    <2>2. g = [i \in 0..n |-> g[i]]
      BY <1>12, <1>17
    <2>. QED
      BY <2>1, <2>2
  <1>19. g[0] = a /\ g[n].ordering = TopoSort(l, constraints)
    BY <1>2, <1>13, <1>17
  <1>20. \A i \in 1..n : g[i] = PlaceLast(g[i - 1], queue, constraints)
    BY <1>13, <1>17
  <1>21. IsPlaced(g, l, constraints)
    BY <1>1, <1>18, <1>19, <1>20 DEF IsPlaced, n, S, a
  <1>. QED
    BY <1>21

\* TopoSort orders some of the waiters.
LEMMA TopoSortPart ==
  ASSUME NEW l \in Lock, lock[l].waitProcs \in Seq(Proc), Distinct(lock[l].waitProcs), NEW constraints
  PROVE  PartOf(TopoSort(l, constraints), lock[l].waitProcs) /\ InOrder(TopoSort(l, constraints), lock[l].waitProcs, constraints)
  <1>1. PICK f : IsPlaced(f, l, constraints)
    BY TopoSortLoop
  <1>2. PICK n \in Nat : n = Len(lock[l].waitProcs)
    BY ListFacts
  <1>3. f[n] \in SORTED(lock[l].waitProcs, constraints) /\ f[n].ordering = TopoSort(l, constraints)
    BY <1>1, <1>2 DEF IsPlaced
  <1>. QED
    BY <1>3 DEF SORTED, PartOf

\* The first k of a queue.
Leading(queue, k) == {queue[j] : j \in 1..k}

\* Without constraints the last of those who are left is placed.
LEMMA PlaceLastFree ==
  ASSUME NEW queue \in Seq(Proc), Distinct(queue), NEW k \in 1..Len(queue),
         NEW s, s.ordering \in Seq(Proc), Len(s.ordering) = Len(queue) - k, s.left = Leading(queue, k),
         NEW t, t = PlaceLast(s, queue, <<>>)
  PROVE  t.ordering \in Seq(Proc) /\ Len(t.ordering) = Len(queue) - (k - 1) /\ t.left = Leading(queue, k - 1)
  <1>. DEFINE candidates == {i \in DOMAIN queue :
                /\ queue[i] \in s.left
                /\ \A e \in ToSet(<<>>) : e.waiter = queue[i] => e.blocker \notin s.left}
  <1>1. PICK n \in Nat : n = Len(queue)
    BY ListFacts
  <1>2. DOMAIN queue = 1..n /\ k \in 1..n /\ \A i \in 1..n : queue[i] \in Proc
    BY <1>1, ListFacts
  <1>3. ToSet(<<>>) = {}
    BY DEF ToSet
  <1>4. PICK c : c = candidates
    OBVIOUS
  <1>5. c = 1..k
    <2>1. \A i \in 1..n : queue[i] \in s.left <=> i \in 1..k
      BY <1>2 DEF Distinct, Leading
    <2>2. c = {i \in 1..n : queue[i] \in s.left}
      BY <1>2, <1>3, <1>4
    <2>3. \A i \in 1..k : i \in 1..n
      BY <1>2
    <2>. QED
      BY <2>1, <2>2, <2>3
  <1>6. PICK p : p = queue[Max(c)]
    OBVIOUS
  <1>7. PlaceLast(s, queue, <<>>) =
          IF c = {} THEN s ELSE [ordering |-> <<p>> \o s.ordering, left |-> s.left \ {p}]
    BY <1>4, <1>6 DEF PlaceLast
  <1>. HIDE DEF candidates
  <1>8. c # {} /\ c \subseteq 1..n /\ k \in c
    <2>1. k \in Nat /\ k \in 1..n /\ k \in 1..k
      BY <1>2
    <2>2. \A i \in 1..k : i \in 1..n
      BY <1>2
    <2>. QED
      BY <1>5, <2>1, <2>2
  <1>9. Max(c) \in c /\ \A j \in c : j <= Max(c)
    BY <1>8, Largest
  <1>10. Max(c) = k
    BY <1>5, <1>8, <1>9
  <1>11. p = queue[k] /\ p \in Proc
    BY <1>2, <1>6, <1>10
  <1>12. PICK o : o = <<p>> \o s.ordering
    OBVIOUS
  <1>13. PICK rest : rest = s.left \ {p}
    OBVIOUS
  <1>14. t.ordering = o /\ t.left = rest
    <2>1. t = [ordering |-> o, left |-> rest]
      BY <1>7, <1>8, <1>12, <1>13
    <2>. QED
      BY <2>1
  <1>15. o \in Seq(Proc) /\ Len(o) = 1 + Len(s.ordering)
    <2>1. PICK a : a = <<p>>
      OBVIOUS
    <2>2. PICK b : b = s.ordering
      OBVIOUS
    <2>3. a \in Seq(Proc) /\ Len(a) = 1 /\ b \in Seq(Proc)
      BY <1>11, <2>1, <2>2
    <2>4. a \o b \in Seq(Proc) /\ Len(a \o b) = Len(a) + Len(b)
      BY <2>3, ConcatFacts
    <2>. QED
      BY <1>12, <2>1, <2>2, <2>3, <2>4
  <1>16. rest = Leading(queue, k - 1)
    <2>1. \A j \in 1..k : queue[j] = p <=> j = k
      BY <1>2, <1>11 DEF Distinct
    <2>2. \A j \in 1..k : j # k <=> j \in 1..(k - 1)
      BY <1>2
    <2>3. \A j \in 1..(k - 1) : j \in 1..k
      BY <1>2
    <2>. QED
      BY <1>13, <2>1, <2>2, <2>3 DEF Leading
  <1>17. Len(o) = Len(queue) - (k - 1)
    <2>1. Len(s.ordering) = n - k
      BY <1>1
    <2>. QED
      BY <1>1, <1>2, <1>15, <2>1
  <1>. QED
    BY <1>14, <1>15, <1>16, <1>17

\* Without constraints everybody is placed.
LEMMA TopoSortFree ==
  ASSUME NEW l \in Lock, lock[l].waitProcs \in Seq(Proc), Distinct(lock[l].waitProcs)
  PROVE  Len(TopoSort(l, <<>>)) = Len(lock[l].waitProcs)
  <1>1. PICK f : IsPlaced(f, l, <<>>)
    BY TopoSortLoop
  <1>2. PICK queue : queue = lock[l].waitProcs
    OBVIOUS
  <1>3. PICK n \in Nat : n = Len(queue)
    BY <1>2, ListFacts
  <1>4. /\ f[0] = [ordering |-> <<>>, left |-> ToSet(queue)] /\ f[n].ordering = TopoSort(l, <<>>)
        /\ \A i \in 1..n : f[i] = PlaceLast(f[i - 1], queue, <<>>)
    BY <1>1, <1>2, <1>3 DEF IsPlaced
  <1>5. queue \in Seq(Proc) /\ Distinct(queue)
    BY <1>2
  <1>. DEFINE T == {i \in 0..n : /\ f[i].ordering \in Seq(Proc) /\ Len(f[i].ordering) = n - (n - i)
                                 /\ f[i].left = Leading(queue, n - i)}
  <1>6. 0 \in T
    <2>1. f[0].ordering = <<>> /\ f[0].left = ToSet(queue)
      BY <1>4
    <2>2. <<>> \in Seq(Proc) /\ Len(<<>>) = 0
      OBVIOUS
    <2>3. ToSet(queue) = Leading(queue, n)
      BY <1>3, <1>5, ListFacts DEF Leading
    <2>4. 0 \in 0..n /\ n - 0 = n /\ n - (n - 0) = 0
      OBVIOUS
    <2>. QED
      BY <2>1, <2>2, <2>3, <2>4
  <1>7. ASSUME NEW i \in 1..n, i - 1 \in T
        PROVE  i \in T
    <2>1. PICK k : k = n - (i - 1)
      OBVIOUS
    <2>2. k \in 1..Len(queue) /\ n - k = n - (n - (i - 1)) /\ k - 1 = n - i /\ i \in 0..n
      BY <1>3, <2>1
    <2>3. PICK s : s = f[i - 1]
      OBVIOUS
    <2>4. PICK t : t = f[i]
      OBVIOUS
    <2>5. s.ordering \in Seq(Proc) /\ Len(s.ordering) = Len(queue) - k /\ s.left = Leading(queue, k)
      BY <1>3, <1>7, <2>1, <2>2, <2>3
    <2>6. t = PlaceLast(s, queue, <<>>)
      BY <1>4, <2>3, <2>4
    <2>7. t.ordering \in Seq(Proc) /\ Len(t.ordering) = Len(queue) - (k - 1) /\ t.left = Leading(queue, k - 1)
      BY <1>5, <2>2, <2>5, <2>6, PlaceLastFree
    <2>. QED
      BY <1>3, <2>2, <2>4, <2>7
  <1>8. \A i \in 0..n : i \in T
    <2>. HIDE DEF T
    <2>. QED
      BY <1>6, <1>7, CountUp
  <1>9. n \in T
    BY <1>8
  <1>. QED
    BY <1>2, <1>3, <1>4, <1>9

\* As many distinct processes as there are in the queue are those in the queue.
LEMMA AllPlaced ==
  ASSUME NEW queue \in Seq(Proc), Distinct(queue), NEW order, PartOf(order, queue), Len(order) = Len(queue)
  PROVE  ToSet(order) = ToSet(queue)
  <1>1. PICK n \in Nat : n = Len(queue)
    BY ListFacts
  <1>2. /\ DOMAIN queue = 1..n /\ DOMAIN order = 1..n
        /\ \A x : x \in ToSet(queue) <=> \E i \in 1..n : queue[i] = x
        /\ \A x : x \in ToSet(order) <=> \E i \in 1..n : order[i] = x
    BY <1>1, ListFacts DEF PartOf
  <1>3. queue \in [1..n -> ToSet(queue)] /\ order \in [1..n -> ToSet(queue)]
    <2>1. queue \in [1..n -> Proc] /\ order \in [1..n -> Proc]
      BY <1>1, <1>2 DEF PartOf
    <2>2. \A i \in 1..n : queue[i] \in ToSet(queue) /\ order[i] \in ToSet(queue)
      BY <1>2 DEF PartOf
    <2>. QED
      BY <2>1, <2>2
  <1>4. queue \in Bijection(1..n, ToSet(queue))
    BY <1>2, <1>3 DEF Bijection, Injection, Surjection, IsInjective, Distinct
  <1>5. order \in Injection(1..n, ToSet(queue))
    BY <1>2, <1>3 DEF Injection, IsInjective, Distinct, PartOf
  <1>6. IsFiniteSet(1..n) /\ Cardinality(1..n) = n
    BY FS_Interval
  <1>7. IsFiniteSet(ToSet(queue)) /\ Cardinality(ToSet(queue)) = n
    <2>1. ExistsBijection(1..n, ToSet(queue))
      BY <1>4 DEF ExistsBijection
    <2>. QED
      BY <1>6, <2>1, FS_Bijection
  <1>8. order \in Surjection(1..n, ToSet(queue))
    BY <1>5, <1>6, <1>7, FS_Injection
  <1>9. \A x \in ToSet(queue) : \E i \in 1..n : order[i] = x
    BY <1>8 DEF Surjection
  <1>. QED
    BY <1>2, <1>9 DEF PartOf
-----------------------------------------------------------------------------
(* The deadlock detector.                                                  *)

\* What the detector reads of the lock table.
DetectorTyped ==
  /\ \A l \in Lock : /\ lock[l].waitProcs \in Seq(Proc) /\ Distinct(lock[l].waitProcs)
                       /\ lock[l].procLocks \in Seq(Proc)
                       /\ \A r \in Proc : lock[l].holdMask[r] # {} => r \in ToSet(lock[l].procLocks)
  /\ \A q \in Proc : proc[q].waitLock \in Lock \cup {NULL}
OrdersTyped(waitOrders) == \A l \in Lock : waitOrders[l] \in Seq(Proc)
VISIT == [Proc \X Seq(Proc) -> Answer]

\* One turn of FindLockCycleRecurse's loops gives an answer.
LEMMA FollowTyped ==
  ASSUME NEW visit \in VISIT, NEW seen \in Answer, NEW q \in Proc, NEW r \in Proc, NEW soft, NEW waitOrders
  PROVE  Follow(visit, seen, q, r, soft, waitOrders) \in Answer
  <1>1. PICK v : v = visit[<<r, seen.visitedProcs>>]
    OBVIOUS
  <1>2. v \in Answer
    <2>1. seen.visitedProcs \in Seq(Proc)
      BY DEF Answer
    <2>2. <<r, seen.visitedProcs>> \in Proc \X Seq(Proc)
      BY <2>1
    <2>. QED
      BY <1>1, <2>2 DEF VISIT
  <1>3. PICK edges : edges = Append(v.softEdges, [waiter |-> q, blocker |-> r])
    OBVIOUS
  <1>4. edges \in Seq(Edge)
    <2>1. [waiter |-> q, blocker |-> r] \in Edge
      BY DEF Edge
    <2>2. v.softEdges \in Seq(Edge)
      BY <1>2 DEF Answer
    <2>. QED
      BY <1>3, <2>1, <2>2
  <1>5. [v EXCEPT !.softEdges = edges] \in Answer
    BY <1>2, <1>4 DEF Answer
  <1>6. \/ Follow(visit, seen, q, r, soft, waitOrders) = seen
        \/ Follow(visit, seen, q, r, soft, waitOrders) = v
        \/ Follow(visit, seen, q, r, soft, waitOrders) = [v EXCEPT !.softEdges = edges]
    BY <1>1, <1>3 DEF Follow
  <1>. QED
    BY <1>2, <1>5, <1>6

\* Those that q is found to wait for when they are tried.
Followed(q, waitOrders) ==
  {r \in Proc : \E i \in 1..Len(Tries(q, waitOrders)) :
     Tries(q, waitOrders)[i][1] = r /\ WaitsFor(q, r, Tries(q, waitOrders)[i][2], waitOrders)}

\* Those that are tried are processes, and all blockers are among them.
LEMMA TriesRight ==
  ASSUME DetectorTyped, NEW waitOrders, OrdersTyped(waitOrders), NEW q \in Proc
  PROVE  Tries(q, waitOrders) \in Seq(Proc \X BOOLEAN) /\ BlockersIn(q, waitOrders) \subseteq Followed(q, waitOrders)
  <1>1. PICK l : l = proc[q].waitLock
    OBVIOUS
  <1>2. CASE l = NULL
    <2>1. Tries(q, waitOrders) = <<>>
      BY <1>1, <1>2 DEF Tries
    <2>2. BlockersIn(q, waitOrders) = {}
      BY <1>1, <1>2 DEF BlockersIn
    <2>. QED
      BY <2>1, <2>2
  <1>3. CASE l # NULL
    <2>1. l \in Lock
      BY <1>1, <1>3 DEF DetectorTyped
    <2>2. PICK a : a = lock[l].procLocks
      OBVIOUS
    <2>3. PICK b : b = waitOrders[l]
      OBVIOUS
    <2>4. a \in Seq(Proc) /\ b \in Seq(Proc)
      BY <2>1, <2>2, <2>3 DEF DetectorTyped, OrdersTyped
    <2>5. PICK c : c = [i \in DOMAIN a |-> <<a[i], FALSE>>]
      OBVIOUS
    <2>6. PICK d : d = [i \in DOMAIN b |-> <<b[i], TRUE>>]
      OBVIOUS
    <2>7. /\ Len(a) \in Nat /\ Len(b) \in Nat
          /\ \A i \in 1..Len(a) : a[i] \in Proc /\ c[i] = <<a[i], FALSE>>
          /\ \A i \in 1..Len(b) : b[i] \in Proc /\ d[i] = <<b[i], TRUE>>
      BY <2>4, <2>5, <2>6, ListFacts
    <2>8. c \in Seq(Proc \X BOOLEAN) /\ Len(c) = Len(a)
      <3>1. DOMAIN a = 1..Len(a) /\ \A i \in DOMAIN a : <<a[i], FALSE>> \in Proc \X BOOLEAN
        BY <2>4, ListFacts
      <3>2. c \in [1..Len(a) -> Proc \X BOOLEAN]
        BY <2>5, <3>1
      <3>. QED
        BY <2>7, <3>2, SeqDef
    <2>9. d \in Seq(Proc \X BOOLEAN) /\ Len(d) = Len(b)
      <3>1. DOMAIN b = 1..Len(b) /\ \A i \in DOMAIN b : <<b[i], TRUE>> \in Proc \X BOOLEAN
        BY <2>4, ListFacts
      <3>2. d \in [1..Len(b) -> Proc \X BOOLEAN]
        BY <2>6, <3>1
      <3>. QED
        BY <2>7, <3>2, SeqDef
    <2>10. PICK t : t = Tries(q, waitOrders)
      OBVIOUS
    <2>11. t = c \o d
      BY <1>1, <1>3, <2>2, <2>3, <2>5, <2>6, <2>10 DEF Tries
    <2>12. /\ t \in Seq(Proc \X BOOLEAN) /\ Len(t) = Len(a) + Len(b)
           /\ \A i \in 1..(Len(a) + Len(b)) : (i <= Len(a) => t[i] = c[i]) /\ (~(i <= Len(a)) => t[i] = d[i - Len(a)])
      <3>1. PICK T : T = Proc \X BOOLEAN
        OBVIOUS
      <3>2. c \in Seq(T) /\ d \in Seq(T)
        BY <2>8, <2>9, <3>1
      <3>3. c \o d \in Seq(T) /\ Len(c \o d) = Len(c) + Len(d)
        BY <3>2, ConcatFacts
      <3>4. \A i \in 1..(Len(c) + Len(d)) : (i <= Len(c) => (c \o d)[i] = c[i]) /\ (~(i <= Len(c)) => (c \o d)[i] = d[i - Len(c)])
        BY <3>2
      <3>. QED
        BY <2>8, <2>9, <2>11, <3>1, <3>3, <3>4
    <2>13. ASSUME NEW r \in BlockersIn(q, waitOrders)
           PROVE  r \in Followed(q, waitOrders)
      <3>1. PICK conflicts : conflicts = conflictTab(proc[q].waitLockMode)
        OBVIOUS
      <3>2. /\ r \in Proc /\ r # q
            /\ \/ lock[l].holdMask[r] \cap conflicts # {}
               \/ /\ \E i, j \in DOMAIN b : i < j /\ b[i] = r /\ b[j] = q
                  /\ proc[r].waitLockMode \in conflicts
        BY <1>1, <2>3, <3>1 DEF BlockersIn
      <3>3. ASSUME NEW i \in 1..Len(t), t[i][1] = r, WaitsFor(q, r, t[i][2], waitOrders)
            PROVE  r \in Followed(q, waitOrders)
        BY <2>10, <3>2, <3>3 DEF Followed
      <3>4. CASE lock[l].holdMask[r] \cap conflicts # {}
        <4>1. r \in ToSet(a)
          BY <2>1, <2>2, <3>2, <3>4 DEF DetectorTyped
        <4>2. PICK i \in 1..Len(a) : a[i] = r
          BY <2>4, <4>1, ListFacts
        <4>3. i \in 1..Len(t) /\ t[i][1] = r /\ t[i][2] = FALSE
          <5>1. i \in 1..(Len(a) + Len(b)) /\ i <= Len(a)
            BY <2>7, <4>2
          <5>2. t[i] = c[i] /\ c[i] = <<r, FALSE>>
            BY <2>7, <2>12, <4>2, <5>1
          <5>. QED
            BY <2>12, <5>1, <5>2
        <4>4. WaitsFor(q, r, FALSE, waitOrders)
          BY <1>1, <3>1, <3>2, <3>4 DEF WaitsFor
        <4>. QED
          BY <3>3, <4>3, <4>4
      <3>5. CASE /\ \E i, j \in DOMAIN b : i < j /\ b[i] = r /\ b[j] = q
                 /\ proc[r].waitLockMode \in conflicts
        <4>1. WaitsFor(q, r, TRUE, waitOrders)
          BY <1>1, <2>3, <3>1, <3>5 DEF WaitsFor, IsBefore
        <4>2. PICK i \in 1..Len(b) : b[i] = r
          BY <2>4, <3>5, ListFacts
        <4>3. PICK k : k = Len(a) + i
          OBVIOUS
        <4>4. k \in 1..Len(t) /\ k > Len(a) /\ k - Len(a) = i /\ k \in 1..(Len(a) + Len(b))
          BY <2>7, <2>12, <4>3
        <4>5. t[k][1] = r /\ t[k][2] = TRUE
          <5>1. t[k] = d[i]
            BY <2>7, <2>12, <4>4
          <5>2. d[i] = <<r, TRUE>>
            BY <2>7, <4>2
          <5>. QED
            BY <5>1, <5>2
        <4>. QED
          BY <3>3, <4>1, <4>4, <4>5
      <3>. QED
        BY <3>2, <3>4, <3>5
    <2>. QED
      BY <2>10, <2>12, <2>13
  <1>. QED
    BY <1>2, <1>3

\* The answers after each turn of the loops of FindLockCycleRecurse.
IsFollowed(f, visit, q, visitedProcs, waitOrders) ==
  LET tries == Tries(q, waitOrders) IN
  /\ Len(tries) \in Nat /\ f \in [0..Len(tries) -> Answer] /\ \A i \in 1..Len(tries) : tries[i][1] \in Proc
  /\ f[0] = [found |-> FALSE, visitedProcs |-> Append(visitedProcs, q), softEdges |-> <<>>]
  /\ \A i \in 1..Len(tries) : f[i] = Follow(visit, f[i - 1], q, tries[i][1], tries[i][2], waitOrders)
  /\ f[Len(tries)] = FollowAll(visit, q, visitedProcs, waitOrders)

\* The loops of FindLockCycleRecurse, turn by turn.
LEMMA FollowLoop ==
  ASSUME DetectorTyped, NEW waitOrders, OrdersTyped(waitOrders), NEW visit \in VISIT, NEW q \in Proc,
         NEW visitedProcs \in Seq(Proc)
  PROVE  \E f : IsFollowed(f, visit, q, visitedProcs, waitOrders)
  <1>1. PICK tries : tries = Tries(q, waitOrders)
    OBVIOUS
  <1>. DEFINE n == Len(tries)
              a == [found |-> FALSE, visitedProcs |-> Append(visitedProcs, q), softEdges |-> <<>>]
              S == Answer
              followed[k \in 0..n] ==
                IF k = 0 THEN a ELSE Follow(visit, followed[k - 1], q, tries[k][1], tries[k][2], waitOrders)
              G == [k \in 1..n |-> [s \in S |-> Follow(visit, s, q, tries[k][1], tries[k][2], waitOrders)]]
  <1>2. FollowAll(visit, q, visitedProcs, waitOrders) = followed[n]
    BY <1>1 DEF FollowAll
  <1>3. n \in Nat /\ \A i \in 1..n : tries[i][1] \in Proc
    <2>1. tries \in Seq(Proc \X BOOLEAN)
      BY <1>1, TriesRight
    <2>2. \A i \in 1..Len(tries) : tries[i] \in Proc \X BOOLEAN
      BY <2>1
    <2>. QED
      BY <2>1, <2>2
  <1>4. a \in S
    <2>1. Append(visitedProcs, q) \in Seq(Proc) /\ <<>> \in Seq(Edge)
      OBVIOUS
    <2>. QED
      BY <2>1 DEF Answer
  <1>5. \A i \in 1..n : \A s \in S : Follow(visit, s, q, tries[i][1], tries[i][2], waitOrders) \in S
    BY <1>3, FollowTyped
  <1>6. IsLoop(G, n, S)
    <2>1. \A i \in 1..n : [s \in S |-> Follow(visit, s, q, tries[i][1], tries[i][2], waitOrders)] \in [S -> S]
      BY <1>5
    <2>. QED
      BY <2>1 DEF IsLoop
  <1>7. \A i \in 1..n : \A s \in S : G[i][s] = Follow(visit, s, q, tries[i][1], tries[i][2], waitOrders)
    OBVIOUS
  <1>. HIDE DEF G, n, a, S
  <1>8. PICK f \in [0..n -> S] : f[0] = a /\ \A i \in 1..n : f[i] = G[i][f[i - 1]]
    <2>1. PICK f : IsRun(f, G, n, a, S)
      BY <1>3, <1>4, <1>6, Loop, Zenon
    <2>. QED
      BY <2>1 DEF IsRun
  <1>9. \A i \in 0..n : i # 0 => i \in 1..n /\ i - 1 \in 0..n
    BY <1>3
  <1>10. \A i \in 0..n : f[i] = IF i = 0 THEN a ELSE Follow(visit, f[i - 1], q, tries[i][1], tries[i][2], waitOrders)
    BY <1>7, <1>8, <1>9
  <1>11. f = [i \in 0..n |-> IF i = 0 THEN a ELSE Follow(visit, f[i - 1], q, tries[i][1], tries[i][2], waitOrders)]
    BY <1>8, <1>10
  <1>12. followed = [i \in 0..n |-> IF i = 0 THEN a ELSE Follow(visit, followed[i - 1], q, tries[i][1], tries[i][2], waitOrders)]
    BY <1>11
  <1>. HIDE DEF followed
  <1>13. followed[0] = a /\ \A i \in 1..n : followed[i] = Follow(visit, followed[i - 1], q, tries[i][1], tries[i][2], waitOrders)
    <2>1. 0 \in 0..n /\ \A i \in 1..n : i \in 0..n /\ i # 0
      BY <1>3
    <2>2. \A i \in 0..n : followed[i] = IF i = 0 THEN a ELSE Follow(visit, followed[i - 1], q, tries[i][1], tries[i][2], waitOrders)
      BY <1>12
    <2>. QED
      BY <2>1, <2>2
  <1>. DEFINE T == {i \in 0..n : followed[i] \in S}
  <1>14. 0 \in T
    BY <1>3, <1>4, <1>13
  <1>15. \A i \in 1..n : i - 1 \in T => i \in T
    <2>1. \A i \in 1..n : i \in 0..n
      BY <1>3
    <2>. QED
      BY <1>5, <1>13, <2>1
  <1>16. \A i \in 0..n : i \in T
    <2>. HIDE DEF T
    <2>. QED
      BY <1>3, <1>14, <1>15, CountUp
  <1>17. PICK g : g = followed
    OBVIOUS
  <1>18. g \in [0..n -> S]
    <2>1. \A i \in 0..n : g[i] \in S
      BY <1>16, <1>17
    <2>2. g = [i \in 0..n |-> g[i]]
      BY <1>12, <1>17
    <2>. QED
      BY <2>1, <2>2
  <1>19. g[0] = a /\ g[n] = FollowAll(visit, q, visitedProcs, waitOrders)
    BY <1>2, <1>13, <1>17
  <1>20. \A i \in 1..n : g[i] = Follow(visit, g[i - 1], q, tries[i][1], tries[i][2], waitOrders)
    BY <1>13, <1>17
  <1>21. IsFollowed(g, visit, q, visitedProcs, waitOrders)
    BY <1>1, <1>3, <1>18, <1>19, <1>20 DEF IsFollowed, n, S, a
  <1>. QED
    BY <1>21

\* They give an answer.
LEMMA FollowAllTyped ==
  ASSUME DetectorTyped, NEW waitOrders, OrdersTyped(waitOrders), NEW visit \in VISIT, NEW q \in Proc,
         NEW visitedProcs \in Seq(Proc)
  PROVE  FollowAll(visit, q, visitedProcs, waitOrders) \in Answer
  <1>1. PICK f : IsFollowed(f, visit, q, visitedProcs, waitOrders)
    BY FollowLoop
  <1>2. PICK n : n = Len(Tries(q, waitOrders))
    OBVIOUS
  <1>3. n \in 0..n /\ f \in [0..n -> Answer] /\ f[n] = FollowAll(visit, q, visitedProcs, waitOrders)
    BY <1>1, <1>2 DEF IsFollowed
  <1>. QED
    BY <1>3

\* One level of the search gives answers.
LEMMA VisitTyped ==
  ASSUME DetectorTyped, NEW waitOrders, OrdersTyped(waitOrders), NEW visit \in VISIT
  PROVE  FindLockCycleRecurse(visit, waitOrders) \in VISIT
  <1>1. ASSUME NEW x \in Proc \X Seq(Proc), NEW q, q = x[1], NEW visitedProcs, visitedProcs = x[2]
        PROVE  (IF Contains(visitedProcs, q)
                THEN [found |-> q = visitedProcs[1], visitedProcs |-> visitedProcs, softEdges |-> <<>>]
                ELSE FollowAll(visit, q, visitedProcs, waitOrders)) \in Answer
    <2>1. q \in Proc /\ visitedProcs \in Seq(Proc)
      BY <1>1
    <2>2. FollowAll(visit, q, visitedProcs, waitOrders) \in Answer
      BY <2>1, FollowAllTyped
    <2>3. [found |-> q = visitedProcs[1], visitedProcs |-> visitedProcs, softEdges |-> <<>>] \in Answer
      <3>1. (q = visitedProcs[1]) \in BOOLEAN /\ <<>> \in Seq(Edge)
        OBVIOUS
      <3>. QED
        BY <2>1, <3>1 DEF Answer
    <2>. QED
      BY <2>2, <2>3
  <1>. QED
    BY <1>1 DEF FindLockCycleRecurse, VISIT

\* The answers at each level of FindLockCycle.
NothingFound == [x \in Proc \X Seq(Proc) |-> [found |-> FALSE, visitedProcs |-> x[2], softEdges |-> <<>>]]
IsVisited(f, p, waitOrders) ==
  /\ f \in [0..(NProcs + 1) -> VISIT] /\ f[0] = NothingFound
  /\ \A i \in 1..(NProcs + 1) : f[i] = FindLockCycleRecurse(f[i - 1], waitOrders)
  /\ f[NProcs + 1][<<p, <<>>>>] = FindLockCycle(p, waitOrders)

\* FindLockCycle, level by level.
LEMMA CycleLoop ==
  ASSUME DetectorTyped, NEW waitOrders, OrdersTyped(waitOrders), NEW p \in Proc
  PROVE  \E f : IsVisited(f, p, waitOrders)
  <1>. DEFINE n == NProcs + 1
              a == [x \in Proc \X Seq(Proc) |-> [found |-> FALSE, visitedProcs |-> x[2], softEdges |-> <<>>]]
              S == VISIT
              visit[k \in 0..n] == IF k = 0 THEN a ELSE FindLockCycleRecurse(visit[k - 1], waitOrders)
              G == [k \in 1..n |-> [s \in S |-> FindLockCycleRecurse(s, waitOrders)]]
  <1>2. FindLockCycle(p, waitOrders) = visit[n][<<p, <<>>>>]
    BY DEF FindLockCycle
  <1>3. n \in Nat
    BY LockTableAssumption
  <1>4. a \in S
    <2>1. ASSUME NEW x \in Proc \X Seq(Proc)
          PROVE  [found |-> FALSE, visitedProcs |-> x[2], softEdges |-> <<>>] \in Answer
      <3>1. x[2] \in Seq(Proc) /\ <<>> \in Seq(Edge)
        OBVIOUS
      <3>. QED
        BY <3>1 DEF Answer
    <2>. QED
      BY <2>1 DEF VISIT
  <1>5. \A s \in S : FindLockCycleRecurse(s, waitOrders) \in S
    BY VisitTyped
  <1>6. IsLoop(G, n, S)
    <2>1. [s \in S |-> FindLockCycleRecurse(s, waitOrders)] \in [S -> S]
      BY <1>5
    <2>. QED
      BY <2>1 DEF IsLoop
  <1>. HIDE DEF n, a, S
  <1>7. \A i \in 1..n : \A s \in S : G[i][s] = FindLockCycleRecurse(s, waitOrders)
    OBVIOUS
  <1>. HIDE DEF G
  <1>8. PICK f \in [0..n -> S] : f[0] = a /\ \A i \in 1..n : f[i] = G[i][f[i - 1]]
    <2>1. PICK f : IsRun(f, G, n, a, S)
      BY <1>3, <1>4, <1>6, Loop, Zenon
    <2>. QED
      BY <2>1 DEF IsRun
  <1>9. \A i \in 0..n : i # 0 => i \in 1..n /\ i - 1 \in 0..n
    BY <1>3
  <1>10. \A i \in 0..n : f[i] = IF i = 0 THEN a ELSE FindLockCycleRecurse(f[i - 1], waitOrders)
    BY <1>7, <1>8, <1>9
  <1>11. f = [i \in 0..n |-> IF i = 0 THEN a ELSE FindLockCycleRecurse(f[i - 1], waitOrders)]
    BY <1>8, <1>10
  <1>12. visit = [i \in 0..n |-> IF i = 0 THEN a ELSE FindLockCycleRecurse(visit[i - 1], waitOrders)]
    BY <1>11
  <1>. HIDE DEF visit
  <1>13. visit[0] = a /\ \A i \in 1..n : visit[i] = FindLockCycleRecurse(visit[i - 1], waitOrders)
    <2>1. 0 \in 0..n /\ \A i \in 1..n : i \in 0..n /\ i # 0
      BY <1>3
    <2>2. \A i \in 0..n : visit[i] = IF i = 0 THEN a ELSE FindLockCycleRecurse(visit[i - 1], waitOrders)
      BY <1>12
    <2>. QED
      BY <2>1, <2>2
  <1>. DEFINE T == {i \in 0..n : visit[i] \in S}
  <1>14. 0 \in T
    BY <1>3, <1>4, <1>13
  <1>15. \A i \in 1..n : i - 1 \in T => i \in T
    <2>1. \A i \in 1..n : i \in 0..n
      BY <1>3
    <2>. QED
      BY <1>5, <1>13, <2>1
  <1>16. \A i \in 0..n : i \in T
    <2>. HIDE DEF T
    <2>. QED
      BY <1>3, <1>14, <1>15, CountUp
  <1>17. PICK g : g = visit
    OBVIOUS
  <1>18. g \in [0..n -> S]
    <2>1. \A i \in 0..n : g[i] \in S
      BY <1>16, <1>17
    <2>2. g = [i \in 0..n |-> g[i]]
      BY <1>12, <1>17
    <2>. QED
      BY <2>1, <2>2
  <1>19. g[0] = a /\ g[n][<<p, <<>>>>] = FindLockCycle(p, waitOrders)
    BY <1>2, <1>13, <1>17
  <1>20. \A i \in 1..n : g[i] = FindLockCycleRecurse(g[i - 1], waitOrders)
    BY <1>13, <1>17
  <1>21. IsVisited(g, p, waitOrders)
    BY <1>18, <1>19, <1>20 DEF IsVisited, NothingFound, n, S, a
  <1>. QED
    BY <1>21

\* Nothing has been visited before p.
LEMMA StartTyped ==
  ASSUME NEW p \in Proc
  PROVE  <<p, <<>>>> \in Proc \X Seq(Proc)
  <1>1. PICK e : e = <<>>
    OBVIOUS
  <1>2. e \in Seq(Proc)
    BY <1>1
  <1>3. <<p, e>> \in Proc \X Seq(Proc)
    BY <1>2
  <1>. QED
    BY <1>1, <1>3

\* FindLockCycle gives an answer.
LEMMA FindLockCycleTyped ==
  ASSUME DetectorTyped, NEW waitOrders, OrdersTyped(waitOrders), NEW p \in Proc
  PROVE  FindLockCycle(p, waitOrders) \in Answer
  <1>1. PICK f : IsVisited(f, p, waitOrders)
    BY CycleLoop
  <1>2. NProcs + 1 \in 0..(NProcs + 1)
    BY LockTableAssumption
  <1>3. f[NProcs + 1] \in VISIT
    BY <1>1, <1>2 DEF IsVisited
  <1>4. f[NProcs + 1][<<p, <<>>>>] \in Answer
    BY <1>3, StartTyped DEF VISIT
  <1>. QED
    BY <1>1, <1>4 DEF IsVisited

\* A list without repetition has no more members than there are processes.
LEMMA ShortList ==
  ASSUME NEW V \in Seq(Proc), Distinct(V)
  PROVE  Len(V) \in Nat /\ Len(V) <= NProcs
  <1>1. PICK n \in Nat : n = Len(V)
    BY ListFacts
  <1>2. DOMAIN V = 1..n /\ V \in [1..n -> Proc]
    BY <1>1, ListFacts
  <1>3. IsFiniteSet(1..n) /\ Cardinality(1..n) = n
    BY FS_Interval
  <1>4. IsFiniteSet(Proc) /\ Cardinality(Proc) = NProcs
    BY LockTableAssumption, FS_Interval DEF Proc
  <1>5. ~(NProcs < n)
    <2>1. SUFFICES ASSUME NProcs < n
                   PROVE  FALSE
      OBVIOUS
    <2>2. \E i, j \in 1..n : i # j /\ V[i] = V[j]
      BY <1>2, <1>3, <1>4, <2>1, FS_PigeonHole
    <2>. QED
      BY <1>2, <2>2 DEF Distinct
  <1>. QED
    BY <1>1, <1>5, LockTableAssumption

\* Where the search began.
Root(V, q) == IF V = <<>> THEN q ELSE V[1]

\* From q, after V, the search has visited W without coming back to where it began:
\* whoever it met is waited for by nobody but those it has visited before.
Searched(V, W, q, waitOrders) ==
  /\ W \in Seq(Proc) /\ Distinct(W) /\ Len(W) >= Len(V) /\ ToSet(V) \subseteq ToSet(W) /\ q \in ToSet(W)
  /\ W # <<>> /\ W[1] = Root(V, q) /\ (V # <<>> => q # V[1])
  /\ \A v \in ToSet(W) : v \notin ToSet(V) => Followed(v, waitOrders) \subseteq ToSet(W) \ {W[1]}

\* With k levels left no search ends early.
SearchRight(visit, k, waitOrders) ==
  \A q \in Proc, V \in Seq(Proc) :
    Distinct(V) /\ Len(V) + k > NProcs /\ ~visit[<<q, V>>].found => Searched(V, visit[<<q, V>>].visitedProcs, q, waitOrders)

\* Before turn i + 1 of FindLockCycleRecurse's loops at q, with no circle found.
Tried(s, i, V, q, waitOrders) ==
  LET W == s.visitedProcs IN
  /\ Distinct(W) /\ Len(W) > Len(V) /\ ToSet(V) \subseteq ToSet(W) /\ q \in ToSet(W)
  /\ W # <<>> /\ W[1] = Root(V, q)
  /\ \A v \in ToSet(W) : v \notin ToSet(V) /\ v # q => Followed(v, waitOrders) \subseteq ToSet(W) \ {W[1]}
  /\ \A j \in 1..i : WaitsFor(q, Tries(q, waitOrders)[j][1], Tries(q, waitOrders)[j][2], waitOrders) =>
                       Tries(q, waitOrders)[j][1] \in ToSet(W) \ {W[1]}

\* One turn.
LEMMA TurnTried ==
  ASSUME NEW visit \in VISIT, NEW waitOrders, NEW k \in Nat, k # 0, SearchRight(visit, k - 1, waitOrders),
         NEW V \in Seq(Proc), Len(V) + k > NProcs, NEW q \in Proc, NEW i \in Nat, i # 0, NEW s \in Answer,
         s.found \/ Tried(s, i - 1, V, q, waitOrders),
         NEW r \in Proc, r = Tries(q, waitOrders)[i][1], NEW soft, soft = Tries(q, waitOrders)[i][2],
         NEW t, t = Follow(visit, s, q, r, soft, waitOrders)
  PROVE  t.found \/ Tried(t, i, V, q, waitOrders)
  <1>1. CASE s.found
    BY <1>1 DEF Follow
  <1>2. \A j \in 1..i : j = i \/ j \in 1..(i - 1)
    OBVIOUS
  <1>3. CASE ~s.found /\ ~WaitsFor(q, r, soft, waitOrders)
    <2>1. t = s /\ Tried(s, i - 1, V, q, waitOrders)
      BY <1>3 DEF Follow
    <2>. QED
      BY <1>2, <1>3, <2>1 DEF Tried
  <1>4. CASE ~s.found /\ WaitsFor(q, r, soft, waitOrders)
    <2>1. PICK U : U = s.visitedProcs
      OBVIOUS
    <2>2. PICK v : v = visit[<<r, U>>]
      OBVIOUS
    <2>3. U \in Seq(Proc) /\ v \in Answer
      <3>1. U \in Seq(Proc)
        BY <2>1 DEF Answer
      <3>2. <<r, U>> \in Proc \X Seq(Proc)
        BY <3>1
      <3>. QED
        BY <2>2, <3>1, <3>2 DEF VISIT
    <2>4. t.found = v.found /\ t.visitedProcs = v.visitedProcs
      <3>1. PICK edges : edges = Append(v.softEdges, [waiter |-> q, blocker |-> r])
        OBVIOUS
      <3>2. t = v \/ t = [v EXCEPT !.softEdges = edges]
        BY <1>4, <2>1, <2>2, <3>1 DEF Follow
      <3>. QED
        BY <2>3, <3>2 DEF Answer
    <2>. SUFFICES ASSUME ~v.found
                  PROVE  Tried(t, i, V, q, waitOrders)
      BY <2>4
    <2>5. PICK W : W = v.visitedProcs
      OBVIOUS
    <2>6. Tried(s, i - 1, V, q, waitOrders)
      BY <1>4
    <2>7. /\ Distinct(U) /\ Len(U) > Len(V) /\ ToSet(V) \subseteq ToSet(U) /\ q \in ToSet(U)
          /\ U # <<>> /\ U[1] = Root(V, q)
          /\ \A x \in ToSet(U) : x \notin ToSet(V) /\ x # q => Followed(x, waitOrders) \subseteq ToSet(U) \ {U[1]}
          /\ \A j \in 1..(i - 1) : WaitsFor(q, Tries(q, waitOrders)[j][1], Tries(q, waitOrders)[j][2], waitOrders) =>
                                     Tries(q, waitOrders)[j][1] \in ToSet(U) \ {U[1]}
      BY <2>1, <2>6 DEF Tried
    <2>8. Len(U) \in Nat /\ Len(V) \in Nat /\ NProcs \in Nat
      BY <2>3, ListFacts, LockTableAssumption
    <2>9. Len(U) + (k - 1) > NProcs
      BY <2>7, <2>8
    <2>10. Searched(U, W, r, waitOrders)
      BY <2>2, <2>3, <2>5, <2>7, <2>9 DEF SearchRight
    <2>11. /\ W \in Seq(Proc) /\ Distinct(W) /\ Len(W) >= Len(U) /\ ToSet(U) \subseteq ToSet(W) /\ r \in ToSet(W)
           /\ W # <<>> /\ W[1] = U[1] /\ r # U[1]
           /\ \A x \in ToSet(W) : x \notin ToSet(U) => Followed(x, waitOrders) \subseteq ToSet(W) \ {W[1]}
      BY <2>7, <2>10 DEF Searched, Root
    <2>12. Len(W) \in Nat
      BY <2>11, ListFacts
    <2>13. \A x \in ToSet(W) : x \notin ToSet(V) /\ x # q => Followed(x, waitOrders) \subseteq ToSet(W) \ {W[1]}
      BY <2>7, <2>11
    <2>14. \A j \in 1..i : WaitsFor(q, Tries(q, waitOrders)[j][1], Tries(q, waitOrders)[j][2], waitOrders) =>
                             Tries(q, waitOrders)[j][1] \in ToSet(W) \ {W[1]}
      BY <1>2, <2>7, <2>11
    <2>15. Len(W) > Len(V) /\ ToSet(V) \subseteq ToSet(W) /\ q \in ToSet(W) /\ W[1] = Root(V, q)
      BY <2>7, <2>8, <2>11, <2>12
    <2>. QED
      BY <2>4, <2>5, <2>11, <2>13, <2>14, <2>15 DEF Tried
  <1>. QED
    BY <1>1, <1>3, <1>4

\* The loops at q follow everybody that q waits for.
LEMMA FollowAllSearched ==
  ASSUME DetectorTyped, NEW waitOrders, OrdersTyped(waitOrders), NEW visit \in VISIT,
         NEW k \in Nat, k # 0, SearchRight(visit, k - 1, waitOrders),
         NEW V \in Seq(Proc), Distinct(V), Len(V) + k > NProcs, NEW q \in Proc, q \notin ToSet(V),
         NEW a, a = FollowAll(visit, q, V, waitOrders), ~a.found
  PROVE  Searched(V, a.visitedProcs, q, waitOrders)
  <1>1. PICK f : IsFollowed(f, visit, q, V, waitOrders)
    BY FollowLoop
  <1>2. PICK n : n = Len(Tries(q, waitOrders))
    OBVIOUS
  <1>3. /\ n \in Nat /\ f \in [0..n -> Answer] /\ \A i \in 1..n : Tries(q, waitOrders)[i][1] \in Proc
        /\ f[0] = [found |-> FALSE, visitedProcs |-> Append(V, q), softEdges |-> <<>>]
        /\ \A i \in 1..n : f[i] = Follow(visit, f[i - 1], q, Tries(q, waitOrders)[i][1], Tries(q, waitOrders)[i][2], waitOrders)
        /\ f[n] = a
    BY <1>1, <1>2 DEF IsFollowed
  <1>4. PICK U : U = Append(V, q)
    OBVIOUS
  <1>5. /\ U \in Seq(Proc) /\ Distinct(U) /\ \A x : x \in ToSet(U) <=> x \in ToSet(V) \/ x = q
    BY <1>4, AppendRight
  <1>6. Len(V) \in Nat /\ Len(U) = Len(V) + 1 /\ U[1] = Root(V, q) /\ U # <<>>
    <2>1. Len(V) \in Nat /\ Len(U) = Len(V) + 1 /\ U[Len(V) + 1] = q
      BY <1>4
    <2>2. CASE V = <<>>
      BY <2>1, <2>2 DEF Root
    <2>3. CASE V # <<>>
      <3>1. 1 \in 1..Len(V)
        BY <2>1, <2>3
      <3>2. U[1] = V[1]
        BY <1>4, <3>1
      <3>. QED
        BY <1>5, <2>1, <2>3, <3>2 DEF Root
    <2>. QED
      BY <2>2, <2>3
  <1>. DEFINE T == {i \in 0..n : f[i].found \/ Tried(f[i], i, V, q, waitOrders)}
  <1>7. 0 \in T
    <2>1. f[0].visitedProcs = U /\ 0 \in 0..n
      BY <1>3, <1>4
    <2>2. \A j \in 1..0 : FALSE
      OBVIOUS
    <2>3. Len(U) > Len(V) /\ \A x \in ToSet(U) : ~(x \notin ToSet(V) /\ x # q)
      BY <1>5, <1>6
    <2>4. ToSet(V) \subseteq ToSet(U) /\ q \in ToSet(U)
      BY <1>5
    <2>5. Tried(f[0], 0, V, q, waitOrders)
      BY <1>5, <1>6, <2>1, <2>2, <2>3, <2>4 DEF Tried
    <2>. QED
      BY <2>1, <2>5
  <1>8. ASSUME NEW i \in 1..n, i - 1 \in T
        PROVE  i \in T
    <2>1. /\ i \in Nat /\ i # 0 /\ i \in 0..n /\ f[i - 1] \in Answer
          /\ f[i - 1].found \/ Tried(f[i - 1], i - 1, V, q, waitOrders)
      BY <1>3, <1>8
    <2>2. PICK s : s = f[i - 1]
      OBVIOUS
    <2>3. PICK r : r = Tries(q, waitOrders)[i][1]
      OBVIOUS
    <2>4. PICK soft : soft = Tries(q, waitOrders)[i][2]
      OBVIOUS
    <2>5. PICK t : t = f[i]
      OBVIOUS
    <2>6. r \in Proc /\ t = Follow(visit, s, q, r, soft, waitOrders) /\ s \in Answer /\ (s.found \/ Tried(s, i - 1, V, q, waitOrders))
      BY <1>3, <2>1, <2>2, <2>3, <2>4, <2>5
    <2>7. t.found \/ Tried(t, i, V, q, waitOrders)
      BY <2>1, <2>3, <2>4, <2>6, TurnTried
    <2>. QED
      BY <2>1, <2>5, <2>7
  <1>9. Tried(a, n, V, q, waitOrders)
    <2>1. \A i \in 0..n : i \in T
      <3>. HIDE DEF T
      <3>. QED
        BY <1>3, <1>7, <1>8, CountUp
    <2>2. n \in 0..n
      BY <1>3
    <2>3. f[n].found \/ Tried(f[n], n, V, q, waitOrders)
      BY <2>1, <2>2
    <2>. QED
      BY <1>3, <2>3
  <1>10. PICK W : W = a.visitedProcs
    OBVIOUS
  <1>11. /\ Distinct(W) /\ Len(W) > Len(V) /\ ToSet(V) \subseteq ToSet(W) /\ q \in ToSet(W)
         /\ W # <<>> /\ W[1] = Root(V, q)
         /\ \A v \in ToSet(W) : v \notin ToSet(V) /\ v # q => Followed(v, waitOrders) \subseteq ToSet(W) \ {W[1]}
         /\ \A j \in 1..n : WaitsFor(q, Tries(q, waitOrders)[j][1], Tries(q, waitOrders)[j][2], waitOrders) =>
                              Tries(q, waitOrders)[j][1] \in ToSet(W) \ {W[1]}
    BY <1>9, <1>10 DEF Tried
  <1>12. W \in Seq(Proc) /\ Len(W) \in Nat
    <2>1. a \in Answer
      BY FollowAllTyped
    <2>2. W \in Seq(Proc)
      BY <1>10, <2>1 DEF Answer
    <2>. QED
      BY <2>2, ListFacts
  <1>13. Followed(q, waitOrders) \subseteq ToSet(W) \ {W[1]}
    BY <1>2, <1>11 DEF Followed
  <1>14. V # <<>> => q # V[1]
    <2>1. V # <<>> => 1 \in 1..Len(V)
      BY <1>6
    <2>. QED
      BY <2>1, ListFacts
  <1>15. Len(W) >= Len(V)
    BY <1>6, <1>11, <1>12
  <1>. QED
    BY <1>10, <1>11, <1>12, <1>13, <1>14, <1>15 DEF Searched

\* One level more.
LEMMA VisitSearched ==
  ASSUME DetectorTyped, NEW waitOrders, OrdersTyped(waitOrders), NEW visit \in VISIT,
         NEW k \in Nat, k # 0, SearchRight(visit, k - 1, waitOrders),
         NEW up, up = FindLockCycleRecurse(visit, waitOrders)
  PROVE  SearchRight(up, k, waitOrders)
  <1>. SUFFICES ASSUME NEW q \in Proc, NEW V \in Seq(Proc), Distinct(V), Len(V) + k > NProcs, ~up[<<q, V>>].found
                PROVE  Searched(V, up[<<q, V>>].visitedProcs, q, waitOrders)
    BY DEF SearchRight
  <1>1. PICK a : a = up[<<q, V>>]
    OBVIOUS
  <1>2. a = IF Contains(V, q)
            THEN [found |-> q = V[1], visitedProcs |-> V, softEdges |-> <<>>]
            ELSE FollowAll(visit, q, V, waitOrders)
    <2>1. PICK x : x = <<q, V>>
      OBVIOUS
    <2>2. x \in Proc \X Seq(Proc) /\ x[1] = q /\ x[2] = V
      BY <2>1
    <2>. QED
      BY <1>1, <2>1, <2>2 DEF FindLockCycleRecurse
  <1>3. Contains(V, q) <=> q \in ToSet(V)
    BY ListFacts
  <1>4. CASE q \in ToSet(V)
    <2>1. q # V[1] /\ a.visitedProcs = V
      <3>1. PICK e : e = (q = V[1])
        OBVIOUS
      <3>2. a = [found |-> e, visitedProcs |-> V, softEdges |-> <<>>]
        BY <1>2, <1>3, <1>4, <3>1
      <3>3. a.found = e /\ a.visitedProcs = V
        BY <3>2
      <3>. QED
        BY <1>1, <3>1, <3>3
    <2>2. Len(V) \in Nat /\ \E i \in 1..Len(V) : V[i] = q
      BY <1>4, ListFacts
    <2>3. V # <<>> /\ Len(V) >= Len(V)
      BY <2>2
    <2>4. Searched(V, V, q, waitOrders)
      BY <1>4, <2>1, <2>3 DEF Searched, Root
    <2>. QED
      BY <1>1, <2>1, <2>4
  <1>5. CASE q \notin ToSet(V)
    <2>1. a = FollowAll(visit, q, V, waitOrders) /\ ~a.found
      BY <1>1, <1>2, <1>3, <1>5
    <2>2. Searched(V, a.visitedProcs, q, waitOrders)
      BY <1>5, <2>1, FollowAllSearched
    <2>. QED
      BY <1>1, <2>2
  <1>. QED
    BY <1>4, <1>5

\* Those p waits for, directly or through others, do not wait for p.
Escapes(p, waitOrders) ==
  \E C \in SUBSET Proc : p \notin C /\ \A q \in C \cup {p} : BlockersIn(q, waitOrders) \subseteq C

\* If FindLockCycle finds no circle there is none.
LEMMA NoCycle ==
  ASSUME DetectorTyped, NEW waitOrders, OrdersTyped(waitOrders), NEW p \in Proc, ~FindLockCycle(p, waitOrders).found
  PROVE  Escapes(p, waitOrders)
  <1>1. PICK f : IsVisited(f, p, waitOrders)
    BY CycleLoop
  <1>2. PICK n : n = NProcs + 1
    OBVIOUS
  <1>3. n \in Nat /\ n \in 0..n /\ n > NProcs /\ 0 \in 0..n
    BY <1>2, LockTableAssumption
  <1>4. /\ f \in [0..n -> VISIT] /\ f[0] = NothingFound
        /\ \A i \in 1..n : f[i] = FindLockCycleRecurse(f[i - 1], waitOrders)
        /\ f[n][<<p, <<>>>>] = FindLockCycle(p, waitOrders)
    BY <1>1, <1>2 DEF IsVisited
  <1>. DEFINE T == {i \in 0..n : SearchRight(f[i], i, waitOrders)}
  <1>5. 0 \in T
    <2>1. \A V \in Seq(Proc) : Distinct(V) => ~(Len(V) + 0 > NProcs)
      BY ShortList, LockTableAssumption
    <2>2. SearchRight(f[0], 0, waitOrders)
      BY <2>1 DEF SearchRight
    <2>. QED
      BY <1>3, <2>2
  <1>6. ASSUME NEW i \in 1..n, i - 1 \in T
        PROVE  i \in T
    <2>1. i \in Nat /\ i # 0 /\ i \in 0..n /\ f[i - 1] \in VISIT /\ SearchRight(f[i - 1], i - 1, waitOrders)
      BY <1>3, <1>4, <1>6
    <2>2. f[i] = FindLockCycleRecurse(f[i - 1], waitOrders)
      BY <1>4
    <2>3. SearchRight(f[i], i, waitOrders)
      BY <2>1, <2>2, VisitSearched
    <2>. QED
      BY <2>1, <2>3
  <1>7. SearchRight(f[n], n, waitOrders)
    <2>1. \A i \in 0..n : i \in T
      <3>. HIDE DEF T
      <3>. QED
        BY <1>3, <1>5, <1>6, CountUp
    <2>. QED
      BY <1>3, <2>1
  <1>8. PICK e : e = <<>>
    OBVIOUS
  <1>9. PICK W : W = f[n][<<p, e>>].visitedProcs
    OBVIOUS
  <1>10. Searched(e, W, p, waitOrders)
    <2>1. e \in Seq(Proc) /\ Distinct(e) /\ Len(e) = 0
      BY <1>8 DEF Distinct
    <2>2. Len(e) + n > NProcs
      BY <1>3, <2>1
    <2>3. ~f[n][<<p, e>>].found
      BY <1>4, <1>8
    <2>. QED
      BY <1>7, <1>9, <2>1, <2>2, <2>3 DEF SearchRight
  <1>11. /\ W \in Seq(Proc) /\ p \in ToSet(W) /\ W[1] = p
         /\ \A v \in ToSet(W) : Followed(v, waitOrders) \subseteq ToSet(W) \ {p}
    <2>1. Root(e, p) = p /\ ToSet(e) = {}
      BY <1>8 DEF Root, ToSet
    <2>. QED
      BY <1>10, <2>1 DEF Searched
  <1>12. PICK C : C = ToSet(W) \ {p}
    OBVIOUS
  <1>13. C \in SUBSET Proc /\ p \notin C /\ C \cup {p} = ToSet(W)
    BY <1>11, <1>12, ListFacts
  <1>14. \A q \in C \cup {p} : BlockersIn(q, waitOrders) \subseteq C
    <2>1. \A q \in Proc : BlockersIn(q, waitOrders) \subseteq Followed(q, waitOrders)
      BY TriesRight
    <2>. QED
      BY <1>11, <1>12, <1>13, <2>1
  <1>. QED
    BY <1>13, <1>14 DEF Escapes

\* Of those who wait for each other some still do without p, if p is in no circle.
LEMMA StuckWithout ==
  ASSUME NEW p \in Proc, NEW waitOrders, Escapes(p, waitOrders), NEW S \in SUBSET Proc, StuckIn(S, waitOrders)
  PROVE  \E R \in SUBSET S : StuckIn(R, waitOrders) /\ p \notin R
  <1>1. CASE p \notin S
    BY <1>1
  <1>2. CASE p \in S
    <2>1. PICK C \in SUBSET Proc : p \notin C /\ \A q \in C \cup {p} : BlockersIn(q, waitOrders) \subseteq C
      BY DEF Escapes
    <2>2. S # {} /\ \A q \in S : BlockersIn(q, waitOrders) \cap S # {}
      BY DEF StuckIn
    <2>3. PICK R : R = S \cap C
      OBVIOUS
    <2>4. R # {}
      BY <1>2, <2>1, <2>2, <2>3
    <2>5. \A q \in R : BlockersIn(q, waitOrders) \cap R # {}
      BY <2>1, <2>2, <2>3
    <2>6. StuckIn(R, waitOrders) /\ p \notin R /\ R \in SUBSET S
      BY <2>1, <2>3, <2>4, <2>5 DEF StuckIn
    <2>. QED
      BY <2>6
  <1>. QED
    BY <1>1, <1>2

\* The processes from which the search starts: p and the waiters are among them.
LEMMA ToCheckRight ==
  ASSUME NEW p \in Proc, NEW constraints \in Seq(Edge)
  PROVE  /\ DOMAIN ToCheck(p, constraints) = 1..(2 * Len(constraints) + 1)
         /\ \A i \in 1..(2 * Len(constraints) + 1) : ToCheck(p, constraints)[i] \in Proc
         /\ \E i \in 1..(2 * Len(constraints) + 1) : ToCheck(p, constraints)[i] = p
         /\ \A j \in 1..Len(constraints) :
              \E i \in 1..(2 * Len(constraints) + 1) : ToCheck(p, constraints)[i] = constraints[j].waiter
  <1>1. PICK n \in Nat : n = Len(constraints)
    OBVIOUS
  <1>2. \A j \in 1..n : constraints[j].waiter \in Proc /\ constraints[j].blocker \in Proc
    <2>1. \A j \in 1..n : constraints[j] \in Edge
      BY <1>1
    <2>. QED
      BY <2>1 DEF Edge
  <1>3. PICK c : c = ToCheck(p, constraints)
    OBVIOUS
  <1>4. c = [i \in 1..(2 * n + 1) |->
               IF i > 2 * n THEN p
               ELSE IF i % 2 = 1 THEN constraints[(i + 1) \div 2].waiter ELSE constraints[i \div 2].blocker]
    BY <1>1, <1>3 DEF ToCheck
  <1>5. ASSUME NEW i \in 1..(2 * n + 1)
        PROVE  c[i] \in Proc
    <2>1. CASE i > 2 * n
      BY <1>4, <2>1
    <2>2. CASE i <= 2 * n /\ i % 2 = 1
      <3>1. (i + 1) \div 2 \in 1..n
        BY <2>2
      <3>2. c[i] = constraints[(i + 1) \div 2].waiter
        BY <1>4, <2>2
      <3>. QED
        BY <1>2, <3>1, <3>2
    <2>3. CASE i <= 2 * n /\ i % 2 # 1
      <3>1. i \div 2 \in 1..n
        BY <2>3
      <3>2. c[i] = constraints[i \div 2].blocker
        BY <1>4, <2>3
      <3>. QED
        BY <1>2, <3>1, <3>2
    <2>. QED
      BY <2>1, <2>2, <2>3
  <1>6. \E i \in 1..(2 * n + 1) : c[i] = p
    <2>1. 2 * n + 1 \in 1..(2 * n + 1) /\ 2 * n + 1 > 2 * n
      BY <1>1
    <2>. QED
      BY <1>4, <2>1
  <1>7. ASSUME NEW j \in 1..n
        PROVE  \E i \in 1..(2 * n + 1) : c[i] = constraints[j].waiter
    <2>1. PICK i : i = 2 * j - 1
      OBVIOUS
    <2>2. i \in 1..(2 * n + 1) /\ ~(i > 2 * n) /\ i % 2 = 1 /\ (i + 1) \div 2 = j
      BY <2>1
    <2>3. c[i] = constraints[j].waiter
      BY <1>4, <2>2
    <2>. QED
      BY <2>2, <2>3
  <1>. QED
    BY <1>1, <1>3, <1>4, <1>5, <1>6, <1>7

\* The constraints do not contradict each other, and with the queues in that order
\* neither p nor any of those moved forward is in a circle.
Good(constraints, p) ==
  /\ SelfConsistent(ExpandConstraints(constraints)) /\ Escapes(p, ExpandConstraints(constraints))
  /\ \A j \in 1..Len(constraints) : Escapes(constraints[j].waiter, ExpandConstraints(constraints))
TestRight(test, constraints, p) ==
  test.softEdges \in Seq(Edge) /\ (~test.hard /\ test.softEdges = <<>> => Good(constraints, p))

\* TestConfiguration gives edges, unless a configuration is hard or good.
LEMMA TestConfigurationRight ==
  ASSUME DetectorTyped, NEW p \in Proc, NEW constraints \in Seq(Edge), NEW nPossible
  PROVE  TestRight(TestConfiguration(p, constraints, nPossible), constraints, p)
  <1>1. PICK waitOrders : waitOrders = ExpandConstraints(constraints)
    OBVIOUS
  <1>2. OrdersTyped(waitOrders)
    <2>1. \A l \in Lock : waitOrders[l] = TopoSort(l, constraints)
      BY <1>1 DEF ExpandConstraints
    <2>2. \A l \in Lock : PartOf(TopoSort(l, constraints), lock[l].waitProcs)
      BY TopoSortPart DEF DetectorTyped
    <2>. QED
      BY <2>1, <2>2 DEF OrdersTyped, PartOf
  <1>3. PICK check : check = ToCheck(p, constraints)
    OBVIOUS
  <1>4. PICK cycles : cycles = [i \in DOMAIN check |-> FindLockCycle(check[i], waitOrders)]
    OBVIOUS
  <1>5. PICK n \in Nat : n = 2 * Len(constraints) + 1
    OBVIOUS
  <1>6. /\ DOMAIN cycles = 1..n /\ \A i \in 1..n : cycles[i] \in Answer
        /\ \A i \in 1..n : check[i] \in Proc /\ cycles[i] = FindLockCycle(check[i], waitOrders)
    <2>1. DOMAIN check = 1..n /\ \A i \in 1..n : check[i] \in Proc
      BY <1>3, <1>5, ToCheckRight
    <2>2. \A i \in 1..n : FindLockCycle(check[i], waitOrders) \in Answer
      BY <1>2, <2>1, FindLockCycleTyped
    <2>3. DOMAIN cycles = 1..n /\ \A i \in 1..n : cycles[i] = FindLockCycle(check[i], waitOrders)
      BY <1>4, <2>1
    <2>. QED
      BY <2>1, <2>2, <2>3
  <1>7. PICK found : found = {i \in DOMAIN cycles : cycles[i].found}
    OBVIOUS
  <1>8. TestConfiguration(p, constraints, nPossible) =
          [hard |-> \/ nPossible + NProcs > maxPossibleConstraints
                    \/ ~SelfConsistent(waitOrders)
                    \/ \E i \in found : cycles[i].softEdges = <<>>,
           softEdges |-> IF found = {} THEN <<>> ELSE cycles[Max(found)].softEdges]
    BY <1>1, <1>3, <1>4, <1>7 DEF TestConfiguration, CyclesFrom, Tested
  <1>9. PICK edges : edges = IF found = {} THEN <<>> ELSE cycles[Max(found)].softEdges
    OBVIOUS
  <1>10. edges \in Seq(Edge) /\ (found # {} => \E i \in found : edges = cycles[i].softEdges)
    <2>1. CASE found = {}
      BY <1>9, <2>1
    <2>2. CASE found # {}
      <3>1. Max(found) \in found
        BY <1>6, <1>7, <2>2, Largest
      <3>2. cycles[Max(found)] \in Answer
        BY <1>6, <1>7, <3>1
      <3>3. cycles[Max(found)].softEdges \in Seq(Edge)
        BY <3>2 DEF Answer
      <3>. QED
        BY <1>9, <2>2, <3>1, <3>3
    <2>. QED
      BY <2>1, <2>2
  <1>11. ASSUME SelfConsistent(waitOrders), found = {}
         PROVE  Good(constraints, p)
    <2>1. ASSUME NEW i \in 1..n
          PROVE  Escapes(check[i], waitOrders)
      <3>1. ~FindLockCycle(check[i], waitOrders).found
        BY <1>6, <1>7, <1>11
      <3>. QED
        BY <1>2, <1>6, <3>1, NoCycle
    <2>2. \E i \in 1..n : check[i] = p
      BY <1>3, <1>5, ToCheckRight
    <2>3. \A j \in 1..Len(constraints) : \E i \in 1..n : check[i] = constraints[j].waiter
      BY <1>3, <1>5, ToCheckRight
    <2>4. Escapes(p, waitOrders)
      BY <2>1, <2>2
    <2>5. \A j \in 1..Len(constraints) : Escapes(constraints[j].waiter, waitOrders)
      BY <2>1, <2>3
    <2>. QED
      BY <1>1, <1>11, <2>4, <2>5 DEF Good
  <1>12. PICK test : test = TestConfiguration(p, constraints, nPossible)
    OBVIOUS
  <1>13. test.softEdges = edges /\ (~test.hard => SelfConsistent(waitOrders) /\ ~\E i \in found : cycles[i].softEdges = <<>>)
    BY <1>8, <1>9, <1>12
  <1>14. TestRight(test, constraints, p)
    BY <1>10, <1>11, <1>13 DEF TestRight
  <1>. QED
    BY <1>12, <1>14

\* A verdict that is not a deadlock has good constraints.
VERDICT(p) == {v \in [deadlock : BOOLEAN, constraints : Seq(Edge)] : v.deadlock \/ Good(v.constraints, p)}
CHECK(p) == [Seq(Edge) \X Nat -> VERDICT(p)]

\* The verdict with curConstraints, whatever is found one level deeper.
LEMMA DeadLockCheckWithRight ==
  ASSUME DetectorTyped, NEW p \in Proc, NEW cur \in Seq(Edge), NEW nPossible \in Nat, NEW check, NEW full,
         full \/ check \in CHECK(p)
  PROVE  DeadLockCheckWith(check, full, p, cur, nPossible) \in VERDICT(p)
  <1>1. PICK test : test = TestConfiguration(p, cur, nPossible)
    OBVIOUS
  <1>2. test.softEdges \in Seq(Edge) /\ (~test.hard /\ test.softEdges = <<>> => Good(cur, p))
    BY <1>1, TestConfigurationRight DEF TestRight
  <1>3. PICK saved : saved = nPossible + Len(test.softEdges)
    OBVIOUS
  <1>4. PICK room : room = IF saved + NProcs <= maxPossibleConstraints THEN saved ELSE nPossible
    OBVIOUS
  <1>5. room \in Nat
    BY <1>2, <1>3, <1>4
  <1>6. PICK with : with = [i \in DOMAIN test.softEdges |-> check[<<Append(cur, test.softEdges[i]), room>>]]
    OBVIOUS
  <1>7. PICK good : good = {i \in DOMAIN with : ~with[i].deadlock}
    OBVIOUS
  <1>8. DeadLockCheckWith(check, full, p, cur, nPossible) =
          IF test.hard THEN [deadlock |-> TRUE, constraints |-> <<>>]
          ELSE IF test.softEdges = <<>> THEN [deadlock |-> FALSE, constraints |-> cur]
          ELSE IF full \/ good = {} THEN [deadlock |-> TRUE, constraints |-> <<>>]
          ELSE with[Min(good)]
    BY <1>1, <1>3, <1>4, <1>6, <1>7 DEF DeadLockCheckWith, Deeper, Verdict
  <1>9. [deadlock |-> TRUE, constraints |-> <<>>] \in VERDICT(p)
    <2>1. PICK v : v = [deadlock |-> TRUE, constraints |-> <<>>]
      OBVIOUS
    <2>2. v \in [deadlock : BOOLEAN, constraints : Seq(Edge)] /\ v.deadlock
      BY <2>1
    <2>. QED
      BY <2>1, <2>2 DEF VERDICT
  <1>10. ~test.hard /\ test.softEdges = <<>> => [deadlock |-> FALSE, constraints |-> cur] \in VERDICT(p)
    <2>1. PICK v : v = [deadlock |-> FALSE, constraints |-> cur]
      OBVIOUS
    <2>2. v \in [deadlock : BOOLEAN, constraints : Seq(Edge)] /\ v.constraints = cur
      BY <2>1
    <2>. QED
      BY <1>2, <2>1, <2>2 DEF VERDICT
  <1>11. ASSUME ~full, good # {}
         PROVE  with[Min(good)] \in VERDICT(p)
    <2>1. DOMAIN with = 1..Len(test.softEdges) /\ Len(test.softEdges) \in Nat
      BY <1>2, <1>6
    <2>2. good \in SUBSET Nat /\ good \subseteq 1..Len(test.softEdges)
      BY <1>7, <2>1
    <2>3. Min(good) \in 1..Len(test.softEdges)
      BY <1>11, <2>2, LeastIn
    <2>4. ASSUME NEW i \in 1..Len(test.softEdges)
          PROVE  with[i] \in VERDICT(p)
      <3>1. test.softEdges[i] \in Edge
        BY <1>2
      <3>2. Append(cur, test.softEdges[i]) \in Seq(Edge)
        BY <3>1
      <3>3. <<Append(cur, test.softEdges[i]), room>> \in Seq(Edge) \X Nat
        BY <1>5, <3>2
      <3>4. check[<<Append(cur, test.softEdges[i]), room>>] \in VERDICT(p)
        BY <1>11, <3>3 DEF CHECK
      <3>5. with[i] = check[<<Append(cur, test.softEdges[i]), room>>]
        BY <1>6, <2>1
      <3>. QED
        BY <3>4, <3>5
    <2>. QED
      BY <2>3, <2>4
  <1>12. CASE test.hard
    BY <1>8, <1>9, <1>12
  <1>13. CASE ~test.hard /\ test.softEdges = <<>>
    BY <1>8, <1>10, <1>13
  <1>14. CASE ~test.hard /\ test.softEdges # <<>> /\ (full \/ good = {})
    BY <1>8, <1>9, <1>14
  <1>15. CASE ~test.hard /\ test.softEdges # <<>> /\ ~(full \/ good = {})
    BY <1>8, <1>11, <1>15
  <1>. QED
    BY <1>12, <1>13, <1>14, <1>15

\* The detector begins without constraints.
Begins(p, verdict) == \E check, full : verdict = DeadLockCheckWith(check, full, p, <<>>, 0)

\* The detector's verdict.
LEMMA DeadLockCheckRight ==
  ASSUME DetectorTyped, NEW p \in Proc
  PROVE  DeadLockCheckRecurse(p) \in VERDICT(p) /\ Begins(p, DeadLockCheckRecurse(p))
  <1>. DEFINE n == maxCurConstraints
              S == CHECK(p)
              turn(k, c) == [x \in Seq(Edge) \X Nat |->
                               DeadLockCheckWith(IF k = 0 THEN <<>> ELSE c, k = 0, p, x[1], x[2])]
              check[k \in 0..n] ==
                [x \in Seq(Edge) \X Nat |->
                   DeadLockCheckWith(IF k = 0 THEN <<>> ELSE check[k - 1], k = 0, p, x[1], x[2])]
              G == [k \in 1..n |-> [s \in S |-> turn(k, s)]]
              a == turn(0, <<>>)
  <1>2. DeadLockCheckRecurse(p) = check[n][<<<<>>, 0>>]
    BY DEF DeadLockCheckRecurse
  <1>3. n \in Nat
    BY LockTableAssumption DEF maxCurConstraints
  <1>4. ASSUME NEW c, NEW k, k = 0 \/ c \in S
        PROVE  turn(k, c) \in S
    <2>1. ASSUME NEW x \in Seq(Edge) \X Nat
          PROVE  DeadLockCheckWith(IF k = 0 THEN <<>> ELSE c, k = 0, p, x[1], x[2]) \in VERDICT(p)
      <3>1. x[1] \in Seq(Edge) /\ x[2] \in Nat
        OBVIOUS
      <3>2. PICK full : full = (k = 0)
        OBVIOUS
      <3>3. PICK c2 : c2 = IF k = 0 THEN <<>> ELSE c
        OBVIOUS
      <3>4. full \/ c2 \in CHECK(p)
        BY <1>4, <3>2, <3>3
      <3>5. DeadLockCheckWith(c2, full, p, x[1], x[2]) \in VERDICT(p)
        BY <3>1, <3>4, DeadLockCheckWithRight
      <3>. QED
        BY <3>2, <3>3, <3>5
    <2>. QED
      BY <2>1 DEF CHECK
  <1>5. a \in S
    BY <1>4
  <1>6. \A k \in 1..n : \A s \in S : turn(k, s) \in S
    BY <1>4
  <1>. HIDE DEF n, S, turn
  <1>7. IsLoop(G, n, S)
    <2>1. \A k \in 1..n : [s \in S |-> turn(k, s)] \in [S -> S]
      BY <1>6
    <2>. QED
      BY <2>1 DEF IsLoop
  <1>8. \A i \in 1..n : \A s \in S : G[i][s] = turn(i, s)
    OBVIOUS
  <1>9. check = CHOOSE f : f = [k \in 0..n |-> turn(k, f[k - 1])]
    BY DEF turn
  <1>. HIDE DEF G, a, check
  <1>10. PICK f \in [0..n -> S] : f[0] = a /\ \A i \in 1..n : f[i] = G[i][f[i - 1]]
    <2>1. PICK f : IsRun(f, G, n, a, S)
      BY <1>3, <1>5, <1>7, Loop, Zenon
    <2>. QED
      BY <2>1 DEF IsRun
  <1>11. \A i \in 0..n : i # 0 => i \in 1..n /\ i - 1 \in 0..n
    BY <1>3
  <1>12. \A c : turn(0, c) = a
    BY DEF turn, a
  <1>13. \A i \in 0..n : f[i] = turn(i, f[i - 1])
    BY <1>8, <1>10, <1>11, <1>12
  <1>14. f = [i \in 0..n |-> turn(i, f[i - 1])]
    BY <1>10, <1>13
  <1>15. check = [i \in 0..n |-> turn(i, check[i - 1])]
    BY <1>9, <1>14
  <1>16. \A i \in 0..n : check[i] = turn(i, check[i - 1])
    BY <1>15
  <1>. DEFINE T == {i \in 0..n : check[i] \in S}
  <1>17. 0 \in T
    BY <1>3, <1>5, <1>12, <1>16
  <1>18. \A i \in 1..n : i - 1 \in T => i \in T
    <2>1. \A i \in 1..n : i \in 0..n
      BY <1>3
    <2>. QED
      BY <1>6, <1>16, <2>1
  <1>19. check[n] \in S
    <2>1. \A i \in 0..n : i \in T
      <3>. HIDE DEF T
      <3>. QED
        BY <1>3, <1>17, <1>18, CountUp
    <2>2. n \in 0..n
      BY <1>3
    <2>. QED
      BY <2>1, <2>2
  <1>20. <<<<>>, 0>> \in Seq(Edge) \X Nat
    <2>1. PICK e : e = <<>>
      OBVIOUS
    <2>2. e \in Seq(Edge)
      BY <2>1
    <2>3. <<e, 0>> \in Seq(Edge) \X Nat
      BY <2>2
    <2>. QED
      BY <2>1, <2>3
  <1>21. Begins(p, check[n][<<<<>>, 0>>])
    <2>1. PICK x : x = <<<<>>, 0>>
      OBVIOUS
    <2>2. x \in Seq(Edge) \X Nat /\ x[1] = <<>> /\ x[2] = 0
      BY <1>20, <2>1
    <2>3. PICK c : c = check[n - 1]
      OBVIOUS
    <2>4. check[n] = turn(n, c)
      BY <1>3, <1>16, <2>3
    <2>5. check[n][x] = DeadLockCheckWith(IF n = 0 THEN <<>> ELSE c, n = 0, p, <<>>, 0)
      BY <2>2, <2>4 DEF turn
    <2>6. PICK with : with = IF n = 0 THEN <<>> ELSE c
      OBVIOUS
    <2>7. PICK full : full = (n = 0)
      OBVIOUS
    <2>8. check[n][x] = DeadLockCheckWith(with, full, p, <<>>, 0)
      BY <2>5, <2>6, <2>7
    <2>. QED
      BY <2>1, <2>8 DEF Begins
  <1>. QED
    BY <1>2, <1>19, <1>20, <1>21 DEF S, CHECK

\* With constraints that do not contradict each other every queue is a new order of the
\* same waiters, who are then looked at.
LEMMA RearrangedRight ==
  ASSUME NEW constraints, SelfConsistent(ExpandConstraints(constraints)),
         \A l \in Lock : LockRight(lock[l], WaitMode) /\ AllBlocked(lock[l], WaitMode),
         NEW l \in Lock, NEW r, r = Rearranged(constraints)[l]
  PROVE  Settled(lock[l], r, 0, {}) /\ r.releaseMask = lock[l].releaseMask
  <1>1. PICK queue : queue = TopoSort(l, constraints)
    OBVIOUS
  <1>2. PICK lk : lk = lock[l]
    OBVIOUS
  <1>3. /\ LockRight(lk, WaitMode) /\ AllBlocked(lk, WaitMode) /\ lk.waitProcs \in Seq(Proc) /\ Distinct(lk.waitProcs)
    BY <1>2, LockFacts DEF LockRight, CountsRight
  <1>4. PartOf(queue, lk.waitProcs) /\ Len(queue) = Len(lk.waitProcs)
    <2>1. Len(ExpandConstraints(constraints)[l]) = Len(lock[l].waitProcs)
      BY DEF SelfConsistent
    <2>2. ExpandConstraints(constraints)[l] = queue
      BY <1>1 DEF ExpandConstraints
    <2>. QED
      BY <1>1, <1>2, <1>3, <2>1, <2>2, TopoSortPart
  <1>5. ToSet(queue) = ToSet(lk.waitProcs) /\ queue \in Seq(Proc) /\ Distinct(queue)
    BY <1>3, <1>4, AllPlaced DEF PartOf
  <1>6. r = IF \E e \in ToSet(constraints) : proc[e.waiter].waitLock = l
            THEN ProcLockWakeup([lk EXCEPT !.waitProcs = queue]) ELSE lk
    BY <1>1, <1>2 DEF Rearranged
  <1>7. CASE \E e \in ToSet(constraints) : proc[e.waiter].waitLock = l
    BY <1>2, <1>3, <1>5, <1>6, <1>7, RearrangeRight
  <1>8. CASE ~\E e \in ToSet(constraints) : proc[e.waiter].waitLock = l
    <2>1. r = lk
      BY <1>6, <1>8
    <2>2. Settled(lk, lk, 0, {})
      BY <1>3 DEF Settled
    <2>. QED
      BY <1>2, <2>1, <2>2
  <1>. QED
    BY <1>7, <1>8

\* The new order of a queue has the same waiters, and differs from the old one in that
\* waiters of constraints come before others.
LEMMA NewOrder ==
  ASSUME NEW constraints, SelfConsistent(ExpandConstraints(constraints)), NEW l \in Lock, LockRight(lock[l], WaitMode),
         NEW queue, queue = ExpandConstraints(constraints)[l]
  PROVE  /\ queue = TopoSort(l, constraints) /\ queue \in Seq(Proc) /\ Distinct(queue)
         /\ ToSet(queue) = ToSet(lock[l].waitProcs)
         /\ lock[l].waitProcs \in Seq(Proc) /\ Distinct(lock[l].waitProcs)
         /\ InOrder(queue, lock[l].waitProcs, constraints)
  <1>1. queue = TopoSort(l, constraints)
    BY DEF ExpandConstraints
  <1>2. lock[l].waitProcs \in Seq(Proc) /\ Distinct(lock[l].waitProcs)
    BY LockFacts DEF LockRight, CountsRight
  <1>3. PartOf(queue, lock[l].waitProcs) /\ InOrder(queue, lock[l].waitProcs, constraints)
    BY <1>1, <1>2, TopoSortPart
  <1>4. Len(queue) = Len(lock[l].waitProcs)
    BY DEF SelfConsistent
  <1>5. ToSet(queue) = ToSet(lock[l].waitProcs)
    BY <1>2, <1>3, <1>4, AllPlaced
  <1>. QED
    BY <1>1, <1>2, <1>3, <1>5 DEF PartOf

\* Who is not the waiter of a constraint is before nobody it was not before.
LEMMA OrderBefore ==
  ASSUME NEW constraints, SelfConsistent(ExpandConstraints(constraints)), NEW l \in Lock, LockRight(lock[l], WaitMode),
         NEW x \in Proc, NEW y \in Proc, IsBefore(x, y, ExpandConstraints(constraints)[l]), ~MayOvertake(x, constraints)
  PROVE  IsBefore(x, y, lock[l].waitProcs)
  <1>1. PICK queue : queue = ExpandConstraints(constraints)[l]
    OBVIOUS
  <1>2. /\ queue \in Seq(Proc) /\ Distinct(queue) /\ ToSet(queue) = ToSet(lock[l].waitProcs)
        /\ lock[l].waitProcs \in Seq(Proc) /\ Distinct(lock[l].waitProcs) /\ InOrder(queue, lock[l].waitProcs, constraints)
    BY <1>1, NewOrder
  <1>3. IsBefore(x, y, queue)
    BY <1>1
  <1>4. x \in ToSet(queue) /\ y \in ToSet(queue) /\ x # y
    BY <1>2, <1>3, OrderFacts
  <1>5. ~IsBefore(y, x, lock[l].waitProcs)
    BY <1>2, <1>3 DEF InOrder, Overtaken
  <1>. QED
    BY <1>2, <1>4, <1>5, OrderFacts

\* The queues after DeadLockCheck are in the order that the constraints stand for.
LEMMA OrderAfter ==
  ASSUME NEW constraints, SelfConsistent(ExpandConstraints(constraints)), NEW l \in Lock, LockRight(lock[l], WaitMode),
         \A q \in Proc : Waits(lock[l], q) => proc[q].waitLock = l,
         NEW r, r = Rearranged(constraints)[l], LockRight(r, WaitMode), \A q \in Proc : Waits(r, q) => Waits(lock[l], q),
         NEW x \in Proc, NEW y \in Proc, IsBefore(x, y, r.waitProcs)
  PROVE  IsBefore(x, y, ExpandConstraints(constraints)[l])
  <1>1. PICK queue : queue = ExpandConstraints(constraints)[l]
    OBVIOUS
  <1>2. /\ queue = TopoSort(l, constraints) /\ queue \in Seq(Proc) /\ Distinct(queue) /\ ToSet(queue) = ToSet(lock[l].waitProcs)
        /\ lock[l].waitProcs \in Seq(Proc) /\ Distinct(lock[l].waitProcs) /\ InOrder(queue, lock[l].waitProcs, constraints)
    BY <1>1, NewOrder
  <1>3. r.waitProcs \in Seq(Proc) /\ Distinct(r.waitProcs)
    BY LockFacts DEF LockRight, CountsRight
  <1>4. Waits(r, x) /\ Waits(r, y) /\ x # y
    BY <1>3, OrderFacts DEF Waits
  <1>5. x \in ToSet(queue) /\ y \in ToSet(queue)
    BY <1>2, <1>4 DEF Waits
  <1>6. PICK lk : lk = lock[l]
    OBVIOUS
  <1>7. r = IF \E e \in ToSet(constraints) : proc[e.waiter].waitLock = l
            THEN ProcLockWakeup([lk EXCEPT !.waitProcs = queue]) ELSE lk
    BY <1>2, <1>6 DEF Rearranged
  <1>8. CASE \E e \in ToSet(constraints) : proc[e.waiter].waitLock = l
    <2>1. r = ProcLockWakeup([lk EXCEPT !.waitProcs = queue]) /\ LockRight(lk, WaitMode) /\ ToSet(queue) = ToSet(lk.waitProcs)
      BY <1>2, <1>6, <1>7, <1>8
    <2>2. QueueKept(queue, r)
      BY <1>2, <2>1, RearrangeRight
    <2>3. IsBefore(x, y, queue)
      BY <1>2, <1>3, <1>5, <2>2, OrderKept
    <2>. QED
      BY <1>1, <2>3
  <1>9. CASE ~\E e \in ToSet(constraints) : proc[e.waiter].waitLock = l
    <2>1. IsBefore(x, y, lock[l].waitProcs)
      BY <1>6, <1>7, <1>9
    <2>2. ~MayOvertake(y, constraints)
      BY <1>4, <1>9 DEF MayOvertake
    <2>3. ~IsBefore(y, x, queue)
      BY <1>2, <2>1, <2>2 DEF InOrder, Overtaken
    <2>. QED
      BY <1>1, <1>2, <1>4, <1>5, <2>3, OrderFacts
  <1>. QED
    BY <1>8, <1>9

\* If there is a circle with the queues in the order of good constraints there is one
\* without p and without constraints.
LEMMA StuckAnyway ==
  ASSUME DetectorTyped, \A l \in Lock : LockRight(lock[l], WaitMode), NEW p \in Proc, NEW constraints \in Seq(Edge),
         Good(constraints, p), NEW S \in SUBSET Proc, StuckIn(S, ExpandConstraints(constraints))
  PROVE  \E R \in SUBSET S : Stuck(R) /\ p \notin R
  <1>1. PICK orders : orders = ExpandConstraints(constraints)
    OBVIOUS
  <1>2. PICK n \in Nat : n = Len(constraints)
    OBVIOUS
  <1>3. /\ SelfConsistent(orders) /\ Escapes(p, orders)
        /\ \A j \in 1..n : constraints[j].waiter \in Proc /\ Escapes(constraints[j].waiter, orders)
    <2>1. \A j \in 1..n : constraints[j] \in Edge
      BY <1>2
    <2>. QED
      BY <1>1, <1>2, <2>1 DEF Good, Edge
  <1>. DEFINE Left2(R, i) == StuckIn(R, orders) /\ p \notin R /\ \A j \in 1..i : constraints[j].waiter \notin R
              T == {i \in 0..n : \E R \in SUBSET S : Left2(R, i)}
  <1>4. 0 \in T
    <2>1. StuckIn(S, orders)
      BY <1>1
    <2>2. PICK R \in SUBSET S : StuckIn(R, orders) /\ p \notin R
      BY <1>3, <2>1, StuckWithout
    <2>3. Left2(R, 0)
      BY <2>2
    <2>. HIDE DEF Left2
    <2>. QED
      BY <1>2, <2>3
  <1>5. ASSUME NEW i \in 1..n, i - 1 \in T
        PROVE  i \in T
    <2>1. PICK R \in SUBSET S : Left2(R, i - 1)
      BY <1>5
    <2>2. PICK w : w = constraints[i].waiter
      OBVIOUS
    <2>3. R \in SUBSET Proc /\ StuckIn(R, orders) /\ w \in Proc /\ Escapes(w, orders)
      BY <1>3, <2>1, <2>2
    <2>4. PICK Q \in SUBSET R : StuckIn(Q, orders) /\ w \notin Q
      BY <2>3, StuckWithout
    <2>5. \A j \in 1..i : j = i \/ j \in 1..(i - 1)
      OBVIOUS
    <2>6. Left2(Q, i)
      BY <2>1, <2>2, <2>4, <2>5
    <2>7. Q \in SUBSET S /\ i \in 0..n
      BY <1>2
    <2>. HIDE DEF Left2
    <2>. QED
      BY <2>6, <2>7
  <1>6. PICK R \in SUBSET S : Left2(R, n)
    <2>1. \A i \in 0..n : i \in T
      <3>. HIDE DEF T
      <3>. QED
        BY <1>4, <1>5, CountUp
    <2>2. n \in T
      BY <2>1
    <2>. QED
      BY <2>2
  <1>7. ASSUME NEW x \in R
        PROVE  ~MayOvertake(x, constraints)
    <2>1. \A e \in ToSet(constraints) : \E j \in 1..n : e = constraints[j]
      BY <1>2 DEF ToSet
    <2>. QED
      BY <1>6, <2>1 DEF MayOvertake
  <1>8. ASSUME NEW q \in R
        PROVE  BlockersIn(q, Queues) \cap R # {}
    <2>1. PICK r \in R : r \in BlockersIn(q, orders)
      BY <1>6 DEF StuckIn
    <2>2. PICK l : l = proc[q].waitLock
      OBVIOUS
    <2>3. PICK conflicts : conflicts = conflictTab(proc[q].waitLockMode)
      OBVIOUS
    <2>4. /\ r \in Proc /\ q \in Proc /\ l # NULL /\ r # q
          /\ \/ lock[l].holdMask[r] \cap conflicts # {}
             \/ IsBefore(r, q, orders[l]) /\ proc[r].waitLockMode \in conflicts
      BY <2>1, <2>2, <2>3 DEF BlockersIn, IsBefore
    <2>5. l \in Lock
      BY <2>2, <2>4 DEF DetectorTyped
    <2>6. IsBefore(r, q, orders[l]) => IsBefore(r, q, lock[l].waitProcs)
      <3>1. ~MayOvertake(r, constraints)
        BY <1>7
      <3>. QED
        BY <1>1, <1>3, <2>4, <2>5, <3>1, OrderBefore
    <2>7. Queues[l] = lock[l].waitProcs
      BY <2>5 DEF Queues
    <2>8. \/ lock[l].holdMask[r] \cap conflicts # {}
          \/ IsBefore(r, q, Queues[l]) /\ proc[r].waitLockMode \in conflicts
      BY <2>4, <2>6, <2>7
    <2>9. r \in BlockersIn(q, Queues)
      BY <2>2, <2>3, <2>4, <2>8 DEF BlockersIn, IsBefore
    <2>. QED
      BY <2>9
  <1>9. R # {}
    BY <1>6 DEF StuckIn
  <1>10. Stuck(R)
    BY <1>8, <1>9 DEF Stuck, StuckIn
  <1>. QED
    BY <1>6, <1>10

\* Whoever is followed is a blocker.
LEMMA FollowedBlocks ==
  ASSUME DetectorTyped, NEW waitOrders, OrdersTyped(waitOrders), \A l \in Lock : Distinct(waitOrders[l]),
         NEW q \in Proc, NEW r \in Proc, NEW i \in 1..Len(Tries(q, waitOrders)), Tries(q, waitOrders)[i][1] = r,
         WaitsFor(q, r, Tries(q, waitOrders)[i][2], waitOrders)
  PROVE  r \in BlockersIn(q, waitOrders)
  <1>1. PICK l : l = proc[q].waitLock
    OBVIOUS
  <1>2. l # NULL
    <2>1. SUFFICES ASSUME l = NULL
                   PROVE  FALSE
      OBVIOUS
    <2>2. Tries(q, waitOrders) = <<>>
      BY <1>1, <2>1 DEF Tries
    <2>3. 1..Len(<<>>) = {}
      OBVIOUS
    <2>. QED
      BY <2>2, <2>3
  <1>3. l \in Lock
    BY <1>1, <1>2 DEF DetectorTyped
  <1>4. waitOrders[l] \in Seq(Proc) /\ Distinct(waitOrders[l])
    BY <1>3 DEF OrdersTyped
  <1>5. PICK conflicts : conflicts = conflictTab(proc[q].waitLockMode)
    OBVIOUS
  <1>6. \/ r # q /\ lock[l].holdMask[r] \cap conflicts # {}
        \/ IsBefore(r, q, waitOrders[l]) /\ proc[r].waitLockMode \in conflicts
    BY <1>1, <1>5 DEF WaitsFor
  <1>7. IsBefore(r, q, waitOrders[l]) => r # q
    <2>1. PICK b : b = waitOrders[l]
      OBVIOUS
    <2>2. b \in Seq(Proc) /\ Distinct(b) /\ DOMAIN b = 1..Len(b) /\ Len(b) \in Nat
      BY <1>4, <2>1, ListFacts
    <2>3. ASSUME NEW i1 \in DOMAIN b, NEW j1 \in DOMAIN b, i1 < j1, b[i1] = r, b[j1] = q
          PROVE  r # q
      BY <2>2, <2>3 DEF Distinct
    <2>. QED
      BY <2>1, <2>3 DEF IsBefore
  <1>. QED
    BY <1>1, <1>2, <1>5, <1>6, <1>7 DEF BlockersIn, IsBefore

\* C has everybody that somebody in C waits for, and not p.
ClosedWithout(C, p, waitOrders) ==
  C \in SUBSET Proc /\ p \notin C /\ \A q \in C : BlockersIn(q, waitOrders) \subseteq C

\* No circle is found that leads back to p, and the search remembers that it began at p.
Quiet(s, p) == ~s.found /\ s.visitedProcs # <<>> /\ s.visitedProcs[1] = p
Stays(visit, C, p) ==
  \A q \in C, V \in Seq(Proc) : V # <<>> /\ V[1] = p => Quiet(visit[<<q, V>>], p)

\* One turn.
LEMMA TurnStays ==
  ASSUME NEW visit \in VISIT, NEW waitOrders, NEW C, NEW p \in Proc, C \in SUBSET Proc, Stays(visit, C, p),
         NEW s \in Answer, Quiet(s, p), NEW q \in Proc, NEW r \in Proc, NEW soft,
         WaitsFor(q, r, soft, waitOrders) => r \in C,
         NEW t, t = Follow(visit, s, q, r, soft, waitOrders)
  PROVE  Quiet(t, p)
  <1>1. CASE ~WaitsFor(q, r, soft, waitOrders)
    BY <1>1 DEF Follow
  <1>2. CASE WaitsFor(q, r, soft, waitOrders)
    <2>1. PICK U : U = s.visitedProcs
      OBVIOUS
    <2>2. U \in Seq(Proc) /\ U # <<>> /\ U[1] = p
      BY <2>1 DEF Answer, Quiet
    <2>3. PICK v : v = visit[<<r, U>>]
      OBVIOUS
    <2>4. Quiet(v, p)
      BY <1>2, <2>2, <2>3 DEF Stays
    <2>5. t = v
      BY <1>2, <2>1, <2>3, <2>4 DEF Follow, Quiet
    <2>. QED
      BY <2>4, <2>5
  <1>. QED
    BY <1>1, <1>2

\* The loops at q, if all its blockers are in C.
LEMMA FollowAllStays ==
  ASSUME DetectorTyped, NEW waitOrders, OrdersTyped(waitOrders), \A l \in Lock : Distinct(waitOrders[l]),
         NEW visit \in VISIT, NEW C, NEW p \in Proc, C \in SUBSET Proc, Stays(visit, C, p),
         NEW q \in Proc, BlockersIn(q, waitOrders) \subseteq C, NEW V \in Seq(Proc), Root(V, q) = p,
         NEW a, a = FollowAll(visit, q, V, waitOrders)
  PROVE  Quiet(a, p)
  <1>1. PICK f : IsFollowed(f, visit, q, V, waitOrders)
    BY FollowLoop
  <1>2. PICK n : n = Len(Tries(q, waitOrders))
    OBVIOUS
  <1>3. /\ n \in Nat /\ f \in [0..n -> Answer] /\ \A i \in 1..n : Tries(q, waitOrders)[i][1] \in Proc
        /\ f[0] = [found |-> FALSE, visitedProcs |-> Append(V, q), softEdges |-> <<>>]
        /\ \A i \in 1..n : f[i] = Follow(visit, f[i - 1], q, Tries(q, waitOrders)[i][1], Tries(q, waitOrders)[i][2], waitOrders)
        /\ f[n] = a
    BY <1>1, <1>2 DEF IsFollowed
  <1>4. PICK U : U = Append(V, q)
    OBVIOUS
  <1>5. U # <<>> /\ U[1] = p
    <2>1. Len(V) \in Nat /\ Len(U) = Len(V) + 1 /\ U[Len(V) + 1] = q
      BY <1>4
    <2>2. CASE V = <<>>
      BY <2>1, <2>2 DEF Root
    <2>3. CASE V # <<>>
      <3>1. 1 \in 1..Len(V)
        BY <2>1, <2>3
      <3>2. U[1] = V[1]
        BY <1>4, <3>1
      <3>. QED
        BY <2>1, <2>3, <3>2 DEF Root
    <2>. QED
      BY <2>2, <2>3
  <1>. DEFINE T == {i \in 0..n : Quiet(f[i], p)}
  <1>6. 0 \in T
    <2>1. f[0].visitedProcs = U /\ ~f[0].found /\ 0 \in 0..n
      BY <1>3, <1>4
    <2>. QED
      BY <1>5, <2>1 DEF Quiet
  <1>7. ASSUME NEW i \in 1..n, i - 1 \in T
        PROVE  i \in T
    <2>1. i \in 0..n /\ f[i - 1] \in Answer /\ Quiet(f[i - 1], p)
      BY <1>3, <1>7
    <2>2. PICK s : s = f[i - 1]
      OBVIOUS
    <2>3. PICK r : r = Tries(q, waitOrders)[i][1]
      OBVIOUS
    <2>4. PICK soft : soft = Tries(q, waitOrders)[i][2]
      OBVIOUS
    <2>5. PICK t : t = f[i]
      OBVIOUS
    <2>6. r \in Proc /\ t = Follow(visit, s, q, r, soft, waitOrders) /\ s \in Answer /\ Quiet(s, p)
      BY <1>3, <2>1, <2>2, <2>3, <2>4, <2>5
    <2>7. WaitsFor(q, r, soft, waitOrders) => r \in C
      <3>1. i \in 1..Len(Tries(q, waitOrders)) /\ Tries(q, waitOrders)[i][1] = r
        BY <1>2, <2>3
      <3>2. WaitsFor(q, r, soft, waitOrders) => WaitsFor(q, r, Tries(q, waitOrders)[i][2], waitOrders)
        BY <2>4
      <3>. QED
        BY <2>6, <3>1, <3>2, FollowedBlocks
    <2>8. Quiet(t, p)
      BY <2>6, <2>7, TurnStays
    <2>. QED
      BY <2>1, <2>5, <2>8
  <1>8. \A i \in 0..n : i \in T
    <2>. HIDE DEF T
    <2>. QED
      BY <1>3, <1>6, <1>7, CountUp
  <1>9. n \in 0..n
    BY <1>3
  <1>. QED
    BY <1>3, <1>8, <1>9

\* One level more.
LEMMA VisitStays ==
  ASSUME DetectorTyped, NEW waitOrders, OrdersTyped(waitOrders), \A l \in Lock : Distinct(waitOrders[l]),
         NEW visit \in VISIT, NEW C, NEW p \in Proc, ClosedWithout(C, p, waitOrders), Stays(visit, C, p),
         NEW up, up = FindLockCycleRecurse(visit, waitOrders)
  PROVE  Stays(up, C, p)
  <1>. SUFFICES ASSUME NEW q \in C, NEW V \in Seq(Proc), V # <<>>, V[1] = p
                PROVE  Quiet(up[<<q, V>>], p)
    BY DEF Stays
  <1>0. q \in Proc /\ q # p /\ BlockersIn(q, waitOrders) \subseteq C /\ C \in SUBSET Proc
    BY DEF ClosedWithout
  <1>1. PICK a : a = up[<<q, V>>]
    OBVIOUS
  <1>2. a = IF Contains(V, q)
            THEN [found |-> q = V[1], visitedProcs |-> V, softEdges |-> <<>>]
            ELSE FollowAll(visit, q, V, waitOrders)
    <2>1. PICK x : x = <<q, V>>
      OBVIOUS
    <2>2. x \in Proc \X Seq(Proc) /\ x[1] = q /\ x[2] = V
      BY <1>0, <2>1
    <2>. QED
      BY <1>1, <2>1, <2>2 DEF FindLockCycleRecurse
  <1>3. CASE Contains(V, q)
    <2>1. PICK e : e = (q = V[1])
      OBVIOUS
    <2>2. a = [found |-> e, visitedProcs |-> V, softEdges |-> <<>>]
      BY <1>2, <1>3, <2>1
    <2>3. a.found = e /\ a.visitedProcs = V
      BY <2>2
    <2>4. ~e
      BY <1>0, <2>1
    <2>. QED
      BY <1>1, <2>3, <2>4 DEF Quiet
  <1>4. CASE ~Contains(V, q)
    <2>1. a = FollowAll(visit, q, V, waitOrders) /\ Root(V, q) = p
      BY <1>2, <1>4 DEF Root
    <2>2. Quiet(a, p)
      BY <1>0, <2>1, FollowAllStays
    <2>. QED
      BY <1>1, <2>2
  <1>. QED
    BY <1>3, <1>4

\* FindLockCycle finds no circle where there is none.
LEMMA NothingToFind ==
  ASSUME DetectorTyped, NEW waitOrders, OrdersTyped(waitOrders), \A l \in Lock : Distinct(waitOrders[l]),
         NEW p \in Proc, Escapes(p, waitOrders)
  PROVE  ~FindLockCycle(p, waitOrders).found
  <1>1. PICK C \in SUBSET Proc : p \notin C /\ \A q \in C \cup {p} : BlockersIn(q, waitOrders) \subseteq C
    BY DEF Escapes
  <1>2. ClosedWithout(C, p, waitOrders) /\ BlockersIn(p, waitOrders) \subseteq C
    BY <1>1 DEF ClosedWithout
  <1>3. PICK f : IsVisited(f, p, waitOrders)
    BY CycleLoop
  <1>4. PICK n : n = NProcs
    OBVIOUS
  <1>5. n \in Nat /\ n \in 0..n /\ 0 \in 0..n /\ n + 1 \in 1..(n + 1) /\ (n + 1) - 1 = n
    BY <1>4, LockTableAssumption
  <1>6. /\ f \in [0..(n + 1) -> VISIT] /\ f[0] = NothingFound
        /\ \A i \in 1..(n + 1) : f[i] = FindLockCycleRecurse(f[i - 1], waitOrders)
        /\ f[n + 1][<<p, <<>>>>] = FindLockCycle(p, waitOrders)
    BY <1>3, <1>4 DEF IsVisited
  <1>. DEFINE T == {i \in 0..n : Stays(f[i], C, p)}
  <1>7. 0 \in T
    <2>1. ASSUME NEW q \in C, NEW V \in Seq(Proc), V # <<>>, V[1] = p
          PROVE  Quiet(NothingFound[<<q, V>>], p)
      <3>1. PICK x : x = <<q, V>>
        OBVIOUS
      <3>2. x \in Proc \X Seq(Proc) /\ x[2] = V
        BY <1>1, <3>1
      <3>3. NothingFound[x] = [found |-> FALSE, visitedProcs |-> V, softEdges |-> <<>>]
        BY <3>2 DEF NothingFound
      <3>4. ~NothingFound[x].found /\ NothingFound[x].visitedProcs = V
        BY <3>3
      <3>. QED
        BY <2>1, <3>1, <3>4 DEF Quiet
    <2>. QED
      BY <1>5, <1>6, <2>1 DEF Stays
  <1>8. ASSUME NEW i \in 1..n, i - 1 \in T
        PROVE  i \in T
    <2>1. i \in 0..n /\ i \in 1..(n + 1) /\ i - 1 \in 0..(n + 1) /\ Stays(f[i - 1], C, p)
      BY <1>5, <1>8
    <2>2. PICK visit : visit = f[i - 1]
      OBVIOUS
    <2>3. PICK up : up = f[i]
      OBVIOUS
    <2>4. visit \in VISIT /\ Stays(visit, C, p) /\ up = FindLockCycleRecurse(visit, waitOrders)
      BY <1>6, <2>1, <2>2, <2>3
    <2>5. Stays(up, C, p)
      BY <1>2, <2>4, VisitStays
    <2>. QED
      BY <2>1, <2>3, <2>5
  <1>9. n \in T
    <2>1. \A i \in 0..n : i \in T
      <3>. HIDE DEF T
      <3>. QED
        BY <1>5, <1>7, <1>8, CountUp
    <2>. QED
      BY <1>5, <2>1
  <1>10. PICK visit : visit = f[n]
    OBVIOUS
  <1>11. visit \in VISIT /\ Stays(visit, C, p)
    <2>1. n \in 0..(n + 1)
      BY <1>5
    <2>. QED
      BY <1>6, <1>9, <1>10, <2>1
  <1>12. PICK e : e = <<>>
    OBVIOUS
  <1>13. e \in Seq(Proc) /\ Root(e, p) = p /\ ~Contains(e, p)
    BY <1>12 DEF Root, Contains
  <1>14. FindLockCycle(p, waitOrders) = FollowAll(visit, p, e, waitOrders)
    <2>1. f[n + 1] = FindLockCycleRecurse(visit, waitOrders)
      BY <1>5, <1>6, <1>10
    <2>2. PICK x : x = <<p, e>>
      OBVIOUS
    <2>3. x \in Proc \X Seq(Proc) /\ x[1] = p /\ x[2] = e
      BY <1>13, <2>2
    <2>4. f[n + 1][x] = FollowAll(visit, p, e, waitOrders)
      BY <1>13, <2>1, <2>3 DEF FindLockCycleRecurse
    <2>. QED
      BY <1>6, <1>12, <2>2, <2>4
  <1>15. Quiet(FollowAll(visit, p, e, waitOrders), p)
    BY <1>1, <1>11, <1>13, FollowAllStays
  <1>. QED
    BY <1>14, <1>15 DEF Quiet

\* Where there are no constraints the queues are as they are.
LEMMA OrderFree ==
  ASSUME DetectorTyped, NEW waitOrders, waitOrders = ExpandConstraints(<<>>)
  PROVE  /\ SelfConsistent(waitOrders) /\ OrdersTyped(waitOrders) /\ \A l \in Lock : Distinct(waitOrders[l])
         /\ \A q \in Proc : BlockersIn(q, waitOrders) \subseteq Blockers(q)
  <1>1. \A l \in Lock : waitOrders[l] = TopoSort(l, <<>>)
    BY DEF ExpandConstraints
  <1>2. \A l \in Lock : lock[l].waitProcs \in Seq(Proc) /\ Distinct(lock[l].waitProcs)
    BY DEF DetectorTyped
  <1>3. \A l \in Lock : /\ Len(TopoSort(l, <<>>)) = Len(lock[l].waitProcs) /\ PartOf(TopoSort(l, <<>>), lock[l].waitProcs)
                        /\ InOrder(TopoSort(l, <<>>), lock[l].waitProcs, <<>>)
    BY <1>2, TopoSortFree, TopoSortPart
  <1>4. ASSUME NEW l \in Lock, NEW x \in Proc, NEW y \in Proc, IsBefore(x, y, waitOrders[l])
        PROVE  IsBefore(x, y, lock[l].waitProcs)
    <2>1. PICK order : order = waitOrders[l]
      OBVIOUS
    <2>2. PICK queue : queue = lock[l].waitProcs
      OBVIOUS
    <2>3. /\ queue \in Seq(Proc) /\ Distinct(queue) /\ PartOf(order, queue) /\ InOrder(order, queue, <<>>)
          /\ IsBefore(x, y, order)
      BY <1>1, <1>2, <1>3, <1>4, <2>1, <2>2
    <2>4. order \in Seq(Proc) /\ Distinct(order) /\ ToSet(order) \subseteq ToSet(queue)
      BY <2>3 DEF PartOf
    <2>5. x \in ToSet(order) /\ y \in ToSet(order) /\ x # y
      BY <2>3, <2>4, OrderFacts
    <2>6. ~MayOvertake(x, <<>>)
      BY DEF MayOvertake, ToSet
    <2>7. ~IsBefore(y, x, queue)
      BY <2>3, <2>6 DEF InOrder, Overtaken
    <2>. QED
      BY <2>2, <2>3, <2>4, <2>5, <2>7, OrderFacts
  <1>5. ASSUME NEW q \in Proc, NEW r \in BlockersIn(q, waitOrders)
        PROVE  r \in Blockers(q)
    <2>1. PICK l : l = proc[q].waitLock
      OBVIOUS
    <2>2. l \in Lock
      BY <2>1 DEF BlockersIn, DetectorTyped
    <2>3. PICK conflicts : conflicts = conflictTab(proc[q].waitLockMode)
      OBVIOUS
    <2>4. /\ r \in Proc /\ r # q /\ proc[q].waitLock # NULL
          /\ \/ lock[l].holdMask[r] \cap conflicts # {}
             \/ IsBefore(r, q, waitOrders[l]) /\ proc[r].waitLockMode \in conflicts
      BY <2>1, <2>3 DEF BlockersIn, IsBefore
    <2>5. \/ lock[l].holdMask[r] \cap conflicts # {}
          \/ IsBefore(r, q, lock[l].waitProcs) /\ proc[r].waitLockMode \in conflicts
      BY <1>4, <2>2, <2>4
    <2>6. Queues[l] = lock[l].waitProcs
      BY <2>2 DEF Queues
    <2>. QED
      BY <2>1, <2>3, <2>4, <2>5, <2>6 DEF Blockers, BlockersIn, IsBefore
  <1>. QED
    BY <1>1, <1>3, <1>5 DEF SelfConsistent, OrdersTyped, PartOf

\* A verdict without constraints that says deadlock has failed the first test.
LEMMA VerdictTested ==
  ASSUME NEW check, NEW full, NEW p, NEW cur, NEW nPossible, NEW test, test = TestConfiguration(p, cur, nPossible),
         DeadLockCheckWith(check, full, p, cur, nPossible).deadlock
  PROVE  test.hard \/ test.softEdges # <<>>
  <1>. SUFFICES ASSUME ~test.hard, test.softEdges = <<>>
                PROVE  FALSE
    OBVIOUS
  <1>1. DeadLockCheckWith(check, full, p, cur, nPossible) = [deadlock |-> FALSE, constraints |-> cur]
    BY DEF DeadLockCheckWith, Verdict
  <1>. QED
    BY <1>1

\* Whom the detector tells to give up is in a circle.
LEMMA GivesUpInCircle ==
  ASSUME DetectorTyped, NEW p \in Proc, DeadLockCheckRecurse(p).deadlock
  PROVE  ~Escapes(p, Queues)
  <1>. SUFFICES ASSUME Escapes(p, Queues)
                PROVE  FALSE
    OBVIOUS
  <1>1. PICK none : none = <<>>
    OBVIOUS
  <1>2. none \in Seq(Edge) /\ Len(none) = 0
    BY <1>1
  <1>3. PICK waitOrders : waitOrders = ExpandConstraints(none)
    OBVIOUS
  <1>4. /\ SelfConsistent(waitOrders) /\ OrdersTyped(waitOrders) /\ \A l \in Lock : Distinct(waitOrders[l])
        /\ \A q \in Proc : BlockersIn(q, waitOrders) \subseteq Blockers(q)
    BY <1>1, <1>3, OrderFree
  <1>5. Escapes(p, waitOrders)
    <2>1. PICK C \in SUBSET Proc : p \notin C /\ \A q \in C \cup {p} : BlockersIn(q, Queues) \subseteq C
      BY DEF Escapes
    <2>2. \A q \in C \cup {p} : BlockersIn(q, waitOrders) \subseteq C
      BY <1>4, <2>1 DEF Blockers
    <2>. QED
      BY <2>1, <2>2 DEF Escapes
  <1>6. ~FindLockCycle(p, waitOrders).found
    BY <1>4, <1>5, NothingToFind
  <1>7. PICK check : check = ToCheck(p, none)
    OBVIOUS
  <1>8. check = [i \in 1..1 |-> p]
    <2>1. check = [i \in 1..1 |-> IF i > 0 THEN p ELSE IF i % 2 = 1 THEN none[(i + 1) \div 2].waiter ELSE none[i \div 2].blocker]
      BY <1>2, <1>7 DEF ToCheck
    <2>. QED
      BY <2>1
  <1>9. PICK cycles : cycles = CyclesFrom(check, waitOrders)
    OBVIOUS
  <1>10. DOMAIN cycles = 1..1 /\ cycles[1] = FindLockCycle(p, waitOrders)
    BY <1>8, <1>9 DEF CyclesFrom
  <1>11. {i \in DOMAIN cycles : cycles[i].found} = {}
    BY <1>6, <1>10
  <1>12. PICK test : test = TestConfiguration(p, none, 0)
    OBVIOUS
  <1>13. test = Tested(cycles, waitOrders, 0)
    BY <1>3, <1>7, <1>9, <1>12 DEF TestConfiguration
  <1>14. ~(0 + NProcs > maxPossibleConstraints)
    BY LockTableAssumption DEF maxPossibleConstraints
  <1>15. ~test.hard /\ test.softEdges = <<>>
    BY <1>4, <1>11, <1>13, <1>14 DEF Tested
  <1>16. Begins(p, DeadLockCheckRecurse(p))
    BY DeadLockCheckRight
  <1>17. PICK with, full : DeadLockCheckRecurse(p) = DeadLockCheckWith(with, full, p, none, 0)
    BY <1>1, <1>16 DEF Begins
  <1>18. DeadLockCheckWith(with, full, p, none, 0).deadlock
    BY <1>17
  <1>. QED
    BY <1>12, <1>15, <1>18, VerdictTested

\* The reach of InCycle, step by step.
IsReach(f, p, orders) ==
  /\ f \in [0..NProcs -> SUBSET Proc] /\ f[0] = BlockersIn(p, orders)
  /\ \A i \in 1..NProcs : f[i] = f[i - 1] \cup UNION {BlockersIn(q, orders) : q \in f[i - 1]}
  /\ InCycle(p, orders) <=> p \in f[NProcs]

\* InCycle, turn by turn.
LEMMA ReachLoop ==
  ASSUME NEW p \in Proc, NEW orders
  PROVE  \E f : IsReach(f, p, orders)
  <1>. DEFINE n == NProcs
              a == BlockersIn(p, orders)
              S == SUBSET Proc
              more(s) == s \cup UNION {BlockersIn(q, orders) : q \in s}
              reach[k \in 0..n] == IF k = 0 THEN a ELSE more(reach[k - 1])
              G == [k \in 1..n |-> [s \in S |-> more(s)]]
  <1>2. InCycle(p, orders) <=> p \in reach[n]
    BY DEF InCycle
  <1>3. n \in Nat
    BY LockTableAssumption
  <1>4. a \in S
    BY DEF BlockersIn
  <1>5. \A s \in S : more(s) \in S
    BY DEF BlockersIn
  <1>. HIDE DEF more
  <1>6. IsLoop(G, n, S)
    <2>1. [s \in S |-> more(s)] \in [S -> S]
      BY <1>5
    <2>. QED
      BY <2>1 DEF IsLoop
  <1>7. \A i \in 1..n : \A s \in S : G[i][s] = more(s)
    OBVIOUS
  <1>. HIDE DEF G, n, a, S
  <1>8. PICK f \in [0..n -> S] : f[0] = a /\ \A i \in 1..n : f[i] = G[i][f[i - 1]]
    <2>1. PICK f : IsRun(f, G, n, a, S)
      BY <1>3, <1>4, <1>6, Loop, Zenon
    <2>. QED
      BY <2>1 DEF IsRun
  <1>9. \A i \in 0..n : i # 0 => i \in 1..n /\ i - 1 \in 0..n
    BY <1>3
  <1>10. \A i \in 0..n : f[i] = IF i = 0 THEN a ELSE more(f[i - 1])
    <2>1. \A i \in 1..n : f[i - 1] \in S
      BY <1>3, <1>8
    <2>2. \A i \in 1..n : f[i] = more(f[i - 1])
      BY <1>7, <1>8, <2>1
    <2>. QED
      BY <1>8, <1>9, <2>2
  <1>11. f = [i \in 0..n |-> IF i = 0 THEN a ELSE more(f[i - 1])]
    BY <1>8, <1>10
  <1>12. reach = [i \in 0..n |-> IF i = 0 THEN a ELSE more(reach[i - 1])]
    BY <1>11
  <1>. HIDE DEF reach
  <1>13. reach[0] = a /\ \A i \in 1..n : reach[i] = more(reach[i - 1])
    <2>1. 0 \in 0..n /\ \A i \in 1..n : i \in 0..n /\ i # 0
      BY <1>3
    <2>2. \A i \in 0..n : reach[i] = IF i = 0 THEN a ELSE more(reach[i - 1])
      BY <1>12
    <2>. QED
      BY <2>1, <2>2
  <1>. DEFINE T == {i \in 0..n : reach[i] \in S}
  <1>14. 0 \in T
    BY <1>3, <1>4, <1>13
  <1>15. \A i \in 1..n : i - 1 \in T => i \in T
    <2>1. \A i \in 1..n : i \in 0..n
      BY <1>3
    <2>. QED
      BY <1>5, <1>13, <2>1
  <1>16. \A i \in 0..n : i \in T
    <2>. HIDE DEF T
    <2>. QED
      BY <1>3, <1>14, <1>15, CountUp
  <1>17. PICK g : g = reach
    OBVIOUS
  <1>18. g \in [0..n -> S]
    <2>1. \A i \in 0..n : g[i] \in S
      BY <1>16, <1>17
    <2>2. g = [i \in 0..n |-> g[i]]
      BY <1>12, <1>17
    <2>. QED
      BY <2>1, <2>2
  <1>19. g[0] = a /\ (InCycle(p, orders) <=> p \in g[n])
    BY <1>2, <1>13, <1>17
  <1>20. \A i \in 1..n : g[i] = more(g[i - 1])
    BY <1>13, <1>17
  <1>21. IsReach(g, p, orders)
    BY <1>18, <1>19, <1>20 DEF IsReach, n, S, a, more
  <1>. QED
    BY <1>21

\* Who is in no circle is outside some set of processes that wait only for each other
\* and that has everybody it waits for, and conversely.
LEMMA CircleMeans ==
  ASSUME NEW p \in Proc, NEW orders
  PROVE  InCycle(p, orders) <=> ~Escapes(p, orders)
  <1>1. PICK f : IsReach(f, p, orders)
    BY ReachLoop
  <1>2. PICK n \in Nat : n = NProcs
    BY LockTableAssumption
  <1>3. /\ f \in [0..n -> SUBSET Proc] /\ f[0] = BlockersIn(p, orders)
        /\ \A i \in 1..n : f[i] = f[i - 1] \cup UNION {BlockersIn(q, orders) : q \in f[i - 1]}
        /\ InCycle(p, orders) <=> p \in f[n]
    BY <1>1, <1>2 DEF IsReach
  <1>4. \A i \in 1..n : i \in 0..n /\ i - 1 \in 0..n
    OBVIOUS
  <1>5. n \in 0..n /\ 0 \in 0..n
    OBVIOUS
  <1>6. ASSUME Escapes(p, orders)
        PROVE  p \notin f[n]
    <2>1. PICK C \in SUBSET Proc : p \notin C /\ \A q \in C \cup {p} : BlockersIn(q, orders) \subseteq C
      BY <1>6 DEF Escapes
    <2>. DEFINE T == {i \in 0..n : f[i] \subseteq C}
    <2>2. 0 \in T
      BY <1>3, <1>5, <2>1
    <2>3. \A i \in 1..n : i - 1 \in T => i \in T
      BY <1>3, <1>4, <2>1
    <2>4. \A i \in 0..n : i \in T
      <3>. HIDE DEF T
      <3>. QED
        BY <2>2, <2>3, CountUp
    <2>. QED
      BY <1>5, <2>1, <2>4
  <1>7. ASSUME p \notin f[n]
        PROVE  Escapes(p, orders)
    <2>. DEFINE shut(C) == \A q \in C : BlockersIn(q, orders) \subseteq C
                T == {i \in 0..n : BlockersIn(p, orders) \subseteq f[i] /\ (shut(f[i]) \/ Cardinality(f[i]) >= i)}
    <2>1. IsFiniteSet(Proc) /\ Cardinality(Proc) = n
      BY <1>2, LockTableAssumption, FS_Interval DEF Proc
    <2>2. \A i \in 0..n : f[i] \subseteq Proc /\ IsFiniteSet(f[i]) /\ Cardinality(f[i]) \in Nat
      BY <1>3, <2>1, FS_Subset, FS_CardinalityType
    <2>3. 0 \in T
      BY <1>3, <1>5, <2>2
    <2>4. ASSUME NEW i \in 1..n, i - 1 \in T
          PROVE  i \in T
      <3>1. i \in 0..n /\ i - 1 \in 0..n /\ BlockersIn(p, orders) \subseteq f[i - 1]
            /\ (shut(f[i - 1]) \/ Cardinality(f[i - 1]) >= i - 1)
        BY <1>4, <2>4
      <3>2. f[i - 1] \subseteq f[i] /\ f[i] = f[i - 1] \cup UNION {BlockersIn(q, orders) : q \in f[i - 1]}
        BY <1>3
      <3>3. CASE shut(f[i - 1])
        <4>1. f[i] = f[i - 1]
          BY <3>2, <3>3
        <4>. QED
          BY <3>1, <3>3, <4>1
      <3>4. CASE ~shut(f[i - 1])
        <4>1. f[i - 1] # f[i]
          <5>1. PICK q \in f[i - 1] : ~(BlockersIn(q, orders) \subseteq f[i - 1])
            BY <3>4
          <5>. QED
            BY <3>2, <5>1
        <4>2. Cardinality(f[i - 1]) < Cardinality(f[i])
          <5>1. PICK A : A = f[i - 1]
            OBVIOUS
          <5>2. PICK B : B = f[i]
            OBVIOUS
          <5>3. IsFiniteSet(B) /\ A \in SUBSET B /\ A # B /\ Cardinality(A) \in Nat /\ Cardinality(B) \in Nat
            BY <2>2, <3>1, <3>2, <4>1, <5>1, <5>2
          <5>4. Cardinality(A) <= Cardinality(B) /\ Cardinality(A) # Cardinality(B)
            BY <5>3, FS_Subset
          <5>. QED
            BY <5>1, <5>2, <5>3, <5>4
        <4>3. Cardinality(f[i - 1]) >= i - 1
          BY <3>1, <3>4
        <4>4. Cardinality(f[i]) >= i
          BY <2>2, <3>1, <4>2, <4>3
        <4>. QED
          BY <3>1, <3>2, <4>4
      <3>. QED
        BY <3>3, <3>4
    <2>5. n \in T
      <3>1. \A i \in 0..n : i \in T
        <4>. HIDE DEF T
        <4>. QED
          BY <2>3, <2>4, CountUp
      <3>. QED
        BY <1>5, <3>1
    <2>6. shut(f[n])
      <3>1. SUFFICES ASSUME Cardinality(f[n]) >= n
                     PROVE  FALSE
        BY <2>5
      <3>2. f[n] \subseteq Proc /\ f[n] # Proc
        BY <1>5, <1>7, <2>2
      <3>3. Cardinality(f[n]) < n
        <4>1. PICK A : A = f[n]
          OBVIOUS
        <4>2. A \in SUBSET Proc /\ A # Proc /\ Cardinality(A) \in Nat
          BY <1>5, <2>2, <3>2, <4>1
        <4>3. Cardinality(A) <= Cardinality(Proc) /\ Cardinality(A) # Cardinality(Proc)
          BY <2>1, <4>2, FS_Subset
        <4>. QED
          BY <2>1, <4>1, <4>2, <4>3
      <3>. QED
        BY <1>5, <2>2, <3>1, <3>3
    <2>7. \A q \in f[n] \cup {p} : BlockersIn(q, orders) \subseteq f[n]
      BY <2>5, <2>6
    <2>. QED
      BY <1>5, <1>7, <2>2, <2>7 DEF Escapes
  <1>. QED
    BY <1>3, <1>6, <1>7

=============================================================================
