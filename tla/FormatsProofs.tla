---------------------------- MODULE FormatsProofs ----------------------------
(***************************************************************************)
(* Proofs about the formats, for every limit, any bytes and any text.      *)
(***************************************************************************)
EXTENDS Formats, PairingMessageProofs, SequenceTheorems, FiniteSetTheorems, WellFoundedInduction

-----------------------------------------------------------------------------
(* Numbers: a least one, a greatest one, and counting up.                  *)

LEMMA Least ==
  ASSUME NEW S \in SUBSET Nat, S # {}
  PROVE  \E n \in S : \A m \in S : n <= m
<1> DEFINE R == OpToRel(<, Nat)
<1>1. IsWellFoundedOn(R, Nat)
  BY NatLessThanWellFounded
<1>2. \A x, y \in Nat : <<y, x>> \in R <=> y < x
  BY DEF OpToRel
<1> HIDE DEF R
<1>3. PICK n \in S : \A m \in S : ~(<<m, n>> \in R)
  BY <1>1, WFMin
<1>4. ASSUME NEW m \in S PROVE n <= m
  <2>1. ~(m < n)
    BY <1>2, <1>3
  <2> QED BY <2>1
<1> QED BY <1>4

\* What holds of zero and passes from each number to the next holds up to n.
LEMMA CountingUp ==
  ASSUME NEW n \in Nat, NEW G, 0 \in G, \A k \in 0..(n - 1) : k \in G => k + 1 \in G
  PROVE  \A k \in 0..n : k \in G
<1> DEFINE Bad == {k \in 0..n : k \notin G}
<1> SUFFICES ASSUME Bad # {} PROVE FALSE
  OBVIOUS
<1>1. Bad \in SUBSET Nat
  OBVIOUS
<1>2. PICK k \in Bad : \A m \in Bad : k <= m
  BY <1>1, Least
<1>3. k \in 0..n /\ k # 0 /\ k - 1 \in 0..(n - 1) /\ k - 1 \notin Bad
  BY <1>2
<1> QED BY <1>2, <1>3

LEMMA MaxOf ==
  ASSUME NEW n \in Nat, NEW S \in SUBSET (0..n), S # {}
  PROVE  Max(S) \in S /\ \A m \in S : m <= Max(S)
<1> DEFINE T == {n - m : m \in S}
<1>1. T \in SUBSET Nat /\ T # {}
  <2>1. \A m \in S : m \in 0..n /\ n - m \in Nat
    OBVIOUS
  <2> QED BY <2>1
<1>2. PICK x \in T : \A y \in T : x <= y
  <2> HIDE DEF T
  <2> QED BY <1>1, Least
<1>3. PICK m \in S : x = n - m
  BY <1>2
<1>4. \A k \in S : m >= k
  BY <1>2, <1>3
<1>5. \E x1 \in S : \A y \in S : x1 >= y
  BY <1>4
<1> HIDE DEF T
<1>6. Max(S) \in S /\ \A y \in S : Max(S) >= y
  BY <1>5 DEF Max
<1> QED BY <1>6

LEMMA MinOf ==
  ASSUME NEW S \in SUBSET Nat, S # {}
  PROVE  Min(S) \in S /\ \A m \in S : Min(S) <= m
BY Least DEF Min

\* The greatest number of a range.
LEMMA MaxOfRange ==
  ASSUME NEW k \in Nat \ {0}
  PROVE  Max(1..k) = k
<1>1. Max(1..k) \in 1..k /\ \A m \in 1..k : m <= Max(1..k)
  <2>1. 1..k \in SUBSET (0..k) /\ 1..k # {}
    OBVIOUS
  <2> QED BY <2>1, MaxOf
<1> QED BY <1>1

-----------------------------------------------------------------------------
(* Folds.                                                                  *)

\* A function on the sets of positions that takes the greatest one last.
TakesGreatestLast(f, n, base, step) ==
    \A s \in SUBSET (1..n) :
        f[s] = IF s = {} THEN base ELSE step[Max(s)][f[s \ {Max(s)}]]

\* It exists.
LEMMA SetRecursion ==
  ASSUME NEW n \in Nat, NEW V, NEW base \in V, NEW step \in [1..n -> [V -> V]]
  PROVE  \E f \in [SUBSET (1..n) -> V] : TakesGreatestLast(f, n, base, step)
<1> DEFINE Eq(f, s) == f[s] = IF s = {} THEN base ELSE step[Max(s)][f[s \ {Max(s)}]]
           G == {k \in 0..n : \E f \in [SUBSET (1..n) -> V] : \A s \in SUBSET (1..k) : Eq(f, s)}
<1>1. 0 \in G
  <2>1. [s \in SUBSET (1..n) |-> base] \in [SUBSET (1..n) -> V]
    OBVIOUS
  <2>2. \A s \in SUBSET (1..0) : s = {}
    OBVIOUS
  <2>3. \A s \in SUBSET (1..0) : Eq([r \in SUBSET (1..n) |-> base], s)
    BY <2>2
  <2>4. \E f \in [SUBSET (1..n) -> V] : \A s \in SUBSET (1..0) : Eq(f, s)
    <3> HIDE DEF Eq
    <3> QED BY <2>1, <2>3
  <2>5. 0 \in 0..n
    OBVIOUS
  <2> HIDE DEF Eq
  <2> QED BY <2>4, <2>5
<1>2. ASSUME NEW k \in 0..(n - 1), k \in G
      PROVE  k + 1 \in G
  <2>1. PICK f \in [SUBSET (1..n) -> V] : \A s \in SUBSET (1..k) : Eq(f, s)
    BY <1>2
  <2> DEFINE g == [s \in SUBSET (1..n) |->
                     IF s = {} THEN base ELSE step[Max(s)][f[s \ {Max(s)}]]]
  <2>2. ASSUME NEW s \in SUBSET (1..n), s # {}
        PROVE  Max(s) \in s /\ \A m \in s : m <= Max(s)
    <3>1. s \in SUBSET (0..n)
      OBVIOUS
    <3> QED BY <2>2, <3>1, MaxOf
  <2>3. g \in [SUBSET (1..n) -> V]
    <3>1. ASSUME NEW s \in SUBSET (1..n), s # {}
          PROVE  step[Max(s)][f[s \ {Max(s)}]] \in V
      <4>1. Max(s) \in 1..n /\ f[s \ {Max(s)}] \in V
        BY <2>2, <3>1
      <4> QED BY <4>1
    <3> QED BY <3>1
  <2>4. ASSUME NEW s \in SUBSET (1..(k + 1))
        PROVE  Eq(g, s)
    <3>1. s \in SUBSET (1..n) /\ g[s] = IF s = {} THEN base ELSE step[Max(s)][f[s \ {Max(s)}]]
      OBVIOUS
    <3>2. CASE s # {}
      <4> DEFINE r == s \ {Max(s)}
      <4>1. r \in SUBSET (1..k)
        <5>1. Max(s) \in s /\ \A m \in s : m <= Max(s)
          BY <2>2, <3>1, <3>2
        <5>2. ASSUME NEW m \in r PROVE m \in 1..k
          <6>1. m \in 1..(k + 1) /\ m <= Max(s) /\ m # Max(s) /\ Max(s) \in 1..(k + 1)
            BY <5>1
          <6> QED BY <6>1
        <5> QED BY <5>2
      <4>2. f[r] = IF r = {} THEN base ELSE step[Max(r)][f[r \ {Max(r)}]]
        BY <2>1, <4>1
      <4>3. g[r] = f[r]
        BY <4>1, <4>2
      <4> QED BY <3>1, <3>2, <4>3
    <3> QED BY <3>1, <3>2
  <2>5. k + 1 \in 0..n
    OBVIOUS
  <2> HIDE DEF g
  <2> QED BY <2>3, <2>4, <2>5
<1>3. n \in G
  <2> HIDE DEF G
  <2>1. \A k \in 0..(n - 1) : k \in G => k + 1 \in G
    BY <1>2
  <2>2. \A k \in 0..n : k \in G
    BY <1>1, <2>1, CountingUp
  <2> QED BY <2>2
<1> QED BY <1>3 DEF TakesGreatestLast

\* What such a function takes apart: the positions up to one of them.
LEMMA Segments ==
  ASSUME NEW n \in Nat
  PROVE  /\ 1..0 = {}
         /\ \A k \in 1..n : /\ 1..k \in SUBSET (1..n) /\ 1..k # {}
                            /\ Max(1..k) = k /\ (1..k) \ {k} = 1..(k - 1)
<1>1. ASSUME NEW k \in 1..n
      PROVE  1..k \in SUBSET (1..n) /\ 1..k # {} /\ Max(1..k) = k /\ (1..k) \ {k} = 1..(k - 1)
  <2>1. k \in 1..k /\ \A i \in 1..k : i \in 1..n
    OBVIOUS
  <2>2. Max(1..k) = k
    BY MaxOfRange
  <2>3. (1..k) \ {k} = 1..(k - 1)
    OBVIOUS
  <2> QED BY <2>1, <2>2, <2>3
<1> QED BY <1>1

LEMMA MaxOfPositions ==
  ASSUME NEW n \in Nat, NEW s \in SUBSET (1..n), s # {}
  PROVE  Max(s) \in s /\ Max(s) \in 1..n
<1>1. s \in SUBSET (0..n)
  OBVIOUS
<1> QED BY <1>1, MaxOf

\* The values of a fold, one position after another.
Chain(v, n, V, base, step) ==
    /\ v \in [0..n -> V] /\ v[0] = base
    /\ \A k \in 1..n : v[k] = step[k][v[k - 1]]

Follows(g, n, V, base, step) ==
    /\ g[{}] = base
    /\ \A s \in SUBSET (1..n) :
          s # {} /\ g[s \ {Max(s)}] \in V => g[s] = step[Max(s)][g[s \ {Max(s)}]]

LEMMA FoldChain ==
  ASSUME NEW n \in Nat, NEW V, NEW base \in V, NEW step \in [1..n -> [V -> V]],
         NEW g, Follows(g, n, V, base, step)
  PROVE  Chain([k \in 0..n |-> g[1..k]], n, V, base, step)
<1>1. g[1..0] = base
  BY Segments DEF Follows
<1>2. ASSUME NEW k \in 1..n, g[1..(k - 1)] \in V
      PROVE  g[1..k] = step[k][g[1..(k - 1)]] /\ g[1..k] \in V
  <2>1. 1..k \in SUBSET (1..n) /\ 1..k # {} /\ Max(1..k) = k /\ (1..k) \ {k} = 1..(k - 1)
    BY Segments
  <2>2. g[1..k] = step[k][g[1..(k - 1)]]
    BY <1>2, <2>1 DEF Follows
  <2> QED BY <1>2, <2>2
<1>3. \A k \in 0..n : g[1..k] \in V
  <2> DEFINE G == {k \in 0..n : g[1..k] \in V}
  <2>1. 0 \in G
    BY <1>1
  <2>2. ASSUME NEW k \in 0..(n - 1), k \in G
        PROVE  k + 1 \in G
    <3>1. k + 1 \in 1..n /\ k + 1 \in 0..n /\ (k + 1) - 1 = k /\ g[1..k] \in V
      BY <2>2
    <3>2. g[1..(k + 1)] \in V
      BY <1>2, <3>1
    <3> QED BY <3>1, <3>2
  <2>3. \A k \in 0..n : k \in G
    <3> HIDE DEF G
    <3> QED BY <2>1, <2>2, CountingUp
  <2> QED BY <2>3
<1>4. ASSUME NEW k \in 1..n
      PROVE  k \in 0..n /\ k - 1 \in 0..n /\ g[1..k] = step[k][g[1..(k - 1)]]
  <2>1. k \in 0..n /\ k - 1 \in 0..n
    OBVIOUS
  <2> QED BY <1>2, <1>3, <2>1
<1>5. 0 \in 0..n
  OBVIOUS
<1> QED BY <1>1, <1>3, <1>4, <1>5 DEF Chain

\* Two folds that take the same steps have the same values.
LEMMA ChainsAgree ==
  ASSUME NEW m \in Nat, NEW n \in Nat, m <= n, NEW V, NEW base, NEW p, NEW q, NEW u, NEW v,
         Chain(u, m, V, base, p), Chain(v, n, V, base, q), \A k \in 1..m : p[k] = q[k]
  PROVE  u[m] = v[m]
<1> DEFINE G == {k \in 0..m : u[k] = v[k]}
<1>1. 0 \in G
  BY DEF Chain
<1>2. ASSUME NEW k \in 0..(m - 1), k \in G
      PROVE  k + 1 \in G
  <2>1. k + 1 \in 1..m /\ k + 1 \in 1..n /\ (k + 1) - 1 = k /\ u[k] = v[k] /\ k + 1 \in 0..m
    BY <1>2
  <2>2. u[k + 1] = p[k + 1][u[k]] /\ v[k + 1] = q[k + 1][v[k]]
    BY <2>1 DEF Chain
  <2> QED BY <2>1, <2>2
<1>3. \A k \in 0..m : k \in G
  <2> HIDE DEF G
  <2> QED BY <1>1, <1>2, CountingUp
<1>4. m \in 0..m
  OBVIOUS
<1> QED BY <1>3, <1>4

\* One step more.
SameSteps(n, p, q) == \A k \in 1..n : p[k] = q[k]

LEMMA ChainGrows ==
  ASSUME NEW n \in Nat, NEW V, NEW base, NEW p, NEW q, NEW u, NEW v,
         Chain(u, n, V, base, p), Chain(v, n + 1, V, base, q), SameSteps(n, p, q)
  PROVE  v[n + 1] = q[n + 1][u[n]]
<1>1. u[n] = v[n]
  <2>1. n + 1 \in Nat /\ n <= n + 1 /\ \A k \in 1..n : p[k] = q[k]
    BY DEF SameSteps
  <2> QED BY <2>1, ChainsAgree
<1>2. n + 1 \in 1..(n + 1) /\ (n + 1) - 1 = n
  OBVIOUS
<1>3. v[n + 1] = q[n + 1][v[n]]
  BY <1>2 DEF Chain
<1> QED BY <1>1, <1>3

-----------------------------------------------------------------------------
(* The length of a text in bytes.                                          *)

ByteStep(t) == [i \in 1..Len(t) |-> [b \in Nat |-> b + Width(t[i])]]

LEMMA ByteChain ==
  ASSUME NEW S, NEW t \in Seq(S)
  PROVE  \E v : Chain(v, Len(t), Nat, 0, ByteStep(t)) /\ ByteLen(t) = v[Len(t)]
<1> DEFINE n == Len(t)
           step == ByteStep(t)
           Eq(f) == f = [s \in SUBSET (1..n) |->
                           IF s = {} THEN 0 ELSE f[s \ {Max(s)}] + Width(t[Max(s)])]
           g == CHOOSE f : Eq(f)
<1>1. n \in Nat /\ DOMAIN t = 1..n
  OBVIOUS
<1>2. ByteLen(t) = g[1..n]
  BY <1>1 DEF ByteLen, FoldLeft, MapThenFoldSet
<1>3. /\ step \in [1..n -> [Nat -> Nat]]
      /\ \A i \in 1..n : \A b \in Nat : step[i][b] = b + Width(t[i])
  BY DEF Width, ByteStep
<1> HIDE DEF n, step
<1>4. \E f : Eq(f)
  <2>1. PICK f \in [SUBSET (1..n) -> Nat] : TakesGreatestLast(f, n, 0, step)
    BY <1>1, <1>3, SetRecursion
  <2>2. ASSUME NEW s \in SUBSET (1..n), s # {}
        PROVE  step[Max(s)][f[s \ {Max(s)}]] = f[s \ {Max(s)}] + Width(t[Max(s)])
    BY <1>1, <1>3, <2>2, MaxOfPositions
  <2>3. \A s \in SUBSET (1..n) :
           f[s] = IF s = {} THEN 0 ELSE f[s \ {Max(s)}] + Width(t[Max(s)])
    BY <2>1, <2>2 DEF TakesGreatestLast
  <2> QED BY <2>3
<1>5. Eq(g)
  <2> HIDE DEF Eq
  <2> QED BY <1>4
<1> HIDE DEF g
<1>6. g[{}] = 0
  BY <1>5
<1>7. ASSUME NEW s \in SUBSET (1..n), s # {}, g[s \ {Max(s)}] \in Nat
      PROVE  g[s] = step[Max(s)][g[s \ {Max(s)}]]
  BY <1>1, <1>3, <1>5, <1>7, MaxOfPositions
<1> DEFINE v == [k \in 0..n |-> g[1..k]]
<1>8. Chain(v, n, Nat, 0, step)
  <2>1. Follows(g, n, Nat, 0, step)
    BY <1>6, <1>7 DEF Follows
  <2> QED BY <1>1, <1>3, <2>1, FoldChain
<1>9. v[n] = g[1..n]
  BY <1>1
<1> HIDE DEF v
<1> QED BY <1>2, <1>8, <1>9 DEF n, step

LEMMA BytesOf ==
  ASSUME NEW S, NEW t \in Seq(S)
  PROVE  /\ ByteLen(<<>>) = 0 /\ ByteLen(t) \in Nat
         /\ \A c \in S : ByteLen(Append(t, c)) = ByteLen(t) + Width(c)
<1>1. <<>> \in Seq(S) /\ Len(<<>>) = 0 /\ Len(t) \in Nat
  OBVIOUS
<1>2. PICK u : Chain(u, Len(t), Nat, 0, ByteStep(t)) /\ ByteLen(t) = u[Len(t)]
  BY ByteChain
<1>3. PICK e : Chain(e, Len(<<>>), Nat, 0, ByteStep(<<>>)) /\ ByteLen(<<>>) = e[Len(<<>>)]
  BY <1>1, ByteChain
<1>4. ByteLen(<<>>) = 0 /\ ByteLen(t) \in Nat
  BY <1>1, <1>2, <1>3 DEF Chain
<1>5. ASSUME NEW c \in S
      PROVE  ByteLen(Append(t, c)) = ByteLen(t) + Width(c)
  <2> DEFINE r == Append(t, c)
  <2>1. /\ r \in Seq(S) /\ Len(r) = Len(t) + 1 /\ r[Len(t) + 1] = c
        /\ \A i \in 1..Len(t) : r[i] = t[i]
    OBVIOUS
  <2> HIDE DEF r
  <2>2. PICK v : Chain(v, Len(t) + 1, Nat, 0, ByteStep(r)) /\ ByteLen(r) = v[Len(t) + 1]
    BY <2>1, ByteChain
  <2>3. SameSteps(Len(t), ByteStep(t), ByteStep(r))
    BY <1>1, <2>1 DEF ByteStep, SameSteps
  <2>4. v[Len(t) + 1] = ByteStep(r)[Len(t) + 1][u[Len(t)]]
    <3> DEFINE n == Len(t)
               p == ByteStep(t)
               q == ByteStep(r)
    <3>1. n \in Nat /\ Chain(u, n, Nat, 0, p)
      BY <1>1, <1>2, Zenon
    <3>2. Chain(v, n + 1, Nat, 0, q) /\ SameSteps(n, p, q)
      BY <2>2, <2>3, Zenon
    <3> HIDE DEF n, p, q
    <3>3. v[n + 1] = q[n + 1][u[n]]
      BY <3>1, <3>2, ChainGrows
    <3> QED BY <3>3 DEF n, p, q
  <2>5. Len(t) + 1 \in 1..Len(r)
    BY <1>1, <2>1
  <2> QED BY <1>2, <1>4, <2>1, <2>2, <2>4, <2>5 DEF ByteStep, r
<1> QED BY <1>4, <1>5

\* The parts of a text from its start: each is a character longer than the last.
LEMMA PrefixesOf ==
  ASSUME NEW S, NEW t \in Seq(S)
  PROVE  /\ SubSeq(t, 1, 0) = <<>> /\ SubSeq(t, 1, Len(t)) = t
         /\ \A k \in 0..Len(t) : SubSeq(t, 1, k) \in Seq(S) /\ Len(SubSeq(t, 1, k)) = k
         /\ \A k \in 1..Len(t) : /\ SubSeq(t, 1, k) = Append(SubSeq(t, 1, k - 1), t[k])
                                 /\ t[k] \in S
<1>1. SubSeq(t, 1, 0) = <<>> /\ SubSeq(t, 1, Len(t)) = t
  BY SubSeqFull, SubSeqEmpty
<1>2. ASSUME NEW k \in 0..Len(t)
      PROVE  SubSeq(t, 1, k) \in Seq(S) /\ Len(SubSeq(t, 1, k)) = k
  <2>1. k \in Nat /\ 1 \in Int /\ \A i \in 1..k : t[i] \in S
    OBVIOUS
  <2> QED BY <2>1, SubSeqProperties
<1>3. ASSUME NEW k \in 1..Len(t)
      PROVE  SubSeq(t, 1, k) = Append(SubSeq(t, 1, k - 1), t[k]) /\ t[k] \in S
  <2>1. 1 \in 1..Len(t) /\ k \in 1..Len(t) /\ k - 1 \in 0..Len(t) /\ t[k] \in S
    OBVIOUS
  <2>2. SubSeq(t, 1, k) = SubSeq(t, 1, k - 1) \o <<t[k]>>
    BY <2>1, SubSeqRecursiveSecond
  <2>3. SubSeq(t, 1, k - 1) \in Seq(S)
    BY <1>2, <2>1
  <2>4. SubSeq(t, 1, k - 1) \o <<t[k]>> = Append(SubSeq(t, 1, k - 1), t[k])
    BY <2>1, <2>3, AppendIsConcat
  <2> QED BY <2>1, <2>2, <2>4
<1> QED BY <1>1, <1>2, <1>3

LEMMA PrefixBytes ==
  ASSUME NEW S, NEW t \in Seq(S)
  PROVE  /\ \A k \in 0..Len(t) : ByteLen(SubSeq(t, 1, k)) \in Nat
         /\ \A k \in 1..Len(t) :
               ByteLen(SubSeq(t, 1, k)) = ByteLen(SubSeq(t, 1, k - 1)) + Width(t[k])
<1>1. ASSUME NEW k \in 0..Len(t)
      PROVE  ByteLen(SubSeq(t, 1, k)) \in Nat
  <2>1. SubSeq(t, 1, k) \in Seq(S)
    BY PrefixesOf
  <2> QED BY <2>1, BytesOf
<1>2. ASSUME NEW k \in 1..Len(t)
      PROVE  ByteLen(SubSeq(t, 1, k)) = ByteLen(SubSeq(t, 1, k - 1)) + Width(t[k])
  <2>1. k - 1 \in 0..Len(t)
    OBVIOUS
  <2>2. SubSeq(t, 1, k - 1) \in Seq(S)
    BY <2>1, PrefixesOf
  <2>3. SubSeq(t, 1, k) = Append(SubSeq(t, 1, k - 1), t[k]) /\ t[k] \in S
    BY PrefixesOf
  <2> QED BY <2>2, <2>3, BytesOf
<1> QED BY <1>1, <1>2

\* No part of a text is longer than a longer part.
LEMMA PrefixGrows ==
  ASSUME NEW S, NEW t \in Seq(S), NEW j \in 0..Len(t), NEW k \in j..Len(t)
  PROVE  ByteLen(SubSeq(t, 1, j)) <= ByteLen(SubSeq(t, 1, k))
<1> DEFINE n == Len(t)
           b == [i \in 0..n |-> ByteLen(SubSeq(t, 1, i))]
           G == {i \in 0..n : j <= i => b[j] <= b[i]}
<1>1. n \in Nat /\ j \in 0..n /\ k \in 0..n /\ j <= k
  OBVIOUS
<1>2. b \in [0..n -> Nat] /\ \A i \in 1..n : b[i] = b[i - 1] + Width(t[i]) /\ Width(t[i]) \in Nat
  BY <1>1, PrefixBytes DEF Width
<1>3. b[j] = ByteLen(SubSeq(t, 1, j)) /\ b[k] = ByteLen(SubSeq(t, 1, k))
  BY <1>1
<1> HIDE DEF b, n
<1>4. 0 \in G
  BY <1>1, <1>2
<1>5. ASSUME NEW i \in 0..(n - 1), i \in G
      PROVE  i + 1 \in G
  <2>1. i + 1 \in 1..n /\ i + 1 \in 0..n /\ i \in 0..n /\ (i + 1) - 1 = i
    BY <1>1
  <2>2. b[i + 1] = b[i] + Width(t[i + 1]) /\ Width(t[i + 1]) \in Nat /\ b[i] \in Nat
    BY <1>2, <2>1
  <2>3. b[j] \in Nat
    BY <1>1, <1>2
  <2>4. CASE j = i + 1
    BY <2>1, <2>2, <2>3, <2>4
  <2>5. CASE j <= i
    BY <1>5, <2>1, <2>2, <2>3, <2>5
  <2>6. CASE j > i + 1
    BY <1>1, <2>1, <2>6
  <2> QED BY <1>1, <2>1, <2>4, <2>5, <2>6
<1>6. \A i \in 0..n : i \in G
  <2> HIDE DEF G
  <2> QED BY <1>1, <1>4, <1>5, CountingUp
<1> QED BY <1>1, <1>3, <1>6

-----------------------------------------------------------------------------
(* Display names and hints.                                                *)

LEMMA MinOfTwo ==
  ASSUME NEW a \in Nat, NEW b \in Nat
  PROVE  Min({a, b}) \in {a, b} /\ Min({a, b}) <= a /\ Min({a, b}) <= b
<1>1. {a, b} \in SUBSET Nat /\ {a, b} # {}
  OBVIOUS
<1> QED BY <1>1, MinOf

\* A hint is the longest part of a name from its start that fits.
LEMMA HintIsLongest ==
  ASSUME NEW S, NEW t \in Seq(S)
  PROVE  \E k \in 0..Len(t) :
            /\ HintOf(t) = SubSeq(t, 1, k) /\ ByteLen(HintOf(t)) <= MAX_DISCOVERY_NAME_BYTES
            /\ \A j \in (k + 1)..Len(t) : ByteLen(SubSeq(t, 1, j)) > MAX_DISCOVERY_NAME_BYTES
<1> DEFINE limit == Min({ByteLen(t), MAX_DISCOVERY_NAME_BYTES})
           fits == {k \in 0..Len(t) : ByteLen(SubSeq(t, 1, k)) <= limit}
           k == Max(fits)
<1>1. Len(t) \in Nat /\ ByteLen(t) \in Nat /\ MAX_DISCOVERY_NAME_BYTES \in Nat
  BY BytesOf, TextAssumption
<1>2. /\ limit \in {ByteLen(t), MAX_DISCOVERY_NAME_BYTES}
      /\ limit \in Nat /\ limit <= MAX_DISCOVERY_NAME_BYTES
  BY <1>1, MinOfTwo
<1>3. HintOf(t) = SubSeq(t, 1, k)
  BY DEF HintOf
<1> HIDE DEF limit
<1>4. 0 \in fits
  <2>1. ByteLen(SubSeq(t, 1, 0)) = 0
    <3>1. SubSeq(t, 1, 0) = <<>>
      BY PrefixesOf
    <3>2. ByteLen(<<>>) = 0
      BY BytesOf
    <3> QED BY <3>1, <3>2, Zenon
  <2>2. 0 \in 0..Len(t)
    BY <1>1
  <2>3. 0 <= limit
    BY <1>2
  <2> QED BY <2>1, <2>2, <2>3
<1>5. k \in fits /\ \A j \in fits : j <= k
  <2>1. fits \in SUBSET (0..Len(t)) /\ fits # {}
    BY <1>4
  <2> HIDE DEF fits
  <2> QED BY <1>1, <2>1, MaxOf
<1> HIDE DEF k
<1>6. k \in 0..Len(t) /\ ByteLen(SubSeq(t, 1, k)) <= limit
  BY <1>5
<1>7. ByteLen(SubSeq(t, 1, k)) <= MAX_DISCOVERY_NAME_BYTES
  <2>1. ByteLen(SubSeq(t, 1, k)) \in Nat
    BY <1>6, PrefixBytes
  <2> QED BY <1>1, <1>2, <1>6, <2>1
<1>8. ASSUME NEW j \in (k + 1)..Len(t)
      PROVE  ByteLen(SubSeq(t, 1, j)) > MAX_DISCOVERY_NAME_BYTES
  <2>1. j \in 0..Len(t) /\ ~(j <= k) /\ Len(t) \in j..Len(t)
    BY <1>1, <1>6
  <2>2. ByteLen(SubSeq(t, 1, j)) \in Nat
    BY <2>1, PrefixBytes
  <2>3. ~(ByteLen(SubSeq(t, 1, j)) <= limit)
    BY <1>5, <2>1
  <2>4. ByteLen(SubSeq(t, 1, j)) <= ByteLen(t)
    BY <2>1, PrefixGrows, PrefixesOf
  <2> QED BY <1>1, <1>2, <2>2, <2>3, <2>4
<1> QED BY <1>3, <1>6, <1>7, <1>8

\* What trim leaves begins and ends with a character that is no space.
LEMMA TrimmedOf ==
  ASSUME NEW S, NEW t \in Seq(S)
  PROVE  IF \A i \in DOMAIN t : IsSpace(t[i]) THEN Trimmed(t) = <<>>
         ELSE \E a \in 1..Len(t) : \E b \in a..Len(t) :
                 /\ Trimmed(t) = SubSeq(t, a, b) /\ ~IsSpace(t[a]) /\ ~IsSpace(t[b])
                 /\ \A i \in DOMAIN t : ~IsSpace(t[i]) => a <= i /\ i <= b
<1> DEFINE visible == {i \in DOMAIN t : ~IsSpace(t[i])}
<1>1. CASE \A i \in DOMAIN t : IsSpace(t[i])
  <2>1. visible = {}
    BY <1>1
  <2> QED BY <1>1, <2>1 DEF Trimmed
<1>2. CASE ~\A i \in DOMAIN t : IsSpace(t[i])
  <2>1. visible \in SUBSET (0..Len(t)) /\ visible \in SUBSET Nat /\ visible # {} /\ Len(t) \in Nat
    BY <1>2
  <2>2. Trimmed(t) = SubSeq(t, Min(visible), Max(visible))
    BY <2>1 DEF Trimmed
  <2>3. \A i \in visible : i \in 1..Len(t) /\ ~IsSpace(t[i])
    OBVIOUS
  <2>4. \A i \in DOMAIN t : ~IsSpace(t[i]) => i \in visible
    OBVIOUS
  <2> HIDE DEF visible
  <2>5. Min(visible) \in visible /\ \A i \in visible : Min(visible) <= i
    BY <2>1, MinOf
  <2>6. Max(visible) \in visible /\ \A i \in visible : i <= Max(visible)
    BY <2>1, MaxOf
  <2>7. Min(visible) \in 1..Len(t) /\ Max(visible) \in Min(visible)..Len(t)
    <3>1. Min(visible) \in 1..Len(t) /\ Max(visible) \in 1..Len(t)
      BY <2>3, <2>5, <2>6
    <3>2. Min(visible) <= Max(visible)
      BY <2>5, <2>6
    <3> QED BY <2>1, <3>1, <3>2
  <2>8. \A i \in DOMAIN t : ~IsSpace(t[i]) => Min(visible) <= i /\ i <= Max(visible)
    BY <2>4, <2>5, <2>6
  <2>9. ~IsSpace(t[Min(visible)]) /\ ~IsSpace(t[Max(visible)])
    BY <2>3, <2>5, <2>6
  <2>10. \E a \in 1..Len(t) : \E b \in a..Len(t) :
            /\ Trimmed(t) = SubSeq(t, a, b) /\ ~IsSpace(t[a]) /\ ~IsSpace(t[b])
            /\ \A i \in DOMAIN t : ~IsSpace(t[i]) => a <= i /\ i <= b
    BY <2>2, <2>7, <2>8, <2>9
  <2> QED BY <1>2, <2>10
<1> QED BY <1>1, <1>2

\* A text that begins and ends so is left as it is.
LEMMA TrimmedAlready ==
  ASSUME NEW S, NEW t \in Seq(S), t # <<>>, ~IsSpace(t[1]), ~IsSpace(t[Len(t)])
  PROVE  Trimmed(t) = t
<1>1. Len(t) \in Nat /\ 1 \in DOMAIN t /\ Len(t) \in DOMAIN t /\ DOMAIN t = 1..Len(t)
  OBVIOUS
<1>2. PICK a \in 1..Len(t) : \E b \in a..Len(t) :
         /\ Trimmed(t) = SubSeq(t, a, b)
         /\ \A i \in DOMAIN t : ~IsSpace(t[i]) => a <= i /\ i <= b
  BY <1>1, TrimmedOf
<1>3. PICK b \in a..Len(t) :
         /\ Trimmed(t) = SubSeq(t, a, b)
         /\ \A i \in DOMAIN t : ~IsSpace(t[i]) => a <= i /\ i <= b
  BY <1>2
<1>4. a <= 1 /\ Len(t) <= b
  BY <1>1, <1>3
<1>5. a = 1 /\ b = Len(t)
  <2>1. a \in 1..Len(t) /\ b \in a..Len(t)
    OBVIOUS
  <2>2. a \in Int /\ b \in Int /\ a >= 1 /\ b <= Len(t)
    BY <1>1, <2>1
  <2>3. ASSUME NEW n \in Nat, NEW x \in Int, NEW y \in Int, x >= 1, y <= n, x <= 1, n <= y
        PROVE  x = 1 /\ y = n
    BY <2>3
  <2> QED BY <1>1, <1>4, <2>2, <2>3
<1> QED BY <1>3, <1>5, SubSeqFull

\* What trim leaves is part of the text, and trimmed.
LEMMA TrimmedPart ==
  ASSUME NEW S, NEW t \in Seq(S)
  PROVE  /\ Trimmed(t) \in Seq(S)
         /\ \A i \in DOMAIN Trimmed(t) : \E j \in DOMAIN t : Trimmed(t)[i] = t[j]
         /\ Trimmed(t) # <<>> => /\ ~IsSpace(Trimmed(t)[1])
                                 /\ ~IsSpace(Trimmed(t)[Len(Trimmed(t))])
<1>1. CASE \A i \in DOMAIN t : IsSpace(t[i])
  <2>1. Trimmed(t) = <<>>
    BY <1>1, TrimmedOf
  <2>2. <<>> \in Seq(S) /\ DOMAIN <<>> = {}
    OBVIOUS
  <2> QED BY <2>1, <2>2
<1>2. CASE ~\A i \in DOMAIN t : IsSpace(t[i])
  <2>1. PICK a \in 1..Len(t) : \E b \in a..Len(t) :
           Trimmed(t) = SubSeq(t, a, b) /\ ~IsSpace(t[a]) /\ ~IsSpace(t[b])
    BY <1>2, TrimmedOf
  <2>2. PICK b \in a..Len(t) :
           Trimmed(t) = SubSeq(t, a, b) /\ ~IsSpace(t[a]) /\ ~IsSpace(t[b])
    BY <2>1
  <2> DEFINE r == SubSeq(t, a, b)
  <2>3. a \in Int /\ b \in Int /\ a <= b /\ \A i \in a..b : i \in DOMAIN t /\ t[i] \in S
    OBVIOUS
  <2>4. /\ r \in Seq(S) /\ Len(r) = b - a + 1
        /\ \A i \in 1..(b - a + 1) : r[i] = t[a + i - 1]
    BY <2>3, SubSeqProperties
  <2> HIDE DEF r
  <2>5. DOMAIN r = 1..(b - a + 1)
    BY <2>4
  <2>6. \A i \in DOMAIN r : \E j \in DOMAIN t : r[i] = t[j]
    <3>1. \A i \in 1..(b - a + 1) : a + i - 1 \in a..b
      BY <2>3
    <3> QED BY <2>3, <2>4, <2>5, <3>1
  <2>7. r[1] = t[a] /\ r[Len(r)] = t[b]
    <3>1. 1 \in 1..(b - a + 1) /\ b - a + 1 \in 1..(b - a + 1)
          /\ a + 1 - 1 = a /\ a + (b - a + 1) - 1 = b
      BY <2>3
    <3> QED BY <2>4, <3>1
  <2> QED BY <2>2, <2>4, <2>6, <2>7 DEF r
<1> QED BY <1>1, <1>2

-----------------------------------------------------------------------------
(* Decimals.                                                               *)

DigitSet == {"0", "1", "2", "3", "4", "5", "6", "7", "8", "9"}

LEMMA DigitsAreDigits ==
  ASSUME NEW n \in 0..9
  PROVE  Digits[n + 1] \in DigitSet
BY DEF Digits, DigitSet

LEMMA Tens ==
  ASSUME NEW n \in Nat
  PROVE  /\ n \div 10 \in Nat /\ n % 10 \in 0..9 /\ n = 10 * (n \div 10) + (n % 10)
         /\ n >= 10 => n \div 10 < n /\ n \div 10 > 0
         /\ n < 10 => n \div 10 = 0 /\ n % 10 = n
OBVIOUS

DecimalStep(f, n) ==
    IF n < 10 THEN <<Digits[n + 1]>> ELSE Append(f[n \div 10], Digits[(n % 10) + 1])

LEMMA DecimalStepTyped ==
  ASSUME NEW f \in [Nat -> Seq(DigitSet)], NEW n \in Nat
  PROVE  DecimalStep(f, n) \in Seq(DigitSet)
<1>1. CASE n < 10
  <2>1. Digits[n + 1] \in DigitSet
    <3>1. n \in 0..9
      BY <1>1
    <3> QED BY <3>1, DigitsAreDigits
  <2> QED BY <1>1, <2>1 DEF DecimalStep
<1>2. CASE ~(n < 10)
  <2>1. Digits[(n % 10) + 1] \in DigitSet /\ f[n \div 10] \in Seq(DigitSet)
    BY Tens, DigitsAreDigits
  <2> QED BY <1>2, <2>1 DEF DecimalStep
<1> QED BY <1>1, <1>2

\* The recursion that defines Decimal has a solution: on the numbers up to any
\* bound, hence on all.
LEMMA DecimalSolution ==
  \E f \in [Nat -> Seq(DigitSet)] : \A n \in Nat : f[n] = DecimalStep(f, n)
<1> DEFINE Good(f, n) == \A k \in 0..n : f[k] = DecimalStep(f, k)
           F == [Nat -> Seq(DigitSet)]
<1>1. ASSUME NEW n \in Nat
      PROVE  \E f \in F : Good(f, n)
  <2> DEFINE G == {k \in 0..n : \E f \in F : Good(f, k)}
  <2>1. 0 \in G
    <3> DEFINE f == [m \in Nat |-> <<Digits[1]>>]
    <3>1. f \in F
      BY DigitsAreDigits
    <3>2. Good(f, 0)
      BY DEF DecimalStep
    <3> HIDE DEF f, F, Good
    <3>3. 0 \in 0..n
      OBVIOUS
    <3> QED BY <3>1, <3>2, <3>3
  <2>2. ASSUME NEW k \in 0..(n - 1), k \in G
        PROVE  k + 1 \in G
    <3>1. PICK f \in F : Good(f, k)
      BY <2>2
    <3> DEFINE g == [m \in Nat |-> DecimalStep(f, m)]
    <3>2. g \in F
      BY DecimalStepTyped
    <3>3. ASSUME NEW m \in 0..(k + 1)
          PROVE  g[m] = DecimalStep(g, m)
      <4>1. g[m] = DecimalStep(f, m)
        OBVIOUS
      <4>2. CASE m < 10
        BY <4>1, <4>2 DEF DecimalStep
      <4>3. CASE m >= 10
        <5>1. m \div 10 \in 0..k
          BY <4>3, Tens
        <5>2. g[m \div 10] = f[m \div 10]
          BY <3>1, <5>1
        <5> HIDE DEF g
        <5> QED BY <4>1, <4>3, <5>2 DEF DecimalStep
      <4> QED BY <4>2, <4>3
    <3>4. Good(g, k + 1) /\ k + 1 \in 0..n
      BY <3>3
    <3> HIDE DEF g, F, Good
    <3> QED BY <3>2, <3>4
  <2>3. \A k \in 0..n : k \in G
    <3> HIDE DEF G
    <3>1. \A k \in 0..(n - 1) : k \in G => k + 1 \in G
      BY <2>2
    <3> QED BY <2>1, <3>1, CountingUp
  <2> HIDE DEF F, Good
  <2>4. n \in G
    BY <2>3
  <2> QED BY <2>4
<1>2. ASSUME NEW f \in F, NEW g \in F, NEW m \in Nat, NEW n \in Nat,
             Good(f, m), Good(g, n), NEW k \in Nat, k <= m, k <= n
      PROVE  f[k] = g[k]
  <2> DEFINE Bad == {i \in 0..k : f[i] # g[i]}
  <2> SUFFICES ASSUME Bad # {} PROVE FALSE
    <3>1. k \in 0..k
      OBVIOUS
    <3> QED BY <3>1
  <2>1. PICK i \in Bad : \A j \in Bad : i <= j
    <3>1. Bad \in SUBSET Nat
      OBVIOUS
    <3> HIDE DEF Bad
    <3> QED BY <3>1, Least
  <2>2. i \in 0..k /\ i \in Nat /\ i <= k /\ f[i] # g[i]
    OBVIOUS
  <2>3. f[i] = DecimalStep(f, i) /\ g[i] = DecimalStep(g, i)
    <3>1. k <= m /\ k <= n
      BY <1>2
    <3>2. i <= m /\ i <= n
      <4> HIDE DEF F, Bad, Good
      <4> QED BY <2>2, <3>1
    <3>3. i \in 0..m /\ i \in 0..n
      <4> HIDE DEF F, Bad, Good
      <4> QED BY <2>2, <3>2
    <3> QED BY <1>2, <3>3
  <2>4. i >= 10
    <3>1. ~(i < 10)
      BY <2>2, <2>3 DEF DecimalStep
    <3> QED BY <2>2, <3>1
  <2>5. i \div 10 \in 0..k /\ i \div 10 < i
    <3> HIDE DEF Bad
    <3>1. i \div 10 \in Nat /\ i \div 10 < i
      BY <2>2, <2>4, Tens
    <3> QED BY <2>2, <3>1
  <2>6. f[i \div 10] = g[i \div 10]
    <3>1. ~(i <= i \div 10)
      BY <2>2, <2>5
    <3> QED BY <2>1, <2>5, <3>1
  <2>7. ~(i < 10)
    BY <2>2, <2>4
  <2> QED BY <2>2, <2>3, <2>6, <2>7 DEF DecimalStep
<1> DEFINE pick[n \in Nat] == CHOOSE f \in F : Good(f, n)
           h == [n \in Nat |-> pick[n][n]]
<1> HIDE DEF Good
<1>3. \A n \in Nat : pick[n] \in F /\ Good(pick[n], n)
  BY <1>1
<1> HIDE DEF pick
<1>4. h \in F
  BY <1>3
<1>5. ASSUME NEW n \in Nat
      PROVE  h[n] = DecimalStep(h, n)
  <2>1. h[n] = DecimalStep(pick[n], n)
    BY <1>3 DEF Good
  <2>2. CASE n < 10
    BY <2>1, <2>2 DEF DecimalStep
  <2>3. CASE n >= 10
    <3> DEFINE m == n \div 10
    <3>1. m \in Nat /\ m <= n
      BY <2>3, Tens
    <3> HIDE DEF m
    <3>2. pick[n][m] = pick[m][m]
      <4>1. /\ pick[n] \in F /\ Good(pick[n], n)
            /\ pick[m] \in F /\ Good(pick[m], m)
        BY <1>3, <3>1
      <4>2. m <= m
        BY <3>1
      <4> HIDE DEF F
      <4> QED BY <1>2, <3>1, <4>1, <4>2
    <3>3. pick[n][m] = h[m]
      BY <3>1, <3>2
    <3> HIDE DEF h
    <3> QED BY <2>1, <2>3, <3>3 DEF DecimalStep, m
  <2> QED BY <2>2, <2>3
<1> HIDE DEF h
<1> QED BY <1>4, <1>5

LEMMA DecimalDefined ==
  /\ Decimal \in [Nat -> Seq(DigitSet)]
  /\ \A n \in Nat : Decimal[n] = DecimalStep(Decimal, n)
<1> DEFINE Eq(f) == f = [n \in Nat |-> IF n < 10 THEN <<Digits[n + 1]>>
                                       ELSE Append(f[n \div 10], Digits[(n % 10) + 1])]
<1>1. PICK f \in [Nat -> Seq(DigitSet)] : \A n \in Nat : f[n] = DecimalStep(f, n)
  BY DecimalSolution
<1>2. Eq(f)
  BY <1>1 DEF DecimalStep
<1>3. Decimal = CHOOSE g : Eq(g)
  BY DEF Decimal
<1> HIDE DEF Eq
<1>4. Eq(Decimal)
  BY <1>2, <1>3
<1>5. \A n \in Nat : Decimal[n] = DecimalStep(Decimal, n)
  BY <1>4 DEF Eq, DecimalStep
<1>6. DOMAIN Decimal = Nat /\ Decimal = [n \in Nat |-> Decimal[n]]
  BY <1>4 DEF Eq
<1>7. ASSUME NEW S \in SUBSET Nat, S = {n \in Nat : Decimal[n] \notin Seq(DigitSet)}, S # {}
      PROVE  FALSE
  <2>1. PICK n \in S : \A m \in S : n <= m
    BY <1>7, Least
  <2>2. CASE n < 10
    <3>1. n \in 0..9
      BY <2>2
    <3>2. Digits[n + 1] \in DigitSet
      BY <3>1, DigitsAreDigits
    <3>3. Decimal[n] = <<Digits[n + 1]>> /\ Decimal[n] \notin Seq(DigitSet)
      BY <1>5, <1>7, <2>2 DEF DecimalStep
    <3> QED BY <3>2, <3>3
  <2>3. CASE n >= 10
    <3>1. n \div 10 \in Nat /\ n \div 10 < n /\ n % 10 \in 0..9
      BY <2>3, Tens
    <3>2. Decimal[n \div 10] \in Seq(DigitSet)
      BY <1>7, <2>1, <3>1
    <3>3. Digits[(n % 10) + 1] \in DigitSet
      BY <3>1, DigitsAreDigits
    <3>4. /\ Decimal[n] = Append(Decimal[n \div 10], Digits[(n % 10) + 1])
          /\ Decimal[n] \notin Seq(DigitSet)
      <4>1. ~(n < 10) /\ n \in Nat
        BY <2>3
      <4> QED BY <1>5, <1>7, <4>1 DEF DecimalStep
    <3> QED BY <3>2, <3>3, <3>4
  <2> QED BY <2>2, <2>3
<1>8. \A n \in Nat : Decimal[n] \in Seq(DigitSet)
  BY <1>7
<1> QED BY <1>5, <1>6, <1>8

-----------------------------------------------------------------------------
(* Frames.                                                                 *)

LEMMA FrameInitShape == Init => FrameIsShaped
<1> SUFFICES ASSUME Init PROVE FrameIsShaped
  OBVIOUS
<1>1. CASE frame = <<>>
  BY <1>1 DEF FrameIsShaped, BASE_MESSAGE_LEN
<1>2. CASE FrameInit
  <2>1. PICK m \in Messages : frame = Encode(m)
    BY <1>2 DEF FrameInit
  <2>2. CASE \E id \in AttemptIds : m = Request(id)
    <3> PICK id \in AttemptIds : m = Request(id)
      BY <2>2
    <3>1. frame = <<1, 1, id>>
      BY <2>1 DEF Encode, Request, PROTOCOL_VERSION, KIND_REQUEST
    <3> QED BY <3>1 DEF FrameIsShaped
  <2>3. CASE \E id \in AttemptIds : m = Accepted(id)
    <3> PICK id \in AttemptIds : m = Accepted(id)
      BY <2>3
    <3>1. frame = <<1, 2, id>>
      BY <2>1 DEF Encode, Accepted, PROTOCOL_VERSION, KIND_REQUEST_ACCEPTED
    <3> QED BY <3>1 DEF FrameIsShaped
  <2>4. CASE \E id \in AttemptIds, r \in Reasons : m = Rejected(id, r)
    <3> PICK id \in AttemptIds, r \in Reasons : m = Rejected(id, r)
      BY <2>4
    <3>1. frame = <<1, 3, id, ToWire(r)>>
      BY <2>1 DEF Encode, Rejected, PROTOCOL_VERSION, KIND_REQUEST_REJECTED
    <3>2. ToWire(r) \in Nat
      BY DEF ToWire, Reasons
    <3> QED BY <3>1, <3>2 DEF FrameIsShaped
  <2> QED BY <2>2, <2>3, <2>4 DEF Messages
<1> QED BY <1>1, <1>2 DEF Init

LEMMA FrameStepShape == FrameIsShaped /\ [Next]_vars => FrameIsShaped'
<1> SUFFICES ASSUME FrameIsShaped, [Next]_vars PROVE FrameIsShaped'
  OBVIOUS
<1> USE DEF BASE_MESSAGE_LEN
<1>1. /\ frame \in Seq(AttemptIds \cup Nat) /\ Len(frame) \in Nat
      /\ Len(frame) >= 3 => frame[3] \in AttemptIds
  BY DEF FrameIsShaped
<1>2. CASE OverwriteByte
  <2>1. PICK k \in (1..Len(frame)) \ {3}, b \in Bytes : frame' = [frame EXCEPT ![k] = b]
    BY <1>2 DEF OverwriteByte
  <2>2. b \in AttemptIds \cup Nat
    BY FormatsAssumption
  <2>3. frame' \in Seq(AttemptIds \cup Nat) /\ Len(frame') = Len(frame)
    BY <1>1, <2>1, <2>2
  <2>4. Len(frame) >= 3 => frame'[3] = frame[3]
    BY <1>1, <2>1
  <2> QED BY <1>1, <2>3, <2>4 DEF FrameIsShaped
<1>3. CASE OverwriteId
  <2>1. PICK id \in AttemptIds : frame' = [frame EXCEPT ![3] = id]
    BY <1>3 DEF OverwriteId
  <2>2. frame' \in Seq(AttemptIds \cup Nat) /\ Len(frame') = Len(frame)
    <3>1. 3 \in 1..Len(frame) /\ id \in AttemptIds \cup Nat
      BY <1>1, <1>3 DEF OverwriteId
    <3> QED BY <1>1, <2>1, <3>1
  <2>3. Len(frame) >= 3 => frame'[3] = id
    BY <1>1, <2>1
  <2> QED BY <2>2, <2>3 DEF FrameIsShaped
<1>4. CASE Truncate
  <2>1. frame # <<>> /\ frame' = SubSeq(frame, 1, Len(frame) - 1)
    BY <1>4 DEF Truncate
  <2>2. Len(frame) - 1 \in 0..Len(frame)
    BY <1>1, <2>1
  <2>3. /\ frame' \in Seq(AttemptIds \cup Nat) /\ Len(frame') = Len(frame) - 1
        /\ \A i \in 1..(Len(frame) - 1) : frame'[i] = frame[i]
    <3> DEFINE n == Len(frame) - 1
    <3>1. n \in Nat /\ n \in 0..Len(frame)
      BY <1>1, <2>2
    <3> HIDE DEF n
    <3>2. \A i \in 1..n : i \in 1..Len(frame)
      BY <1>1, <3>1
    <3>3. SubSeq(frame, 1, n) \in Seq(AttemptIds \cup Nat) /\ Len(SubSeq(frame, 1, n)) = n
      BY <1>1, <3>1, <3>2
    <3>4. \A i \in 1..n : SubSeq(frame, 1, n)[i] = frame[i]
      BY <1>1, <3>1
    <3> QED BY <2>1, <3>3, <3>4 DEF n
  <2> QED BY <1>1, <2>3 DEF FrameIsShaped
<1>5. CASE Extend
  <2>1. PICK x : frame' = Append(frame, x) /\ x \in AttemptIds \cup Nat
                 /\ (Len(frame) = 2 => x \in AttemptIds)
    BY <1>5, FormatsAssumption DEF Extend
  <2>2. /\ frame' \in Seq(AttemptIds \cup Nat) /\ Len(frame') = Len(frame) + 1
        /\ \A i \in 1..Len(frame) : frame'[i] = frame[i]
        /\ frame'[Len(frame) + 1] = x
    BY <1>1, <2>1
  <2>3. CASE Len(frame) = 2
    BY <2>1, <2>2, <2>3 DEF FrameIsShaped
  <2>4. CASE Len(frame) >= 3
    <3>1. frame'[3] = frame[3]
      BY <1>1, <2>2, <2>4
    <3> QED BY <1>1, <2>2, <2>4, <3>1 DEF FrameIsShaped
  <2>5. CASE Len(frame) < 2
    BY <1>1, <2>2, <2>5 DEF FrameIsShaped
  <2> QED BY <1>1, <2>3, <2>4, <2>5
<1>6. CASE UNCHANGED frame
  BY <1>6 DEF FrameIsShaped
<1>7. OverwriteByte \/ OverwriteId \/ Truncate \/ Extend \/ UNCHANGED frame
  BY DEF Next, vars, Type, OnRecord, OnLine, Swap, ChangeCase, AddUnknown, DropEntry,
       Duplicate, Overwrite, EditCharacter, EditField
<1> QED BY <1>2, <1>3, <1>4, <1>5, <1>6, <1>7

\* A frame is accepted exactly when it is the encoding of a message, the one it
\* is then read as, whatever bytes were put into it, cut off or added.
THEOREM FramesAreInverted == Spec => []DecodeIsInverse
<1>1. FrameIsShaped => DecodeIsInverse
  <2> SUFFICES ASSUME FrameIsShaped PROVE DecodeIsInverse
    OBVIOUS
  <2> DEFINE d == Decode(frame)
             sources == {m \in Messages : Encode(m) = frame}
  <2>1. IF d.ok THEN d.value \in Messages /\ Encode(d.value) = frame
                ELSE d.value \in MessageErrors
    BY DecodesEncodings DEF FrameIsShaped
  <2>2. \A m \in sources : d = Ok(m)
    BY DecodeEncode
  <2> HIDE DEF d
  <2>3. CASE d.ok
    <3>1. d.value \in sources
      BY <2>1, <2>3
    <3>2. \A m \in sources : m = d.value
      BY <2>2 DEF Ok
    <3>3. sources = {d.value}
      <4> HIDE DEF sources
      <4> QED BY <3>1, <3>2
    <3> QED BY <2>3, <3>3 DEF DecodeIsInverse, d
  <2>4. CASE ~d.ok
    <3>1. sources = {}
      BY <2>2, <2>4 DEF Ok
    <3> QED BY <2>1, <2>4, <3>1 DEF DecodeIsInverse, d
  <2> QED BY <2>3, <2>4
<1>2. Spec => []FrameIsShaped
  BY FrameInitShape, FrameStepShape, PTL DEF Spec
<1> QED BY <1>1, <1>2, PTL

-----------------------------------------------------------------------------
(* Names on their way.                                                     *)

LEMMA TextSteps == Spec => []TextIsTyped
<1>1. Init => TextIsTyped
  BY DEF Init, TextIsTyped
<1>2. TextIsTyped /\ [Next]_vars => TextIsTyped'
  <2> SUFFICES ASSUME TextIsTyped, [Next]_vars PROVE TextIsTyped'
    OBVIOUS
  <2>1. CASE Type
    <3>1. PICK c \in Typed : text' = Append(text, c)
      BY <2>1 DEF Type
    <3> QED BY <3>1 DEF TextIsTyped
  <2>2. CASE UNCHANGED text
    BY <2>2 DEF TextIsTyped
  <2>3. Type \/ UNCHANGED text
    BY DEF Next, vars, OverwriteByte, OverwriteId, Truncate, Extend, OnFrame, OnRecord, OnLine,
         Swap, ChangeCase, AddUnknown, DropEntry, Duplicate, Overwrite, EditCharacter, EditField
  <2> QED BY <2>1, <2>2, <2>3
<1> QED BY <1>1, <1>2, PTL DEF Spec

\* What the file of a name gives back is the name.
LEMMA FileKeepsName ==
  ASSUME NEW S, NEW n \in Seq(S)
  PROVE  PersistedValue(Persisted(n)) = n
<1> DEFINE T == S \cup {"newline"}
           contents == Append(n, "newline")
<1>1. n \in Seq(T) /\ "newline" \in T /\ Len(n) \in Nat
  OBVIOUS
<1> HIDE DEF T
<1>2. /\ contents \in Seq(T) /\ contents # <<>> /\ Len(contents) = Len(n) + 1
      /\ contents[Len(n) + 1] = "newline" /\ \A i \in 1..Len(n) : contents[i] = n[i]
  BY <1>1, AppendProperties
<1> HIDE DEF contents
<1>3. PersistedValue(contents) = SubSeq(contents, 1, Len(n))
  BY <1>1, <1>2 DEF PersistedValue, Last, Front
<1>4. /\ SubSeq(contents, 1, Len(n)) \in Seq(T) /\ Len(SubSeq(contents, 1, Len(n))) = Len(n)
      /\ \A i \in 1..Len(n) : SubSeq(contents, 1, Len(n))[i] = contents[1 + i - 1]
  <2>1. 1 \in Int /\ Len(n) \in Int /\ \A i \in 1..Len(n) : contents[i] \in T
    BY <1>1, <1>2
  <2> QED BY <1>1, <2>1, SubSeqProperties
<1>5. SubSeq(contents, 1, Len(n)) = n
  <2>1. \A i \in 1..Len(n) : SubSeq(contents, 1, Len(n))[i] = n[i]
    BY <1>2, <1>4
  <2> QED BY <1>1, <1>4, <2>1, SeqEqual
<1> QED BY <1>3, <1>5 DEF Persisted, contents

\* A text made of what a user types, once trimmed, is a name its readers accept
\* as a hint when they get as much of it as fits.
LEMMA HintIsAccepted ==
  ASSUME NEW n \in Seq(Typed), n # <<>>, ~IsSpace(n[1]), \A i \in DOMAIN n : ~IsControl(n[i])
  PROVE  /\ OptionalName(HintOf(n)) = HintOf(n) /\ HintOf(n) # <<>> /\ IsPrefix(HintOf(n), n)
         /\ ByteLen(HintOf(n)) <= MAX_DISCOVERY_NAME_BYTES
         /\ \A k \in (Len(HintOf(n)) + 1)..Len(n) :
               ByteLen(SubSeq(n, 1, k)) > MAX_DISCOVERY_NAME_BYTES
<1>1. PICK k \in 0..Len(n) :
         /\ HintOf(n) = SubSeq(n, 1, k) /\ ByteLen(HintOf(n)) <= MAX_DISCOVERY_NAME_BYTES
         /\ \A j \in (k + 1)..Len(n) : ByteLen(SubSeq(n, 1, j)) > MAX_DISCOVERY_NAME_BYTES
  BY HintIsLongest
<1> DEFINE hint == HintOf(n)
<1>2. hint \in Seq(Typed) /\ Len(hint) = k
  BY <1>1, PrefixesOf
<1>3. \A i \in 1..k : hint[i] = n[i]
  <2>1. 1 \in Int /\ k \in Int /\ \A i \in 1..k : n[i] \in Typed
    BY <1>1
  <2>2. \A i \in 1..(k - 1 + 1) : SubSeq(n, 1, k)[i] = n[1 + i - 1]
    BY <2>1, SubSeqProperties
  <2>3. k - 1 + 1 = k
    BY <2>1
  <2>4. \A i \in 1..k : SubSeq(n, 1, k)[i] = n[i]
    BY <2>2, <2>3
  <2> QED BY <1>1, <2>4
<1>4. 1 \in 1..Len(n) /\ Len(n) \in Nat
  OBVIOUS
<1>5. k >= 1
  <2>1. SubSeq(n, 1, 1) = Append(SubSeq(n, 1, 0), n[1]) /\ n[1] \in Typed
    <3>1. 1 - 1 = 0
      OBVIOUS
    <3> QED BY <1>4, <3>1, PrefixesOf
  <2>2. ByteLen(SubSeq(n, 1, 1)) = ByteLen(SubSeq(n, 1, 0)) + Width(n[1])
    <3>1. 1 - 1 = 0
      OBVIOUS
    <3> QED BY <1>4, <3>1, PrefixBytes
  <2>3. ByteLen(SubSeq(n, 1, 0)) = 0
    <3>1. SubSeq(n, 1, 0) = <<>>
      BY PrefixesOf
    <3>2. ByteLen(<<>>) = 0
      BY BytesOf
    <3> QED BY <3>1, <3>2, Zenon
  <2>4. Width(n[1]) <= MAX_DISCOVERY_NAME_BYTES /\ Width(n[1]) \in Nat
    BY <2>1, TypedAssumption DEF Width
  <2>5. ByteLen(SubSeq(n, 1, 1)) <= MAX_DISCOVERY_NAME_BYTES
    BY <2>2, <2>3, <2>4
  <2>6. ByteLen(SubSeq(n, 1, 1)) \in Nat /\ MAX_DISCOVERY_NAME_BYTES \in Nat
    BY <2>2, <2>3, <2>4, TextAssumption
  <2>7. ~(1 \in (k + 1)..Len(n))
    BY <1>1, <2>5, <2>6
  <2> QED BY <1>1, <1>4, <2>7
<1> HIDE DEF hint
<1>6. hint # <<>> /\ 1 \in 1..k /\ DOMAIN hint = 1..k /\ hint[1] = n[1]
  BY <1>1, <1>2, <1>3, <1>5
<1>7. IsUtf8(hint)
  <2>1. \A i \in DOMAIN hint : hint[i] \in Typed
    BY <1>2
  <2> QED BY <2>1 DEF IsUtf8, Typed
<1>8. NameHintError(hint) = "none"
  <2>1. ~(ByteLen(hint) > MAX_DISCOVERY_NAME_BYTES)
    <3>1. ByteLen(hint) \in Nat /\ MAX_DISCOVERY_NAME_BYTES \in Nat
      BY <1>2, BytesOf, TextAssumption
    <3> QED BY <1>1, <3>1 DEF hint
  <2>2. Trimmed(hint) # <<>>
    <3>1. PICK a \in 1..Len(hint) : \E b \in a..Len(hint) : Trimmed(hint) = SubSeq(hint, a, b)
      BY <1>2, <1>6, TrimmedOf
    <3>2. PICK b \in a..Len(hint) : Trimmed(hint) = SubSeq(hint, a, b)
      BY <3>1
    <3>3. a \in Int /\ b \in Int /\ a <= b /\ \A i \in a..b : hint[i] \in Typed
      BY <1>2
    <3>4. Len(SubSeq(hint, a, b)) = b - a + 1
      BY <3>3, SubSeqProperties
    <3>5. Len(Trimmed(hint)) > 0
      BY <3>2, <3>3, <3>4
    <3> QED BY <3>5
  <2>3. ~\E i \in DOMAIN hint : IsControl(hint[i])
    <3>1. \A i \in 1..k : i \in DOMAIN n
      BY <1>1, <1>4
    <3> QED BY <1>3, <1>6, <3>1
  <2> QED BY <2>1, <2>2, <2>3 DEF NameHintError
<1>9. OptionalName(hint) = hint
  BY <1>7, <1>8 DEF OptionalName
<1>10. IsPrefix(hint, n)
  <2>1. SubSeq(hint, 1, Len(hint)) = hint
    BY <1>2, SubSeqFull
  <2> QED BY <1>1, <1>2, <1>4, <2>1 DEF IsPrefix, hint
<1> QED BY <1>1, <1>2, <1>6, <1>9, <1>10 DEF hint

\* A name that was accepted comes back from its file unchanged, and is announced
\* by the longest part of it that its readers accept, whatever text was typed.
THEOREM NamesAreKept == Spec => []NamesSurvive
<1>1. TextIsTyped => NamesSurvive
  <2> SUFFICES ASSUME TextIsTyped, DeviceNameError(text) = "none"
               PROVE  LET name == DeviceName(text)
                          hint == HintOf(name)
                          read == PersistedValue(Persisted(name))
                      IN  /\ DeviceNameError(read) = "none" /\ DeviceName(read) = name
                          /\ OptionalName(hint) = hint /\ hint # <<>> /\ IsPrefix(hint, name)
                          /\ \A k \in (Len(hint) + 1)..Len(name) :
                                ByteLen(SubSeq(name, 1, k)) > MAX_DISCOVERY_NAME_BYTES
    BY DEF NamesSurvive
  <2> DEFINE name == DeviceName(text)
  <2>1. text \in Seq(Typed) /\ name = Trimmed(text)
    BY DEF TextIsTyped, DeviceName
  <2>2. /\ \A i \in DOMAIN text : ~IsControl(text[i])
        /\ name # <<>> /\ ~(Len(name) > MAX_DEVICE_NAME_CHARS)
    BY <2>1 DEF DeviceNameError
  <2>3. /\ name \in Seq(Typed) /\ ~IsSpace(name[1]) /\ ~IsSpace(name[Len(name)])
        /\ \A i \in DOMAIN name : \E j \in DOMAIN text : name[i] = text[j]
    BY <2>1, <2>2, TrimmedPart
  <2> HIDE DEF name
  <2>4. \A i \in DOMAIN name : ~IsControl(name[i])
    BY <2>2, <2>3
  <2>5. Trimmed(name) = name
    BY <2>2, <2>3, TrimmedAlready
  <2>6. DeviceNameError(name) = "none" /\ DeviceName(name) = name
    BY <2>2, <2>4, <2>5 DEF DeviceNameError, DeviceName
  <2>7. PersistedValue(Persisted(name)) = name
    BY <2>3, FileKeepsName
  <2>8. /\ OptionalName(HintOf(name)) = HintOf(name) /\ HintOf(name) # <<>>
        /\ IsPrefix(HintOf(name), name)
        /\ \A k \in (Len(HintOf(name)) + 1)..Len(name) :
              ByteLen(SubSeq(name, 1, k)) > MAX_DISCOVERY_NAME_BYTES
    BY <2>2, <2>3, <2>4, HintIsAccepted
  <2> QED BY <2>6, <2>7, <2>8 DEF name
<1> QED BY <1>1, TextSteps, PTL

-----------------------------------------------------------------------------
(* Records.                                                                *)

LEMMA Removed ==
  ASSUME NEW S, NEW t \in Seq(S), NEW i \in DOMAIN t
  PROVE  /\ RemoveAt(t, i) \in Seq(S) /\ Len(RemoveAt(t, i)) = Len(t) - 1
         /\ \A j \in 1..(Len(t) - 1) : RemoveAt(t, i)[j] = IF j < i THEN t[j] ELSE t[j + 1]
<1> DEFINE a == SubSeq(t, 1, i - 1)
           b == SubSeq(t, i + 1, Len(t))
<1>1. i \in 1..Len(t) /\ Len(t) \in Nat
  OBVIOUS
<1>2. a \in Seq(S) /\ Len(a) = i - 1 /\ \A j \in 1..(i - 1) : a[j] = t[j]
  <2>1. i - 1 \in 0..Len(t) /\ 1 \in Int /\ i - 1 \in Int /\ \A j \in 1..(i - 1) : t[j] \in S
    BY <1>1
  <2>2. \A j \in 1..(i - 1 - 1 + 1) : a[j] = t[1 + j - 1]
    BY <2>1, SubSeqProperties
  <2>3. i - 1 - 1 + 1 = i - 1
    BY <1>1
  <2>4. \A j \in 1..(i - 1) : 1 + j - 1 = j
    BY <1>1
  <2>5. \A j \in 1..(i - 1) : a[j] = t[j]
    <3> HIDE DEF a
    <3> QED BY <2>2, <2>3, <2>4
  <2> QED BY <2>1, <2>5, PrefixesOf
<1>3. b \in Seq(S) /\ Len(b) = Len(t) - i /\ \A j \in 1..(Len(t) - i) : b[j] = t[i + j]
  <2>1. i + 1 \in Int /\ Len(t) \in Int /\ \A j \in (i + 1)..Len(t) : t[j] \in S
    BY <1>1
  <2>2. /\ b \in Seq(S) /\ Len(b) = IF i + 1 <= Len(t) THEN Len(t) - (i + 1) + 1 ELSE 0
        /\ \A j \in 1..(Len(t) - (i + 1) + 1) : b[j] = t[(i + 1) + j - 1]
    BY <2>1, SubSeqProperties
  <2>3. Len(t) - (i + 1) + 1 = Len(t) - i /\ (~(i + 1 <= Len(t)) => Len(t) - i = 0)
    BY <1>1
  <2>4. \A j \in 1..(Len(t) - i) : (i + 1) + j - 1 = i + j
    BY <1>1
  <2> HIDE DEF b
  <2> QED BY <2>2, <2>3, <2>4
<1> HIDE DEF a, b
<1>4. /\ a \o b \in Seq(S) /\ Len(a \o b) = Len(a) + Len(b)
      /\ \A j \in 1..(Len(a) + Len(b)) :
            (a \o b)[j] = IF j <= Len(a) THEN a[j] ELSE b[j - Len(a)]
  BY <1>2, <1>3, ConcatProperties
<1>5. Len(a \o b) = Len(t) - 1
  BY <1>1, <1>2, <1>3, <1>4
<1>6. ASSUME NEW j \in 1..(Len(t) - 1)
      PROVE  (a \o b)[j] = IF j < i THEN t[j] ELSE t[j + 1]
  <2>1. j \in 1..(Len(a) + Len(b))
    BY <1>1, <1>2, <1>3
  <2>2. CASE j < i
    <3>1. j <= Len(a) /\ j \in 1..(i - 1)
      BY <1>1, <1>2, <2>2
    <3> QED BY <1>2, <1>4, <2>1, <2>2, <3>1
  <2>3. CASE ~(j < i)
    <3>1. ~(j <= Len(a)) /\ j - Len(a) \in 1..(Len(t) - i) /\ i + (j - Len(a)) = j + 1
      BY <1>1, <1>2, <2>3
    <3>2. b[j - Len(a)] = t[j + 1]
      BY <1>3, <3>1
    <3> QED BY <1>4, <2>1, <2>3, <3>1, <3>2
  <2> QED BY <2>2, <2>3
<1> QED BY <1>4, <1>5, <1>6 DEF RemoveAt, a, b

LEMMA CharacterSets == Typed \subseteq Characters /\ DigitSet \subseteq Characters
BY DEF Typed, DigitSet, Characters

LEMMA DecimalIsText ==
  ASSUME NEW n \in Nat
  PROVE  Decimal[n] \in Seq(Characters)
<1>1. Decimal[n] \in Seq(DigitSet)
  BY DecimalDefined
<1> QED BY <1>1, CharacterSets, SeqMonotonic

LEMMA ValuesAreText == Values \subseteq Seq(Characters) /\ ForeignValues \subseteq Seq(Characters)
<1>1. Decimal[U16_MAX + 1] \in Seq(Characters)
  BY TextAssumption, DecimalIsText
<1>2. /\ {"1", "2", "0", "+", "broken", "letter", "newline", "space", "windows", "wide"}
           \subseteq Characters
  BY DEF Characters
<1>3. /\ <<>> \in Seq(Characters) /\ <<"1">> \in Seq(Characters)
      /\ <<"2">> \in Seq(Characters) /\ <<"0", "1">> \in Seq(Characters)
      /\ <<"+", "1">> \in Seq(Characters) /\ <<"broken">> \in Seq(Characters)
      /\ <<"letter">> \in Seq(Characters) /\ <<"newline">> \in Seq(Characters)
      /\ <<"space">> \in Seq(Characters) /\ <<"windows", "space">> \in Seq(Characters)
      /\ <<"wide", "wide">> \in Seq(Characters)
      /\ <<"wide", "wide", "wide">> \in Seq(Characters)
  BY <1>2
<1>4. ASSUME NEW v \in Values PROVE v \in Seq(Characters)
  <2> HIDE DEF Decimal
  <2> QED BY <1>1, <1>3, Zenon DEF Values
<1>5. ASSUME NEW v \in ForeignValues PROVE v \in Seq(Characters)
  BY <1>3, Zenon DEF ForeignValues
<1> QED BY <1>4, <1>5

\* What is announced.
LEMMA Announced ==
  ASSUME NEW m \in Announcements
  PROVE  /\ m = [protocols |-> m.protocols, name |-> m.name, platform |-> m.platform]
         /\ m.protocols \in Ranges /\ m.platform \in {<<>>, <<"windows">>}
         /\ m.name = <<>> \/ \E n \in ChosenNames : m.name = HintOf(n)
BY DEF Announcements, Metadata

LEMMA RangesOfMajors ==
  ASSUME NEW r \in Ranges
  PROVE  r = [min |-> r.min, max |-> r.max] /\ r.min \in Majors /\ r.max \in Majors /\ r.min <= r.max
BY DEF Ranges, ProtocolRange, ProtocolRangeValid

LEMMA MajorsAreNumbers == Majors \subseteq Nat
BY TextAssumption DEF Majors

\* The names chosen are trimmed texts that somebody could have typed.
LEMMA ChosenAreTyped ==
  ASSUME NEW n \in ChosenNames
  PROVE  n \in Seq(Typed)
<1>1. PICK t \in {<<"letter">>, <<"space", "letter", "space", "wide">>,
                  <<"wide", "wide", "letter">>} : n = Trimmed(t)
  BY DEF ChosenNames, DeviceName
<1>2. {"letter", "space", "wide"} \subseteq Typed
  BY DEF Typed
<1>3. /\ <<"letter">> \in Seq(Typed) /\ <<"wide", "wide", "letter">> \in Seq(Typed)
      /\ <<"space", "letter", "space", "wide">> \in Seq(Typed)
  BY <1>2
<1>4. t \in Seq(Typed)
  BY <1>3, Zenon
<1> QED BY <1>1, <1>4, TrimmedPart

\* The entries of an announcement.
LEMMA OwnShape ==
  ASSUME NEW m \in Announcements
  PROVE  ToTxtEntries(m) \in Seq(TxtEntries)
<1>1. m.protocols.min \in Nat /\ m.protocols.max \in Nat
  BY Announced, RangesOfMajors, MajorsAreNumbers
<1>2. m.name \in Seq(Characters)
  <2>1. CASE m.name = <<>>
    BY <2>1
  <2>2. ASSUME NEW n \in ChosenNames, m.name = HintOf(n)
        PROVE  m.name \in Seq(Characters)
    <3>1. PICK k \in 0..Len(n) : HintOf(n) = SubSeq(n, 1, k)
      BY ChosenAreTyped, HintIsLongest
    <3>2. HintOf(n) \in Seq(Typed)
      BY <3>1, ChosenAreTyped, PrefixesOf
    <3> QED BY <2>2, <3>2, CharacterSets, SeqMonotonic
  <2> QED BY <2>1, <2>2, Announced
<1>3. m.platform \in Seq(Characters)
  <2>1. "windows" \in Characters
    BY DEF Characters
  <2>2. <<>> \in Seq(Characters) /\ <<"windows">> \in Seq(Characters)
    BY <2>1
  <2> QED BY <2>2, Announced
<1>4. /\ Decimal[1] \in Seq(Characters) /\ Decimal[m.protocols.min] \in Seq(Characters)
      /\ Decimal[m.protocols.max] \in Seq(Characters)
  BY <1>1, DecimalIsText
<1>5. \A key \in KnownKeys, v \in Seq(Characters) : Entry(key, v) \in TxtEntries
  BY DEF Entry, TxtEntries
<1>6. {"dv", "pmin", "pmax", "name", "os"} = KnownKeys
  BY DEF KnownKeys
<1> DEFINE head == <<Entry("dv", Decimal[1]), Entry("pmin", Decimal[m.protocols.min]),
                     Entry("pmax", Decimal[m.protocols.max])>>
           name == IF m.name = <<>> THEN <<>> ELSE <<Entry("name", m.name)>>
           os == IF m.platform = <<>> THEN <<>> ELSE <<Entry("os", m.platform)>>
<1>7. head \in Seq(TxtEntries)
  <2>1. /\ Entry("dv", Decimal[1]) \in TxtEntries
        /\ Entry("pmin", Decimal[m.protocols.min]) \in TxtEntries
        /\ Entry("pmax", Decimal[m.protocols.max]) \in TxtEntries
    BY <1>4, <1>5, <1>6
  <2> QED BY <2>1
<1>8. name \in Seq(TxtEntries) /\ os \in Seq(TxtEntries)
  <2>1. Entry("name", m.name) \in TxtEntries /\ Entry("os", m.platform) \in TxtEntries
    BY <1>2, <1>3, <1>5, <1>6
  <2> QED BY <2>1
<1>9. ToTxtEntries(m) = head \o name \o os
  BY DEF ToTxtEntries, DISCOVERY_SCHEMA_VERSION
<1> HIDE DEF head, name, os
<1> QED BY <1>7, <1>8, <1>9, ConcatProperties

LEMMA EntryShape ==
  ASSUME NEW key \in KnownKeys \cup {"x"}, NEW v \in Seq(Characters)
  PROVE  Entry(key, v) \in TxtEntries
BY DEF Entry, TxtEntries

\* A record stays a sequence of entries whatever is done to it.
LEMMA RecordSteps == Spec => []RecordIsShaped
<1>1. Init => RecordIsShaped
  <2> SUFFICES ASSUME Init PROVE RecordIsShaped
    OBVIOUS
  <2>1. CASE RecordInit
    BY <2>1, OwnShape DEF RecordInit, RecordIsShaped
  <2>2. CASE record = <<>> /\ channel # "record"
    BY <2>2 DEF RecordIsShaped
  <2>3. RecordInit \/ (record = <<>> /\ channel # "record")
    BY DEF Init, FrameInit, NoRecord
  <2> QED BY <2>1, <2>2, <2>3
<1>2. RecordIsShaped /\ [Next]_vars => RecordIsShaped'
  <2> SUFFICES ASSUME RecordIsShaped, [Next]_vars PROVE RecordIsShaped'
    OBVIOUS
  <2>1. record \in Seq(TxtEntries) /\ Len(record) \in Nat /\ DOMAIN record = 1..Len(record)
    BY DEF RecordIsShaped
  <2>2. \A i \in DOMAIN record :
           record[i] \in TxtEntries /\ record[i].upper \in BOOLEAN /\ record[i].value \in Seq(Characters)
           /\ record[i].key \in KnownKeys \cup {"x"}
    <3>1. \A e \in TxtEntries :
             e.upper \in BOOLEAN /\ e.value \in Seq(Characters) /\ e.key \in KnownKeys \cup {"x"}
      BY DEF TxtEntries
    <3> QED BY <2>1, <3>1
  <2>3. CASE OnRecord /\ record' \in Seq(TxtEntries)
    BY <2>3 DEF OnRecord, RecordIsShaped
  <2>4. CASE UNCHANGED <<channel, sent, record>>
    BY <2>4 DEF RecordIsShaped
  <2>5. CASE Swap
    <3>1. PICK i \in 1..(Len(record) - 1) :
             record' = [record EXCEPT ![i] = record[i + 1], ![i + 1] = record[i]]
      BY <2>5 DEF Swap
    <3>2. i \in 1..Len(record) /\ i + 1 \in 1..Len(record)
      BY <2>1
    <3>3. record[i] \in TxtEntries /\ record[i + 1] \in TxtEntries
      BY <2>1, <3>2
    <3>4. record' \in Seq(TxtEntries)
      BY <2>1, <3>1, <3>2, <3>3
    <3> QED BY <2>3, <2>5, <3>4 DEF Swap
  <2>6. CASE ChangeCase
    <3>1. PICK i \in DOMAIN record : record' = [record EXCEPT ![i].upper = ~@]
      BY <2>6 DEF ChangeCase
    <3>2. [record[i] EXCEPT !.upper = ~record[i].upper] \in TxtEntries
      BY <2>2 DEF TxtEntries
    <3>3. record' \in Seq(TxtEntries)
      BY <2>1, <3>1, <3>2
    <3> QED BY <2>3, <2>6, <3>3 DEF ChangeCase
  <2>7. CASE AddUnknown
    <3>1. PICK v \in ForeignValues : record' = Append(record, Entry("x", v))
      BY <2>7 DEF AddUnknown
    <3>2. Entry("x", v) \in TxtEntries
      BY ValuesAreText, EntryShape
    <3>3. record' \in Seq(TxtEntries)
      BY <2>1, <3>1, <3>2
    <3> QED BY <2>3, <2>7, <3>3 DEF AddUnknown
  <2>8. CASE DropEntry
    <3>1. PICK i \in DOMAIN record : record' = RemoveAt(record, i)
      BY <2>8 DEF DropEntry
    <3>2. record' \in Seq(TxtEntries)
      BY <2>1, <3>1, Removed
    <3> QED BY <2>3, <2>8, <3>2 DEF DropEntry
  <2>9. CASE Duplicate
    <3>1. PICK i \in DOMAIN record, v \in Values :
             record' = Append(record, [record[i] EXCEPT !.upper = ~@, !.value = v])
      BY <2>9 DEF Duplicate
    <3>2. [record[i] EXCEPT !.upper = ~record[i].upper, !.value = v] \in TxtEntries
      BY <2>2, ValuesAreText DEF TxtEntries
    <3>3. record' \in Seq(TxtEntries)
      BY <2>1, <3>1, <3>2
    <3> QED BY <2>3, <2>9, <3>3 DEF Duplicate
  <2>10. CASE Overwrite
    <3>1. PICK i \in DOMAIN record, v \in Values : record' = [record EXCEPT ![i].value = v]
      BY <2>10 DEF Overwrite
    <3>2. [record[i] EXCEPT !.value = v] \in TxtEntries
      BY <2>2, ValuesAreText DEF TxtEntries
    <3>3. record' \in Seq(TxtEntries)
      BY <2>1, <3>1, <3>2
    <3> QED BY <2>3, <2>10, <3>3 DEF Overwrite
  <2>11. \/ Swap \/ ChangeCase \/ AddUnknown \/ DropEntry \/ Duplicate \/ Overwrite
         \/ UNCHANGED <<channel, sent, record>>
    BY DEF Next, vars, recordVars, OverwriteByte, OverwriteId, Truncate, Extend, OnFrame, Type,
         OnLine, EditCharacter, EditField
  <2> QED BY <2>4, <2>5, <2>6, <2>7, <2>8, <2>9, <2>10, <2>11
<1> QED BY <1>1, <1>2, PTL DEF Spec

\* In a record without duplicates an entry of a known key is the only one.
LEMMA OnlyPlace ==
  ASSUME NEW r \in Seq(TxtEntries), ~DuplicateKnownKey(r), NEW key \in KnownKeys,
         Places(r, key) # {}
  PROVE  \E i \in DOMAIN r : Places(r, key) = {i} /\ Value(r, key) = r[i].value
<1>1. IsFiniteSet(Places(r, key))
  <2>1. Len(r) \in Nat /\ DOMAIN r = 1..Len(r)
    OBVIOUS
  <2>2. IsFiniteSet(1..Len(r))
    BY <2>1, FS_Interval
  <2>3. Places(r, key) \subseteq 1..Len(r)
    BY <2>1 DEF Places
  <2> QED BY <2>2, <2>3, FS_Subset
<1>2. Cardinality(Places(r, key)) \in Nat /\ ~(Cardinality(Places(r, key)) > 1)
  BY <1>1, FS_CardinalityType DEF DuplicateKnownKey
<1>3. Cardinality(Places(r, key)) # 0
  BY <1>1, FS_EmptySet
<1>4. PICK i : Places(r, key) = {i}
  <2>1. Cardinality(Places(r, key)) = 1
    BY <1>2, <1>3
  <2> QED BY <1>1, <2>1, FS_Singleton
<1>5. i \in DOMAIN r
  BY <1>4 DEF Places
<1>6. Value(r, key) = r[i].value
  BY <1>4 DEF Value
<1> QED BY <1>4, <1>5, <1>6

\* A number that is required stands in the record in the one spelling it has.
LEMMA RequiredIsThere ==
  ASSUME NEW r \in Seq(TxtEntries), ~DuplicateKnownKey(r), NEW key \in KnownKeys,
         RequiredError(r, key) = "none"
  PROVE  \E i \in DOMAIN r : Places(r, key) = {i} /\ r[i].value = Decimal[Required(r, key)]
<1>1. Places(r, key) # {} /\ RequiredDecimal(Value(r, key)) # {}
  BY DEF RequiredError
<1>2. PICK i \in DOMAIN r : Places(r, key) = {i} /\ Value(r, key) = r[i].value
  BY <1>1, OnlyPlace
<1>3. Required(r, key) \in RequiredDecimal(Value(r, key))
  BY <1>1 DEF Required
<1>4. Decimal[Required(r, key)] = Value(r, key)
  BY <1>3, Zenon DEF RequiredDecimal, CanonicalU16
<1> QED BY <1>2, <1>4

\* A number that is required is one of 16 bits.
LEMMA RequiredIsU16 ==
  ASSUME NEW r, NEW key, RequiredError(r, key) = "none"
  PROVE  Required(r, key) \in 0..U16_MAX
<1>1. RequiredDecimal(Value(r, key)) # {}
  BY DEF RequiredError
<1>2. Required(r, key) \in RequiredDecimal(Value(r, key))
  BY <1>1 DEF Required
<1>3. \A t : ParsesAsU16(t) \subseteq 0..U16_MAX
  BY Zenon DEF ParsesAsU16
<1>4. \A t : RequiredDecimal(t) \subseteq 0..U16_MAX
  BY <1>3, Zenon DEF RequiredDecimal, CanonicalU16
<1> QED BY <1>2, <1>4

\* The entries metadata is written as, one by one.
LEMMA EntriesOf ==
  ASSUME NEW m
  PROVE  /\ \A e \in ToSet(ToTxtEntries(m)) :
               e \in {Entry("dv", Decimal[1]), Entry("pmin", Decimal[m.protocols.min]),
                      Entry("pmax", Decimal[m.protocols.max])}
                     \cup {n \in {Entry("name", m.name)} : m.name # <<>>}
                     \cup {o \in {Entry("os", m.platform)} : m.platform # <<>>}
<1> DEFINE dv == Entry("dv", Decimal[1])
           pmin == Entry("pmin", Decimal[m.protocols.min])
           pmax == Entry("pmax", Decimal[m.protocols.max])
           nm == Entry("name", m.name)
           pf == Entry("os", m.platform)
           T == {dv, pmin, pmax} \cup {n \in {nm} : m.name # <<>>}
                                 \cup {o \in {pf} : m.platform # <<>>}
           name == IF m.name = <<>> THEN <<>> ELSE <<nm>>
           os == IF m.platform = <<>> THEN <<>> ELSE <<pf>>
<1>1. ToTxtEntries(m) = <<dv, pmin, pmax>> \o name \o os
  BY DEF ToTxtEntries, DISCOVERY_SCHEMA_VERSION
<1>2. dv \in T /\ pmin \in T /\ pmax \in T
  OBVIOUS
<1>3. (m.name # <<>> => nm \in T) /\ (m.platform # <<>> => pf \in T)
  OBVIOUS
<1> HIDE DEF dv, pmin, pmax, nm, pf, T
<1>4. <<dv, pmin, pmax>> \in Seq(T) /\ name \in Seq(T) /\ os \in Seq(T)
  BY <1>2, <1>3
<1> HIDE DEF name, os
<1>5. ToTxtEntries(m) \in Seq(T)
  BY <1>1, <1>4, ConcatProperties
<1>6. \A e \in ToSet(ToTxtEntries(m)) : e \in T
  BY <1>5 DEF ToSet
<1> QED BY <1>6 DEF T, dv, pmin, pmax, nm, pf

\* What a reader makes of a record, written out again, is the record's own entry
\* of each key, the only one it has, and its versions are a range of 16 bits.
THEOREM RecordsAreRead == Spec => []ReadsOnlyWhatWasSent
<1>1. RecordIsShaped => ReadsOnlyWhatWasSent
  <2> SUFFICES ASSUME RecordIsShaped PROVE ReadsOnlyWhatWasSent
    OBVIOUS
  <2>1. record \in Seq(TxtEntries)
    BY DEF RecordIsShaped
  <2>2. CASE TxtError(record) # "none"
    <3>1. TxtError(record) \in MetadataErrors
      BY <2>2 DEF TxtError, RequiredError, MetadataErrors
    <3> QED BY <2>2, <3>1 DEF ReadsOnlyWhatWasSent
  <2>3. CASE TxtError(record) = "none"
    <3> DEFINE m == TxtMetadata(record)
               Found(e) == \E i \in DOMAIN record :
                              Places(record, e.key) = {i} /\ record[i].value = e.value
    <3>1. /\ ~DuplicateKnownKey(record) /\ RequiredError(record, "dv") = "none"
          /\ Required(record, "dv") = 1
          /\ RequiredError(record, "pmin") = "none" /\ RequiredError(record, "pmax") = "none"
          /\ Required(record, "pmin") <= Required(record, "pmax")
      BY <2>3 DEF TxtError, DISCOVERY_SCHEMA_VERSION, RequiredError, ProtocolRangeValid
    <3>2. /\ m.protocols.min = Required(record, "pmin")
          /\ m.protocols.max = Required(record, "pmax")
          /\ m.name = IF Places(record, "name") = {} THEN <<>>
                      ELSE OptionalName(Value(record, "name"))
          /\ m.platform = IF Places(record, "os") = {} THEN <<>>
                          ELSE OptionalPlatform(Value(record, "os"))
      BY DEF TxtMetadata, Metadata, ProtocolRange
    <3> HIDE DEF m
    <3>3. {"dv", "pmin", "pmax", "name", "os"} = KnownKeys
      BY DEF KnownKeys
    <3>4. Found(Entry("dv", Decimal[1]))
      BY <2>1, <3>1, <3>3, RequiredIsThere DEF Entry
    <3>5. Found(Entry("pmin", Decimal[m.protocols.min]))
      BY <2>1, <3>1, <3>2, <3>3, RequiredIsThere DEF Entry
    <3>6. Found(Entry("pmax", Decimal[m.protocols.max]))
      BY <2>1, <3>1, <3>2, <3>3, RequiredIsThere DEF Entry
    <3>7. m.name # <<>> => Found(Entry("name", m.name))
      <4> SUFFICES ASSUME m.name # <<>> PROVE Found(Entry("name", m.name))
        OBVIOUS
      <4>1. Places(record, "name") # {} /\ m.name = Value(record, "name")
        BY <3>2 DEF OptionalName
      <4> QED BY <2>1, <3>1, <3>3, <4>1, OnlyPlace DEF Entry
    <3>8. m.platform # <<>> => Found(Entry("os", m.platform))
      <4> SUFFICES ASSUME m.platform # <<>> PROVE Found(Entry("os", m.platform))
        OBVIOUS
      <4>1. Places(record, "os") # {} /\ m.platform = Value(record, "os")
        BY <3>2 DEF OptionalPlatform
      <4> QED BY <2>1, <3>1, <3>3, <4>1, OnlyPlace DEF Entry
    <3>9. \A e \in ToSet(ToTxtEntries(m)) : Found(e)
      <4> HIDE DEF Found
      <4> QED BY <3>4, <3>5, <3>6, <3>7, <3>8, EntriesOf
    <3>10. /\ 0 <= m.protocols.min /\ m.protocols.min <= m.protocols.max
           /\ m.protocols.max <= U16_MAX
      <4>1. Required(record, "pmin") \in 0..U16_MAX /\ Required(record, "pmax") \in 0..U16_MAX
        BY <3>1, RequiredIsU16
      <4> QED BY <3>1, <3>2, <4>1
    <3> QED BY <2>3, <3>9, <3>10 DEF ReadsOnlyWhatWasSent, m
  <2> QED BY <2>2, <2>3
<1> QED BY <1>1, RecordSteps, PTL

-----------------------------------------------------------------------------
(* The size of a record.                                                   *)

LEMMA EntrySize ==
  ASSUME NEW e \in TxtEntries
  PROVE  EncodedSize(e) \in Nat /\ KeyBytes(e.key) \in Nat /\ ByteLen(e.value) \in Nat
<1>1. e.key \in KnownKeys \cup {"x"} /\ e.value \in Seq(Characters)
  BY DEF TxtEntries
<1>2. ByteLen(e.value) \in Nat
  BY <1>1, BytesOf
<1>3. KeyBytes(e.key) \in Nat
  BY <1>1 DEF KeyBytes, KnownKeys
<1> QED BY <1>2, <1>3 DEF EncodedSize

SizeStep(t) == [i \in 1..Len(t) |-> [b \in Nat |-> b + EncodedSize(t[i])]]

LEMMA SizeChain ==
  ASSUME NEW t \in Seq(TxtEntries)
  PROVE  \E v : Chain(v, Len(t), Nat, 0, SizeStep(t)) /\ TotalSize(t) = v[Len(t)]
<1> DEFINE n == Len(t)
           step == SizeStep(t)
           Eq(f) == f = [s \in SUBSET (1..n) |->
                           IF s = {} THEN 0 ELSE f[s \ {Max(s)}] + EncodedSize(t[Max(s)])]
           g == CHOOSE f : Eq(f)
<1>1. n \in Nat /\ DOMAIN t = 1..n /\ 0 \in Nat
  OBVIOUS
<1>2. TotalSize(t) = g[1..n]
  BY <1>1 DEF TotalSize, FoldLeft, MapThenFoldSet
<1>3. /\ step \in [1..n -> [Nat -> Nat]]
      /\ \A i \in 1..n : \A b \in Nat : step[i][b] = b + EncodedSize(t[i])
  <2>1. \A i \in 1..n : EncodedSize(t[i]) \in Nat
    BY <1>1, EntrySize
  <2> QED BY <2>1 DEF SizeStep
<1> HIDE DEF n, step
<1>4. \E f : Eq(f)
  <2>1. PICK f \in [SUBSET (1..n) -> Nat] : TakesGreatestLast(f, n, 0, step)
    BY <1>1, <1>3, SetRecursion
  <2>2. ASSUME NEW s \in SUBSET (1..n), s # {}
        PROVE  step[Max(s)][f[s \ {Max(s)}]] = f[s \ {Max(s)}] + EncodedSize(t[Max(s)])
    BY <1>1, <1>3, <2>2, MaxOfPositions
  <2>3. \A s \in SUBSET (1..n) :
           f[s] = IF s = {} THEN 0 ELSE f[s \ {Max(s)}] + EncodedSize(t[Max(s)])
    BY <2>1, <2>2 DEF TakesGreatestLast
  <2> QED BY <2>3
<1>5. Eq(g)
  <2> HIDE DEF Eq
  <2> QED BY <1>4
<1> HIDE DEF g
<1>6. g[{}] = 0
  BY <1>5
<1>7. ASSUME NEW s \in SUBSET (1..n), s # {}, g[s \ {Max(s)}] \in Nat
      PROVE  g[s] = step[Max(s)][g[s \ {Max(s)}]]
  BY <1>1, <1>3, <1>5, <1>7, MaxOfPositions
<1> DEFINE v == [k \in 0..n |-> g[1..k]]
<1>8. Chain(v, n, Nat, 0, step)
  <2>1. Follows(g, n, Nat, 0, step)
    BY <1>6, <1>7 DEF Follows
  <2> QED BY <1>1, <1>3, <2>1, FoldChain
<1>9. v[n] = g[1..n]
  BY <1>1
<1> HIDE DEF v
<1> QED BY <1>2, <1>8, <1>9 DEF n, step

LEMMA SizesOf ==
  ASSUME NEW t \in Seq(TxtEntries)
  PROVE  /\ TotalSize(<<>>) = 0 /\ TotalSize(t) \in Nat
         /\ \A c \in TxtEntries : TotalSize(Append(t, c)) = TotalSize(t) + EncodedSize(c)
<1>1. <<>> \in Seq(TxtEntries) /\ Len(<<>>) = 0 /\ Len(t) \in Nat
  OBVIOUS
<1>2. PICK u : Chain(u, Len(t), Nat, 0, SizeStep(t)) /\ TotalSize(t) = u[Len(t)]
  BY SizeChain
<1>3. PICK e : Chain(e, Len(<<>>), Nat, 0, SizeStep(<<>>)) /\ TotalSize(<<>>) = e[Len(<<>>)]
  BY <1>1, SizeChain
<1>4. TotalSize(<<>>) = 0 /\ TotalSize(t) \in Nat
  BY <1>1, <1>2, <1>3 DEF Chain
<1>5. ASSUME NEW c \in TxtEntries
      PROVE  TotalSize(Append(t, c)) = TotalSize(t) + EncodedSize(c)
  <2> DEFINE r == Append(t, c)
  <2>1. /\ r \in Seq(TxtEntries) /\ Len(r) = Len(t) + 1 /\ r[Len(t) + 1] = c
        /\ \A i \in 1..Len(t) : r[i] = t[i]
    OBVIOUS
  <2> HIDE DEF r
  <2>2. PICK v : Chain(v, Len(t) + 1, Nat, 0, SizeStep(r)) /\ TotalSize(r) = v[Len(t) + 1]
    BY <2>1, SizeChain
  <2>3. SameSteps(Len(t), SizeStep(t), SizeStep(r))
    BY <1>1, <2>1 DEF SizeStep, SameSteps
  <2>4. v[Len(t) + 1] = SizeStep(r)[Len(t) + 1][u[Len(t)]]
    <3> DEFINE n == Len(t)
               p == SizeStep(t)
               q == SizeStep(r)
    <3>1. n \in Nat /\ Chain(u, n, Nat, 0, p)
      BY <1>1, <1>2, Zenon
    <3>2. Chain(v, n + 1, Nat, 0, q) /\ SameSteps(n, p, q)
      BY <2>2, <2>3, Zenon
    <3> HIDE DEF n, p, q
    <3>3. v[n + 1] = q[n + 1][u[n]]
      BY <3>1, <3>2, ChainGrows
    <3> QED BY <3>3 DEF n, p, q
  <2>5. Len(t) + 1 \in 1..Len(r)
    BY <1>1, <2>1
  <2> QED BY <1>2, <1>4, <2>1, <2>2, <2>4, <2>5 DEF SizeStep, r
<1> QED BY <1>4, <1>5

-----------------------------------------------------------------------------
(* What a decimal stands for.                                              *)

NumberOf(t) == FoldLeft(LAMBDA n, c : 10 * n + DigitValue(c), 0, t)

LEMMA DigitValues ==
  /\ \A c \in DigitSet : DigitValue(c) \in 0..9
  /\ \A n \in 0..9 : DigitValue(Digits[n + 1]) = n
<1>1. DOMAIN Digits = 1..10
  BY DEF Digits
<1>2. ASSUME NEW n \in 0..9
      PROVE  DigitValue(Digits[n + 1]) = n
  <2>1. \A i \in 1..10 : Digits[i] = Digits[n + 1] => i = n + 1
    BY DEF Digits
  <2>2. n + 1 \in 1..10
    OBVIOUS
  <2> DEFINE place == CHOOSE i \in DOMAIN Digits : Digits[i] = Digits[n + 1]
  <2>3. place = n + 1
    BY <1>1, <2>1, <2>2
  <2>4. DigitValue(Digits[n + 1]) = place - 1
    BY Zenon DEF DigitValue
  <2> HIDE DEF place
  <2> QED BY <2>3, <2>4
<1>3. ASSUME NEW c \in DigitSet
      PROVE  \E n \in 0..9 : c = Digits[n + 1]
  BY DEF DigitSet, Digits
<1> QED BY <1>2, <1>3

ValueStep(t) == [i \in 1..Len(t) |-> [b \in Nat |-> 10 * b + DigitValue(t[i])]]

LEMMA ValueChain ==
  ASSUME NEW t \in Seq(DigitSet)
  PROVE  \E v : Chain(v, Len(t), Nat, 0, ValueStep(t)) /\ NumberOf(t) = v[Len(t)]
<1> DEFINE n == Len(t)
           step == ValueStep(t)
           Eq(f) == f = [s \in SUBSET (1..n) |->
                           IF s = {} THEN 0 ELSE 10 * f[s \ {Max(s)}] + DigitValue(t[Max(s)])]
           g == CHOOSE f : Eq(f)
<1>1. n \in Nat /\ DOMAIN t = 1..n /\ 0 \in Nat
  OBVIOUS
<1>2. NumberOf(t) = g[1..n]
  BY <1>1 DEF NumberOf, FoldLeft, MapThenFoldSet
<1>3. /\ step \in [1..n -> [Nat -> Nat]]
      /\ \A i \in 1..n : \A b \in Nat : step[i][b] = 10 * b + DigitValue(t[i])
  <2>1. \A i \in 1..n : DigitValue(t[i]) \in Nat
    BY <1>1, DigitValues
  <2> QED BY <2>1 DEF ValueStep
<1> HIDE DEF n, step
<1>4. \E f : Eq(f)
  <2>1. PICK f \in [SUBSET (1..n) -> Nat] : TakesGreatestLast(f, n, 0, step)
    BY <1>1, <1>3, SetRecursion
  <2>2. ASSUME NEW s \in SUBSET (1..n), s # {}
        PROVE  step[Max(s)][f[s \ {Max(s)}]] = 10 * f[s \ {Max(s)}] + DigitValue(t[Max(s)])
    BY <1>1, <1>3, <2>2, MaxOfPositions
  <2>3. \A s \in SUBSET (1..n) :
           f[s] = IF s = {} THEN 0 ELSE 10 * f[s \ {Max(s)}] + DigitValue(t[Max(s)])
    BY <2>1, <2>2 DEF TakesGreatestLast
  <2> QED BY <2>3
<1>5. Eq(g)
  <2> HIDE DEF Eq
  <2> QED BY <1>4
<1> HIDE DEF g
<1>6. g[{}] = 0
  BY <1>5
<1>7. ASSUME NEW s \in SUBSET (1..n), s # {}, g[s \ {Max(s)}] \in Nat
      PROVE  g[s] = step[Max(s)][g[s \ {Max(s)}]]
  BY <1>1, <1>3, <1>5, <1>7, MaxOfPositions
<1> DEFINE v == [k \in 0..n |-> g[1..k]]
<1>8. Chain(v, n, Nat, 0, step)
  <2>1. Follows(g, n, Nat, 0, step)
    BY <1>6, <1>7 DEF Follows
  <2> QED BY <1>1, <1>3, <2>1, FoldChain
<1>9. v[n] = g[1..n]
  BY <1>1
<1> HIDE DEF v
<1> QED BY <1>2, <1>8, <1>9 DEF n, step

LEMMA ValuesOf ==
  ASSUME NEW t \in Seq(DigitSet)
  PROVE  /\ NumberOf(<<>>) = 0 /\ NumberOf(t) \in Nat
         /\ \A c \in DigitSet : NumberOf(Append(t, c)) = 10 * NumberOf(t) + DigitValue(c)
<1>1. <<>> \in Seq(DigitSet) /\ Len(<<>>) = 0 /\ Len(t) \in Nat
  OBVIOUS
<1>2. PICK u : Chain(u, Len(t), Nat, 0, ValueStep(t)) /\ NumberOf(t) = u[Len(t)]
  BY ValueChain
<1>3. PICK e : Chain(e, Len(<<>>), Nat, 0, ValueStep(<<>>)) /\ NumberOf(<<>>) = e[Len(<<>>)]
  BY <1>1, ValueChain
<1>4. NumberOf(<<>>) = 0 /\ NumberOf(t) \in Nat
  BY <1>1, <1>2, <1>3 DEF Chain
<1>5. ASSUME NEW c \in DigitSet
      PROVE  NumberOf(Append(t, c)) = 10 * NumberOf(t) + DigitValue(c)
  <2> DEFINE r == Append(t, c)
  <2>1. /\ r \in Seq(DigitSet) /\ Len(r) = Len(t) + 1 /\ r[Len(t) + 1] = c
        /\ \A i \in 1..Len(t) : r[i] = t[i]
    OBVIOUS
  <2> HIDE DEF r
  <2>2. PICK v : Chain(v, Len(t) + 1, Nat, 0, ValueStep(r)) /\ NumberOf(r) = v[Len(t) + 1]
    BY <2>1, ValueChain
  <2>3. SameSteps(Len(t), ValueStep(t), ValueStep(r))
    BY <1>1, <2>1 DEF ValueStep, SameSteps
  <2>4. v[Len(t) + 1] = ValueStep(r)[Len(t) + 1][u[Len(t)]]
    <3> DEFINE n == Len(t)
               p == ValueStep(t)
               q == ValueStep(r)
    <3>1. n \in Nat /\ Chain(u, n, Nat, 0, p)
      BY <1>1, <1>2, Zenon
    <3>2. Chain(v, n + 1, Nat, 0, q) /\ SameSteps(n, p, q)
      BY <2>2, <2>3, Zenon
    <3> HIDE DEF n, p, q
    <3>3. v[n + 1] = q[n + 1][u[n]]
      BY <3>1, <3>2, ChainGrows
    <3> QED BY <3>3 DEF n, p, q
  <2>5. Len(t) + 1 \in 1..Len(r)
    BY <1>1, <2>1
  <2> QED BY <1>2, <1>4, <2>1, <2>2, <2>4, <2>5 DEF ValueStep, r
<1> QED BY <1>4, <1>5

\* parse undoes to_string.
LEMMA DecimalValue ==
  ASSUME NEW n \in Nat
  PROVE  NumberOf(Decimal[n]) = n /\ Decimal[n] \in Seq(DigitSet) /\ Decimal[n] # <<>>
<1> DEFINE Bad == {k \in Nat : NumberOf(Decimal[k]) # k \/ Decimal[k] = <<>>}
<1> SUFFICES ASSUME Bad # {} PROVE FALSE
  BY DecimalDefined
<1>1. PICK k \in Bad : \A m \in Bad : k <= m
  <2>1. Bad \in SUBSET Nat
    OBVIOUS
  <2> HIDE DEF Bad
  <2> QED BY <2>1, Least
<1>2. k \in Nat /\ (NumberOf(Decimal[k]) # k \/ Decimal[k] = <<>>)
  OBVIOUS
<1>3. CASE k < 10
  <2>1. k \in 0..9
    BY <1>2, <1>3
  <2>2. Decimal[k] = <<Digits[k + 1]>>
    BY <1>2, <1>3, DecimalDefined DEF DecimalStep
  <2>3. Digits[k + 1] \in DigitSet /\ DigitValue(Digits[k + 1]) = k
    BY <2>1, DigitsAreDigits, DigitValues
  <2>4. <<>> \in Seq(DigitSet) /\ Append(<<>>, Digits[k + 1]) = <<Digits[k + 1]>>
    OBVIOUS
  <2>5. NumberOf(<<Digits[k + 1]>>) = 10 * NumberOf(<<>>) + k /\ NumberOf(<<>>) = 0
    BY <2>3, <2>4, ValuesOf
  <2>6. NumberOf(Decimal[k]) = k
    BY <1>2, <2>2, <2>5
  <2> QED BY <1>2, <2>2, <2>6
<1>4. CASE ~(k < 10)
  <2> DEFINE q == k \div 10
             d == k % 10
  <2>1. q \in Nat /\ d \in 0..9 /\ k = 10 * q + d /\ q < k
    BY <1>2, <1>4, Tens
  <2>2. Decimal[k] = Append(Decimal[q], Digits[d + 1])
    BY <1>2, <1>4, DecimalDefined DEF DecimalStep
  <2>3. Digits[d + 1] \in DigitSet /\ DigitValue(Digits[d + 1]) = d
    BY <2>1, DigitsAreDigits, DigitValues
  <2>4. Decimal[q] \in Seq(DigitSet)
    BY <2>1, DecimalDefined
  <2>5. ~(k <= q)
    BY <1>2, <2>1
  <2> HIDE DEF q, d
  <2>6. NumberOf(Decimal[q]) = q
    BY <1>1, <2>1, <2>5
  <2>7. NumberOf(Decimal[k]) = 10 * NumberOf(Decimal[q]) + DigitValue(Digits[d + 1])
    BY <2>2, <2>3, <2>4, ValuesOf
  <2>8. NumberOf(Decimal[k]) = k
    BY <2>1, <2>3, <2>6, <2>7
  <2>9. Decimal[k] # <<>>
    BY <2>2, <2>3, <2>4
  <2> QED BY <1>2, <2>8, <2>9
<1> QED BY <1>3, <1>4

\* The decimal of a number is the one spelling of it that is taken.
THEOREM DecimalIsCanonical ==
  ASSUME NEW n \in 0..U16_MAX
  PROVE  CanonicalU16(Decimal[n]) = {n}
<1> DEFINE t == Decimal[n]
<1>1. n \in Nat /\ t \in Seq(DigitSet) /\ t # <<>> /\ NumberOf(t) = n
  BY DecimalValue, TextAssumption
<1> HIDE DEF t
<1>2. \A i \in DOMAIN t : t[i] \in ToSet(Digits)
  <2>1. \A i \in DOMAIN t : t[i] \in DigitSet
    BY <1>1
  <2>2. DigitSet \subseteq ToSet(Digits)
    <3>1. \A c \in DigitSet : \E i \in 1..10 : c = Digits[i]
      BY DEF DigitSet, Digits
    <3>2. DOMAIN Digits = 1..10
      BY DEF Digits
    <3> QED BY <3>1, <3>2 DEF ToSet
  <2> QED BY <2>1, <2>2
<1>3. Head(t) # "+"
  <2>1. Head(t) \in DigitSet
    BY <1>1
  <2> QED BY <2>1 DEF DigitSet
<1>4. ParsesAsU16(t) = {NumberOf(t)} \cap 0..U16_MAX
  BY <1>1, <1>2, <1>3 DEF ParsesAsU16, NumberOf
<1>5. ParsesAsU16(t) = {n}
  BY <1>1, <1>4
<1> QED BY <1>5 DEF CanonicalU16, t

-----------------------------------------------------------------------------
(* What an announcement takes.                                             *)

\* A digit is one byte.
LEMMA DigitsAreNarrow ==
  ASSUME NEW t \in Seq(DigitSet)
  PROVE  ByteLen(t) = Len(t)
<1> DEFINE n == Len(t)
           G == {k \in 0..n : ByteLen(SubSeq(t, 1, k)) = k}
<1>1. n \in Nat
  OBVIOUS
<1>2. 0 \in G
  <2>1. SubSeq(t, 1, 0) = <<>>
    BY PrefixesOf
  <2>2. ByteLen(<<>>) = 0
    BY BytesOf
  <2>3. ByteLen(SubSeq(t, 1, 0)) = 0
    BY <2>1, <2>2, Zenon
  <2> QED BY <1>1, <2>3
<1>3. ASSUME NEW k \in 0..(n - 1), k \in G
      PROVE  k + 1 \in G
  <2>1. k + 1 \in 1..n /\ k + 1 \in 0..n /\ (k + 1) - 1 = k
    BY <1>1
  <2>2. t[k + 1] \in DigitSet
    BY <2>1
  <2>3. Width(t[k + 1]) = 1
    BY <2>2 DEF DigitSet, Width
  <2>4. ByteLen(SubSeq(t, 1, k + 1)) = ByteLen(SubSeq(t, 1, k)) + Width(t[k + 1])
    BY <2>1, PrefixBytes
  <2> QED BY <1>3, <2>1, <2>3, <2>4
<1>4. \A k \in 0..n : k \in G
  <2> HIDE DEF G, n
  <2> QED BY <1>1, <1>2, <1>3, CountingUp
<1>5. n \in G
  <2> HIDE DEF G
  <2> QED BY <1>1, <1>4
<1> QED BY <1>5, PrefixesOf

\* A text of one character is as long as that.
LEMMA BytesOfOne ==
  ASSUME NEW c
  PROVE  ByteLen(<<c>>) = Width(c)
<1>1. <<>> \in Seq({c}) /\ Append(<<>>, c) = <<c>> /\ c \in {c}
  OBVIOUS
<1>2. ByteLen(Append(<<>>, c)) = ByteLen(<<>>) + Width(c) /\ ByteLen(<<>>) = 0
  BY <1>1, BytesOf
<1>3. Width(c) \in Nat
  BY DEF Width
<1> QED BY <1>1, <1>2, <1>3

Digits16 == Len(Decimal[U16_MAX])

\* No version announced has more digits than the greatest.
LEMMA VersionDigits ==
  ASSUME NEW n \in Majors
  PROVE  /\ n \in 0..U16_MAX /\ Digits16 \in Nat
         /\ ByteLen(Decimal[n]) \in 1..Digits16 /\ IsUtf8(Decimal[n]) /\ ByteLen(Decimal[1]) = 1
<1>1. n \in 0..U16_MAX /\ n \in Nat /\ U16_MAX \in Nat /\ 1 \in Nat
  BY TextAssumption, RoomAssumption DEF Majors
<1>2. /\ Decimal[n] \in Seq(DigitSet) /\ Decimal[n] # <<>>
      /\ Decimal[U16_MAX] \in Seq(DigitSet) /\ Decimal[U16_MAX] # <<>>
      /\ Decimal[1] \in Seq(DigitSet)
  BY <1>1, DecimalValue
<1>3. ByteLen(Decimal[n]) = Len(Decimal[n]) /\ ByteLen(Decimal[1]) = Len(Decimal[1])
  BY <1>2, DigitsAreNarrow
<1>4. Digits16 \in Nat /\ Digits16 >= 1
  BY <1>2 DEF Digits16
<1>5. \A d \in {1, 2} : Len(Decimal[d]) = 1
  <2>1. \A d \in {1, 2} : d \in Nat /\ d < 10
    OBVIOUS
  <2>2. \A d \in {1, 2} : Decimal[d] = <<Digits[d + 1]>>
    BY <2>1, DecimalDefined DEF DecimalStep
  <2> QED BY <2>2
<1>6. n \in {1, 2} \/ n = U16_MAX
  BY DEF Majors
<1>7. Len(Decimal[n]) \in 1..Digits16
  <2>1. CASE n = U16_MAX
    BY <1>4, <2>1 DEF Digits16
  <2>2. CASE n \in {1, 2}
    <3>1. Len(Decimal[n]) = 1
      BY <1>5, <2>2, Zenon
    <3> QED BY <1>4, <3>1
  <2> QED BY <1>6, <2>1, <2>2
<1>8. IsUtf8(Decimal[n])
  <2>1. \A i \in DOMAIN Decimal[n] : Decimal[n][i] \in DigitSet
    BY <1>2
  <2> QED BY <2>1 DEF IsUtf8, DigitSet
<1> QED BY <1>1, <1>3, <1>4, <1>5, <1>7, <1>8

\* The names chosen make hints that are read as they were written.
LEMMA ChosenHints ==
  ASSUME NEW n \in ChosenNames
  PROVE  /\ HintOf(n) \in Seq(Typed) /\ HintOf(n) # <<>> /\ OptionalName(HintOf(n)) = HintOf(n)
         /\ ByteLen(HintOf(n)) \in 0..MAX_DISCOVERY_NAME_BYTES
<1>1. PICK t \in {<<"letter">>, <<"space", "letter", "space", "wide">>,
                  <<"wide", "wide", "letter">>} : n = Trimmed(t)
  BY DEF ChosenNames, DeviceName
<1>2. t \in Seq(Typed)
  <2>1. {"letter", "space", "wide"} \subseteq Typed
    BY DEF Typed
  <2>2. /\ <<"letter">> \in Seq(Typed) /\ <<"wide", "wide", "letter">> \in Seq(Typed)
        /\ <<"space", "letter", "space", "wide">> \in Seq(Typed)
    BY <2>1
  <2> QED BY <2>2, Zenon
<1>3. \A i \in DOMAIN t : ~IsControl(t[i])
  <2>1. CASE t = <<"letter">>
    BY <2>1 DEF IsControl
  <2>2. CASE t = <<"space", "letter", "space", "wide">>
    BY <2>2 DEF IsControl
  <2>3. CASE t = <<"wide", "wide", "letter">>
    BY <2>3 DEF IsControl
  <2> QED BY <2>1, <2>2, <2>3
<1>4. \E i \in DOMAIN t : ~IsSpace(t[i])
  <2>1. CASE t = <<"letter">>
    <3>1. 1 \in DOMAIN t /\ t[1] = "letter"
      BY <2>1
    <3> QED BY <3>1 DEF IsSpace
  <2>2. CASE t = <<"space", "letter", "space", "wide">>
    <3>1. 2 \in DOMAIN t /\ t[2] = "letter"
      BY <2>2
    <3> QED BY <3>1 DEF IsSpace
  <2>3. CASE t = <<"wide", "wide", "letter">>
    <3>1. 1 \in DOMAIN t /\ t[1] = "wide"
      BY <2>3
    <3> QED BY <3>1 DEF IsSpace
  <2> QED BY <2>1, <2>2, <2>3
<1>5. n # <<>>
  <2>1. PICK a \in 1..Len(t) : \E b \in a..Len(t) : Trimmed(t) = SubSeq(t, a, b)
    BY <1>2, <1>4, TrimmedOf
  <2>2. PICK b \in a..Len(t) : Trimmed(t) = SubSeq(t, a, b)
    BY <2>1
  <2>3. a \in Int /\ b \in Int /\ a <= b /\ \A i \in a..b : t[i] \in Typed
    BY <1>2
  <2>4. Len(SubSeq(t, a, b)) = b - a + 1
    BY <2>3, SubSeqProperties
  <2>5. Len(n) > 0
    BY <1>1, <2>2, <2>3, <2>4
  <2> QED BY <2>5
<1>6. /\ n \in Seq(Typed) /\ ~IsSpace(n[1])
      /\ \A i \in DOMAIN n : \E j \in DOMAIN t : n[i] = t[j]
  BY <1>1, <1>2, <1>5, TrimmedPart
<1>7. \A i \in DOMAIN n : ~IsControl(n[i])
  BY <1>3, <1>6
<1>8. /\ OptionalName(HintOf(n)) = HintOf(n) /\ HintOf(n) # <<>>
      /\ ByteLen(HintOf(n)) <= MAX_DISCOVERY_NAME_BYTES
  BY <1>5, <1>6, <1>7, HintIsAccepted
<1>9. HintOf(n) \in Seq(Typed)
  <2>1. PICK k \in 0..Len(n) : HintOf(n) = SubSeq(n, 1, k)
    BY <1>6, HintIsLongest
  <2> QED BY <1>6, <2>1, PrefixesOf
<1>10. ByteLen(HintOf(n)) \in Nat /\ MAX_DISCOVERY_NAME_BYTES \in Nat
  BY <1>9, BytesOf, TextAssumption
<1> QED BY <1>8, <1>9, <1>10

\* Each value announced is text, and no longer than its entry leaves room for.
LEMMA AnnouncedValues ==
  ASSUME NEW m \in Announcements
  PROVE  /\ m.protocols.min \in Majors /\ m.protocols.max \in Majors
         /\ m.protocols.min <= m.protocols.max
         /\ IsUtf8(m.name) /\ ByteLen(m.name) \in 0..MAX_DISCOVERY_NAME_BYTES
         /\ m.name # <<>> => OptionalName(m.name) = m.name
         /\ IsUtf8(m.platform) /\ ByteLen(m.platform) \in 0..7
         /\ m.platform # <<>> => OptionalPlatform(m.platform) = m.platform
<1>1. /\ m.protocols.min \in Majors /\ m.protocols.max \in Majors
      /\ m.protocols.min <= m.protocols.max
  BY Announced, RangesOfMajors
<1>2. ByteLen(<<>>) = 0 /\ IsUtf8(<<>>)
  <2>1. <<>> \in Seq({})
    OBVIOUS
  <2>2. ByteLen(<<>>) = 0
    BY <2>1, BytesOf
  <2> QED BY <2>2 DEF IsUtf8
<1>3. /\ IsUtf8(m.name) /\ ByteLen(m.name) \in 0..MAX_DISCOVERY_NAME_BYTES
      /\ m.name # <<>> => OptionalName(m.name) = m.name
  <2>1. CASE m.name = <<>>
    BY <1>2, <2>1, TextAssumption
  <2>2. ASSUME NEW n \in ChosenNames, m.name = HintOf(n)
        PROVE  /\ IsUtf8(m.name) /\ ByteLen(m.name) \in 0..MAX_DISCOVERY_NAME_BYTES
               /\ OptionalName(m.name) = m.name
    <3>1. /\ m.name \in Seq(Typed) /\ OptionalName(m.name) = m.name
          /\ ByteLen(m.name) \in 0..MAX_DISCOVERY_NAME_BYTES
      BY <2>2, ChosenHints
    <3>2. \A i \in DOMAIN m.name : m.name[i] \in Typed
      BY <3>1
    <3>3. IsUtf8(m.name)
      BY <3>2 DEF IsUtf8, Typed
    <3> QED BY <3>1, <3>3
  <2> QED BY <2>1, <2>2, Announced
<1>4. /\ IsUtf8(m.platform) /\ ByteLen(m.platform) \in 0..7
      /\ m.platform # <<>> => OptionalPlatform(m.platform) = m.platform
  <2>1. CASE m.platform = <<>>
    BY <1>2, <2>1
  <2>2. CASE m.platform = <<"windows">>
    <3>1. ByteLen(<<"windows">>) = 7
      BY BytesOfOne DEF Width
    <3>2. IsUtf8(<<"windows">>)
      BY DEF IsUtf8
    <3>3. <<"windows">> \in {<<p>> : p \in PlatformHints}
      BY DEF PlatformHints
    <3> QED BY <2>2, <3>1, <3>2, <3>3 DEF OptionalPlatform
  <2> QED BY <2>1, <2>2, Announced
<1> QED BY <1>1, <1>3, <1>4

\* The entries of an announcement, as they are put together.
VersionEntries(m) ==
    <<Entry("dv", Decimal[1]), Entry("pmin", Decimal[m.protocols.min]),
      Entry("pmax", Decimal[m.protocols.max])>>
NamedEntries(m) ==
    IF m.name = <<>> THEN VersionEntries(m) ELSE Append(VersionEntries(m), Entry("name", m.name))

\* The sizes of the five.
LEMMA EntrySizes ==
  ASSUME NEW m \in Announcements
  PROVE  /\ EncodedSize(Entry("dv", Decimal[1])) = 5
         /\ EncodedSize(Entry("pmin", Decimal[m.protocols.min])) \in 0..(6 + Digits16)
         /\ EncodedSize(Entry("pmax", Decimal[m.protocols.max])) \in 0..(6 + Digits16)
         /\ EncodedSize(Entry("name", m.name)) \in 0..(6 + MAX_DISCOVERY_NAME_BYTES)
         /\ EncodedSize(Entry("os", m.platform)) \in 0..11
<1>1. /\ ByteLen(Decimal[1]) = 1 /\ Digits16 \in Nat
      /\ ByteLen(Decimal[m.protocols.min]) \in 1..Digits16
      /\ ByteLen(Decimal[m.protocols.max]) \in 1..Digits16
  BY AnnouncedValues, VersionDigits
<1>2. ByteLen(m.name) \in 0..MAX_DISCOVERY_NAME_BYTES /\ ByteLen(m.platform) \in 0..7
  BY AnnouncedValues
<1>3. MAX_DISCOVERY_NAME_BYTES \in Nat
  BY TextAssumption
<1>4. \A key, v : EncodedSize(Entry(key, v)) = 1 + KeyBytes(key) + 1 + ByteLen(v)
  BY DEF EncodedSize, Entry
<1>5. /\ KeyBytes("dv") = 2 /\ KeyBytes("pmin") = 4 /\ KeyBytes("pmax") = 4
      /\ KeyBytes("name") = 4 /\ KeyBytes("os") = 2
  BY DEF KeyBytes
<1>6. EncodedSize(Entry("dv", Decimal[1])) = 5
  BY <1>1, <1>4, <1>5
<1>7. EncodedSize(Entry("pmin", Decimal[m.protocols.min])) \in 0..(6 + Digits16)
  BY <1>1, <1>4, <1>5
<1>8. EncodedSize(Entry("pmax", Decimal[m.protocols.max])) \in 0..(6 + Digits16)
  BY <1>1, <1>4, <1>5
<1>9. EncodedSize(Entry("name", m.name)) \in 0..(6 + MAX_DISCOVERY_NAME_BYTES)
  BY <1>2, <1>3, <1>4, <1>5
<1>10. EncodedSize(Entry("os", m.platform)) \in 0..11
  BY <1>2, <1>4, <1>5
<1> QED BY <1>6, <1>7, <1>8, <1>9, <1>10

\* Every key of a record once.
OneOfEach(t) == \A i, j \in DOMAIN t : t[i].key = t[j].key => i = j
Holds(t, e) == \E k \in DOMAIN t : t[k] = e

LEMMA OneMore ==
  ASSUME NEW t \in Seq(TxtEntries), NEW e \in TxtEntries, OneOfEach(t),
         \A i \in DOMAIN t : t[i].key # e.key
  PROVE  /\ OneOfEach(Append(t, e)) /\ Holds(Append(t, e), e)
         /\ \A f : Holds(t, f) => Holds(Append(t, e), f)
         /\ \A i \in DOMAIN Append(t, e) : Append(t, e)[i] = e \/ \E j \in DOMAIN t : Append(t, e)[i] = t[j]
<1> DEFINE r == Append(t, e)
<1>1. /\ Len(t) \in Nat /\ DOMAIN t = 1..Len(t) /\ DOMAIN r = 1..(Len(t) + 1)
      /\ \A i \in 1..Len(t) : r[i] = t[i]
      /\ r[Len(t) + 1] = e
  OBVIOUS
<1> HIDE DEF r
<1>2. \A i \in DOMAIN r : i = Len(t) + 1 \/ i \in DOMAIN t
  BY <1>1
<1>3. OneOfEach(r)
  BY <1>1, <1>2 DEF OneOfEach
<1>4. Holds(r, e)
  <2>1. Len(t) + 1 \in DOMAIN r
    BY <1>1
  <2> QED BY <1>1, <2>1 DEF Holds
<1>5. \A f : Holds(t, f) => Holds(r, f)
  <2>1. \A i \in DOMAIN t : i \in DOMAIN r /\ r[i] = t[i]
    BY <1>1
  <2> QED BY <2>1 DEF Holds
<1>6. \A i \in DOMAIN r : r[i] = e \/ \E j \in DOMAIN t : r[i] = t[j]
  BY <1>1, <1>2
<1> QED BY <1>3, <1>4, <1>5, <1>6 DEF r

LEMMA OneTwoThree ==
  ASSUME NEW a, NEW b, NEW c
  PROVE  /\ Append(<<>>, a) = <<a>> /\ Append(<<a>>, b) = <<a, b>>
         /\ Append(<<a, b>>, c) = <<a, b, c>>
<1> DEFINE S == {a, b, c}
<1>1. a \in S /\ b \in S /\ c \in S
  OBVIOUS
<1> HIDE DEF S
<1>2. <<>> \in Seq(S) /\ <<a>> \in Seq(S) /\ <<a, b>> \in Seq(S) /\ <<a, b, c>> \in Seq(S)
  BY <1>1
<1>3. Append(<<>>, a) = <<a>>
  BY <1>1
<1>4. Append(<<a>>, b) = <<a, b>>
  <2> DEFINE u == <<a>>
             v == <<a, b>>
  <2>1. Len(u) = 1 /\ u[1] = a /\ Len(v) = 2 /\ v[1] = a /\ v[2] = b
    OBVIOUS
  <2>2. u \in Seq(S) /\ v \in Seq(S)
    BY <1>2
  <2> HIDE DEF u, v
  <2>3. /\ Append(u, b) \in Seq(S) /\ Len(Append(u, b)) = 2
        /\ Append(u, b)[1] = u[1] /\ Append(u, b)[2] = b
    <3> DEFINE w == Append(u, b)
    <3>1. /\ w \in Seq(S) /\ Len(w) = Len(u) + 1 /\ w[Len(u) + 1] = b
          /\ \A i \in 1..Len(u) : w[i] = u[i]
      BY <1>1, <2>2, AppendProperties
    <3> HIDE DEF w
    <3>2. \A i \in 1..1 : w[i] = u[i]
      BY <2>1, <3>1
    <3>3. 1 \in 1..1
      OBVIOUS
    <3>4. Len(w) = 2 /\ w[2] = b
      BY <2>1, <3>1
    <3> QED BY <3>1, <3>2, <3>3, <3>4 DEF w
  <2>4. \A i \in 1..2 : Append(u, b)[i] = v[i]
    BY <2>1, <2>3
  <2>5. Append(u, b) = v
    BY <2>1, <2>2, <2>3, <2>4, SeqEqual
  <2> QED BY <2>5 DEF u, v
<1>5. Append(<<a, b>>, c) = <<a, b, c>>
  <2> DEFINE u == <<a, b>>
             v == <<a, b, c>>
  <2>1. Len(u) = 2 /\ u[1] = a /\ u[2] = b /\ Len(v) = 3 /\ v[1] = a /\ v[2] = b /\ v[3] = c
    OBVIOUS
  <2>2. u \in Seq(S) /\ v \in Seq(S)
    BY <1>2
  <2> HIDE DEF u, v
  <2>3. /\ Append(u, c) \in Seq(S) /\ Len(Append(u, c)) = 3
        /\ Append(u, c)[1] = u[1] /\ Append(u, c)[2] = u[2] /\ Append(u, c)[3] = c
    <3> DEFINE w == Append(u, c)
    <3>1. /\ w \in Seq(S) /\ Len(w) = Len(u) + 1 /\ w[Len(u) + 1] = c
          /\ \A i \in 1..Len(u) : w[i] = u[i]
      BY <1>1, <2>2, AppendProperties
    <3> HIDE DEF w
    <3>2. \A i \in 1..2 : w[i] = u[i]
      BY <2>1, <3>1
    <3>3. 1 \in 1..2 /\ 2 \in 1..2
      OBVIOUS
    <3>4. Len(w) = 3 /\ w[3] = c
      BY <2>1, <3>1
    <3> QED BY <3>1, <3>2, <3>3, <3>4 DEF w
  <2>4. \A i \in 1..3 : Append(u, c)[i] = v[i]
    BY <2>1, <2>3
  <2>5. Append(u, c) = v
    BY <2>1, <2>2, <2>3, <2>4, SeqEqual
  <2> QED BY <2>5 DEF u, v
<1> QED BY <1>3, <1>4, <1>5

\* An announcement has each of its entries once, nothing else, and fits.
LEMMA OwnEntries ==
  ASSUME NEW m \in Announcements
  PROVE  /\ OneOfEach(ToTxtEntries(m))
         /\ Holds(ToTxtEntries(m), Entry("dv", Decimal[1]))
         /\ Holds(ToTxtEntries(m), Entry("pmin", Decimal[m.protocols.min]))
         /\ Holds(ToTxtEntries(m), Entry("pmax", Decimal[m.protocols.max]))
         /\ m.name # <<>> => Holds(ToTxtEntries(m), Entry("name", m.name))
         /\ m.platform # <<>> => Holds(ToTxtEntries(m), Entry("os", m.platform))
         /\ TotalSize(ToTxtEntries(m)) \in Nat
         /\ TotalSize(ToTxtEntries(m)) <= MAX_DISCOVERY_TXT_BYTES
<1> DEFINE dv == Entry("dv", Decimal[1])
           pmin == Entry("pmin", Decimal[m.protocols.min])
           pmax == Entry("pmax", Decimal[m.protocols.max])
           nm == Entry("name", m.name)
           os == Entry("os", m.platform)
           own == ToTxtEntries(m)
           three == VersionEntries(m)
           four == NamedEntries(m)
<1>1. /\ dv.key = "dv" /\ pmin.key = "pmin" /\ pmax.key = "pmax" /\ nm.key = "name"
      /\ os.key = "os"
  BY DEF Entry
<1>2. /\ dv \in TxtEntries /\ pmin \in TxtEntries /\ pmax \in TxtEntries
      /\ m.name # <<>> => nm \in TxtEntries
      /\ m.platform # <<>> => os \in TxtEntries
  <2>1. {"dv", "pmin", "pmax", "name", "os"} \subseteq KnownKeys \cup {"x"}
    BY DEF KnownKeys
  <2>2. /\ Decimal[1] \in Seq(Characters) /\ Decimal[m.protocols.min] \in Seq(Characters)
        /\ Decimal[m.protocols.max] \in Seq(Characters)
    BY AnnouncedValues, MajorsAreNumbers, DecimalIsText
  <2>3. m.name # <<>> => m.name \in Seq(Characters)
    <3>1. ASSUME NEW n \in ChosenNames, m.name = HintOf(n)
          PROVE  m.name \in Seq(Characters)
      <4>1. m.name \in Seq(Typed)
        BY <3>1, ChosenHints
      <4> QED BY <4>1, CharacterSets, SeqMonotonic
    <3> QED BY <3>1, Announced
  <2>4. m.platform # <<>> => m.platform \in Seq(Characters)
    <3>1. "windows" \in Characters
      BY DEF Characters
    <3>2. <<"windows">> \in Seq(Characters)
      BY <3>1
    <3> QED BY <3>2, Announced
  <2> QED BY <2>1, <2>2, <2>3, <2>4, EntryShape
<1>3. three = <<dv, pmin, pmax>> /\ four = IF m.name = <<>> THEN three ELSE Append(three, nm)
  BY DEF VersionEntries, NamedEntries
<1>4. own = IF m.platform = <<>> THEN four ELSE Append(four, os)
  <2> DEFINE name == IF m.name = <<>> THEN <<>> ELSE <<nm>>
             platform == IF m.platform = <<>> THEN <<>> ELSE <<os>>
  <2>1. own = three \o name \o platform
    BY DEF ToTxtEntries, DISCOVERY_SCHEMA_VERSION, VersionEntries
  <2> HIDE DEF own, dv, pmin, pmax, nm, os
  <2>2. three \in Seq(TxtEntries)
    BY <1>2, <1>3
  <2> HIDE DEF three
  <2>3. three \o name = four
    BY <1>2, <1>3, <2>2, AppendIsConcat, ConcatEmptySeq
  <2>4. four \in Seq(TxtEntries)
    BY <1>2, <1>3, <2>2
  <2> HIDE DEF four
  <2>5. four \o platform = IF m.platform = <<>> THEN four ELSE Append(four, os)
    BY <1>2, <2>4, AppendIsConcat, ConcatEmptySeq
  <2> QED BY <2>1, <2>3, <2>5
<1>5. /\ EncodedSize(dv) = 5 /\ EncodedSize(pmin) \in 0..(6 + Digits16)
      /\ EncodedSize(pmax) \in 0..(6 + Digits16)
      /\ EncodedSize(nm) \in 0..(6 + MAX_DISCOVERY_NAME_BYTES) /\ EncodedSize(os) \in 0..11
  BY EntrySizes
<1> HIDE DEF dv, pmin, pmax, nm, os, own, three, four
<1>6. /\ three \in Seq(TxtEntries) /\ OneOfEach(three)
      /\ Holds(three, dv) /\ Holds(three, pmin) /\ Holds(three, pmax)
      /\ \A i \in DOMAIN three : three[i].key \in {"dv", "pmin", "pmax"}
  <2>1. three \in Seq(TxtEntries)
    BY <1>2, <1>3
  <2>2. DOMAIN three = 1..3 /\ three[1] = dv /\ three[2] = pmin /\ three[3] = pmax
    BY <1>3
  <2>3. OneOfEach(three)
    BY <1>1, <2>2 DEF OneOfEach
  <2>4. Holds(three, dv) /\ Holds(three, pmin) /\ Holds(three, pmax)
    BY <2>2 DEF Holds
  <2>5. \A i \in DOMAIN three : three[i].key \in {"dv", "pmin", "pmax"}
    BY <1>1, <2>2
  <2> QED BY <2>1, <2>3, <2>4, <2>5
<1>7. /\ TotalSize(three) \in Nat
      /\ TotalSize(three) <= 17 + 2 * Digits16
  <2>1. /\ <<>> \in Seq(TxtEntries) /\ <<dv>> \in Seq(TxtEntries) /\ <<dv, pmin>> \in Seq(TxtEntries)
        /\ Append(<<>>, dv) = <<dv>> /\ Append(<<dv>>, pmin) = <<dv, pmin>>
        /\ Append(<<dv, pmin>>, pmax) = three
    <3>1. /\ <<>> \in Seq(TxtEntries) /\ <<dv>> \in Seq(TxtEntries)
          /\ <<dv, pmin>> \in Seq(TxtEntries)
      BY <1>2
    <3>2. Append(<<>>, dv) = <<dv>> /\ Append(<<dv>>, pmin) = <<dv, pmin>>
      BY OneTwoThree
    <3>3. Append(<<dv, pmin>>, pmax) = three
      BY <1>3, OneTwoThree
    <3> QED BY <3>1, <3>2, <3>3
  <2>2. TotalSize(<<>>) = 0 /\ TotalSize(<<dv>>) = TotalSize(<<>>) + EncodedSize(dv)
    BY <1>2, <2>1, SizesOf
  <2>3. /\ TotalSize(<<dv, pmin>>) = TotalSize(<<dv>>) + EncodedSize(pmin)
        /\ TotalSize(three) = TotalSize(<<dv, pmin>>) + EncodedSize(pmax)
    BY <1>2, <2>1, SizesOf
  <2>4. Digits16 \in Nat
    BY AnnouncedValues, VersionDigits
  <2> QED BY <1>5, <2>2, <2>3, <2>4
<1>8. /\ four \in Seq(TxtEntries) /\ OneOfEach(four)
      /\ Holds(four, dv) /\ Holds(four, pmin) /\ Holds(four, pmax)
      /\ m.name # <<>> => Holds(four, nm)
      /\ \A i \in DOMAIN four : four[i].key \in {"dv", "pmin", "pmax", "name"}
      /\ TotalSize(four) \in Nat
      /\ TotalSize(four) <= 23 + 2 * Digits16 + MAX_DISCOVERY_NAME_BYTES
  <2>1. Digits16 \in Nat /\ MAX_DISCOVERY_NAME_BYTES \in Nat
    BY AnnouncedValues, VersionDigits, TextAssumption
  <2>2. CASE m.name = <<>>
    <3>1. four = three
      BY <1>3, <2>2
    <3>2. TotalSize(four) <= 23 + 2 * Digits16 + MAX_DISCOVERY_NAME_BYTES
      BY <1>7, <2>1, <3>1
    <3> QED BY <1>6, <1>7, <2>2, <3>1, <3>2
  <2>3. CASE m.name # <<>>
    <3>1. four = Append(three, nm) /\ nm \in TxtEntries
      BY <1>2, <1>3, <2>3
    <3>2. \A i \in DOMAIN three : three[i].key # nm.key
      BY <1>1, <1>6
    <3>3. /\ OneOfEach(four) /\ Holds(four, nm) /\ \A f : Holds(three, f) => Holds(four, f)
          /\ \A i \in DOMAIN four : four[i] = nm \/ \E j \in DOMAIN three : four[i] = three[j]
      BY <1>6, <3>1, <3>2, OneMore
    <3>4. TotalSize(four) = TotalSize(three) + EncodedSize(nm)
      BY <1>6, <3>1, SizesOf
    <3>5. /\ TotalSize(four) \in Nat
          /\ TotalSize(four) <= 23 + 2 * Digits16 + MAX_DISCOVERY_NAME_BYTES
      BY <1>5, <1>7, <2>1, <3>4
    <3>6. four \in Seq(TxtEntries)
      BY <1>6, <3>1
    <3>7. \A i \in DOMAIN four : four[i].key \in {"dv", "pmin", "pmax", "name"}
      BY <1>1, <1>6, <3>3
    <3> QED BY <1>6, <3>3, <3>5, <3>6, <3>7
  <2> QED BY <2>2, <2>3
<1>9. 34 + 2 * Digits16 + MAX_DISCOVERY_NAME_BYTES <= MAX_DISCOVERY_TXT_BYTES
  BY RoomAssumption DEF Digits16
<1>10. Digits16 \in Nat /\ MAX_DISCOVERY_NAME_BYTES \in Nat /\ MAX_DISCOVERY_TXT_BYTES \in Nat
  BY AnnouncedValues, VersionDigits, TextAssumption, MetadataAssumption
<1>11. CASE m.platform = <<>>
  <2>1. own = four
    BY <1>4, <1>11
  <2>2. TotalSize(own) <= MAX_DISCOVERY_TXT_BYTES
    BY <1>8, <1>9, <1>10, <2>1
  <2> QED BY <1>8, <1>11, <2>1, <2>2 DEF own, dv, pmin, pmax, nm, os
<1>12. CASE m.platform # <<>>
  <2>1. own = Append(four, os) /\ os \in TxtEntries
    BY <1>2, <1>4, <1>12
  <2>2. \A i \in DOMAIN four : four[i].key # os.key
    BY <1>1, <1>8
  <2>3. /\ OneOfEach(own) /\ Holds(own, os) /\ \A f : Holds(four, f) => Holds(own, f)
    BY <1>8, <2>1, <2>2, OneMore
  <2>4. TotalSize(own) = TotalSize(four) + EncodedSize(os)
    BY <1>8, <2>1, SizesOf
  <2>5. TotalSize(own) \in Nat /\ TotalSize(own) <= MAX_DISCOVERY_TXT_BYTES
    <3>1. TotalSize(four) \in Nat /\ EncodedSize(os) \in 0..11
      BY <1>5, <1>8
    <3>2. TotalSize(four) <= 23 + 2 * Digits16 + MAX_DISCOVERY_NAME_BYTES
      BY <1>8
    <3> QED BY <1>9, <1>10, <2>4, <3>1, <3>2
  <2> QED BY <1>8, <2>3, <2>5 DEF own, dv, pmin, pmax, nm, os
<1> QED BY <1>11, <1>12

-----------------------------------------------------------------------------
(* What becomes of the entries of an announcement.                         *)

Kept(t, own) ==
    /\ \A k \in DOMAIN own : \E i \in DOMAIN t : SameEntry(t[i], own[k])
    /\ \A i \in DOMAIN t :
          \/ \E k \in DOMAIN own : SameEntry(t[i], own[k])
          \/ t[i].key = "x" /\ t[i].value \in ForeignValues
    /\ \A i, j \in DOMAIN t : t[i].key = t[j].key /\ t[i].key # "x" => i = j

\* Another case of the keys keeps them.
LEMMA KeptInPlace ==
  ASSUME NEW t, NEW r, NEW own, Kept(t, own), DOMAIN r = DOMAIN t,
         \A i \in DOMAIN t : r[i].key = t[i].key /\ r[i].value = t[i].value
  PROVE  Kept(r, own)
<1>1. \A k \in DOMAIN own : \E i \in DOMAIN r : SameEntry(r[i], own[k])
  BY DEF Kept, SameEntry
<1>2. \A i \in DOMAIN r : \/ \E k \in DOMAIN own : SameEntry(r[i], own[k])
                          \/ r[i].key = "x" /\ r[i].value \in ForeignValues
  BY DEF Kept, SameEntry
<1>3. \A i, j \in DOMAIN r : r[i].key = r[j].key /\ r[i].key # "x" => i = j
  BY DEF Kept
<1> QED BY <1>1, <1>2, <1>3 DEF Kept

\* So does another order.
LEMMA KeptWhenMoved ==
  ASSUME NEW t, NEW r, NEW own, NEW p, Kept(t, own), DOMAIN r = DOMAIN t,
         \A i \in DOMAIN t : p[i] \in DOMAIN t /\ SameEntry(r[i], t[p[i]]),
         \A i, j \in DOMAIN t : p[i] = p[j] => i = j,
         \A j \in DOMAIN t : \E i \in DOMAIN t : p[i] = j
  PROVE  Kept(r, own)
<1>1. \A k \in DOMAIN own : \E i \in DOMAIN r : SameEntry(r[i], own[k])
  <2> SUFFICES ASSUME NEW k \in DOMAIN own PROVE \E i \in DOMAIN r : SameEntry(r[i], own[k])
    OBVIOUS
  <2>1. PICK j \in DOMAIN t : SameEntry(t[j], own[k])
    BY DEF Kept
  <2>2. PICK i \in DOMAIN t : p[i] = j
    OBVIOUS
  <2>3. SameEntry(r[i], t[j])
    BY <2>2
  <2> QED BY <2>1, <2>2, <2>3 DEF SameEntry
<1>2. ASSUME NEW i \in DOMAIN r
      PROVE  \/ \E k \in DOMAIN own : SameEntry(r[i], own[k])
             \/ r[i].key = "x" /\ r[i].value \in ForeignValues
  <2>1. PICK j \in DOMAIN t : SameEntry(r[i], t[j])
    OBVIOUS
  <2>2. \/ \E k \in DOMAIN own : SameEntry(t[j], own[k])
        \/ t[j].key = "x" /\ t[j].value \in ForeignValues
    BY DEF Kept
  <2>3. r[i].key = t[j].key /\ r[i].value = t[j].value
    BY <2>1 DEF SameEntry
  <2> QED BY <2>2, <2>3 DEF SameEntry
<1>3. ASSUME NEW i \in DOMAIN r, NEW j \in DOMAIN r, r[i].key = r[j].key, r[i].key # "x"
      PROVE  i = j
  <2>1. /\ p[i] \in DOMAIN t /\ r[i].key = t[p[i]].key
        /\ p[j] \in DOMAIN t /\ r[j].key = t[p[j]].key
    BY DEF SameEntry
  <2>2. \A k, l \in DOMAIN t : t[k].key = t[l].key /\ t[k].key # "x" => k = l
    BY DEF Kept
  <2>3. t[p[i]].key = t[p[j]].key /\ t[p[i]].key # "x"
    BY <1>3, <2>1
  <2>4. p[i] = p[j]
    BY <2>1, <2>2, <2>3, Zenon
  <2> QED BY <2>4
<1> QED BY <1>1, <1>2, <1>3 DEF Kept

\* So does an entry of an unknown key.
LEMMA KeptWithMore ==
  ASSUME NEW t \in Seq(TxtEntries), NEW own, Kept(t, own), NEW v \in ForeignValues
  PROVE  Kept(Append(t, Entry("x", v)), own)
<1> DEFINE e == Entry("x", v)
           r == Append(t, e)
<1>1. e.key = "x" /\ e.value = v
  BY DEF Entry
<1> HIDE DEF e
<1>2. /\ Len(t) \in Nat /\ DOMAIN t = 1..Len(t) /\ DOMAIN r = 1..(Len(t) + 1)
      /\ \A i \in 1..Len(t) : r[i] = t[i]
      /\ r[Len(t) + 1] = e
  OBVIOUS
<1> HIDE DEF r
<1>3. /\ \A i \in DOMAIN r : i \in DOMAIN t \/ i = Len(t) + 1
      /\ \A i \in DOMAIN t : i \in DOMAIN r /\ r[i] = t[i]
  BY <1>2
<1>4. \A k \in DOMAIN own : \E i \in DOMAIN r : SameEntry(r[i], own[k])
  BY <1>3 DEF Kept
<1>5. \A i \in DOMAIN r : \/ \E k \in DOMAIN own : SameEntry(r[i], own[k])
                          \/ r[i].key = "x" /\ r[i].value \in ForeignValues
  BY <1>1, <1>2, <1>3 DEF Kept
<1>6. \A i, j \in DOMAIN r : r[i].key = r[j].key /\ r[i].key # "x" => i = j
  <2>1. \A i \in DOMAIN r : r[i].key # "x" => i \in DOMAIN t
    BY <1>1, <1>2, <1>3
  <2> QED BY <1>3, <2>1 DEF Kept
<1> QED BY <1>4, <1>5, <1>6 DEF Kept, r, e

LEMMA KeptAtFirst ==
  ASSUME NEW own, OneOfEach(own)
  PROVE  Kept(own, own)
BY DEF Kept, OneOfEach, SameEntry

\* What DNS-SD allows keeps what was announced.
LEMMA KeptSteps == Spec => []EntriesAreKept
<1>1. Init => EntriesAreKept
  <2> SUFFICES ASSUME Init, channel = "record" PROVE Kept(record, ToTxtEntries(sent))
    BY DEF EntriesAreKept, Kept
  <2>1. RecordInit
    BY DEF Init, FrameInit
  <2> QED BY <2>1, OwnEntries, KeptAtFirst DEF RecordInit
<1>2. RecordIsShaped /\ EntriesAreKept /\ [Next]_vars => EntriesAreKept'
  <2> SUFFICES ASSUME RecordIsShaped, EntriesAreKept, [Next]_vars PROVE EntriesAreKept'
    OBVIOUS
  <2>1. record \in Seq(TxtEntries) /\ Len(record) \in Nat /\ DOMAIN record = 1..Len(record)
    BY DEF RecordIsShaped
  <2>2. CASE harmed' = TRUE
    BY <2>2 DEF EntriesAreKept
  <2>3. CASE UNCHANGED <<channel, sent, record, harmed>>
    BY <2>3 DEF EntriesAreKept
  <2>4. ASSUME OnRecord, UNCHANGED harmed,
               Kept(record, ToTxtEntries(sent)) => Kept(record', ToTxtEntries(sent))
        PROVE  EntriesAreKept'
    BY <2>4 DEF OnRecord, EntriesAreKept, Kept
  <2>5. CASE Swap
    <3>1. PICK i \in 1..(Len(record) - 1) :
             record' = [record EXCEPT ![i] = record[i + 1], ![i + 1] = record[i]]
      BY <2>5 DEF Swap
    <3> DEFINE p == [j \in DOMAIN record |-> IF j = i THEN i + 1 ELSE IF j = i + 1 THEN i ELSE j]
    <3>2. i \in DOMAIN record /\ i + 1 \in DOMAIN record /\ i # i + 1
      BY <2>1
    <3>3. DOMAIN record' = DOMAIN record /\ \A j \in DOMAIN record : record'[j] = record[p[j]]
      BY <3>1, <3>2
    <3>4. /\ \A j \in DOMAIN record : p[j] \in DOMAIN record
          /\ \A j, k \in DOMAIN record : p[j] = p[k] => j = k
          /\ \A j \in DOMAIN record : p[p[j]] = j
      BY <3>2
    <3> HIDE DEF p
    <3>5. \A j \in DOMAIN record : SameEntry(record'[j], record[p[j]])
      BY <3>3 DEF SameEntry
    <3>6. \A j \in DOMAIN record : \E k \in DOMAIN record : p[k] = j
      BY <3>4
    <3>7. Kept(record, ToTxtEntries(sent)) => Kept(record', ToTxtEntries(sent))
      BY <3>3, <3>4, <3>5, <3>6, KeptWhenMoved
    <3> QED BY <2>4, <2>5, <3>7 DEF Swap
  <2>6. CASE ChangeCase
    <3>1. PICK i \in DOMAIN record : record' = [record EXCEPT ![i].upper = ~@]
      BY <2>6 DEF ChangeCase
    <3>2. \A j \in DOMAIN record :
             record'[j] = IF j = i THEN [record[i] EXCEPT !.upper = ~record[i].upper]
                                   ELSE record[j]
      BY <2>1, <3>1
    <3>3. LET e == [record[i] EXCEPT !.upper = ~record[i].upper] IN
          e.key = record[i].key /\ e.value = record[i].value
      <4>1. record[i] \in TxtEntries
        BY <2>1
      <4> QED BY <4>1 DEF TxtEntries
    <3>4. /\ DOMAIN record' = DOMAIN record
          /\ \A j \in DOMAIN record :
                record'[j].key = record[j].key /\ record'[j].value = record[j].value
      BY <2>1, <3>1, <3>2, <3>3
    <3>5. Kept(record, ToTxtEntries(sent)) => Kept(record', ToTxtEntries(sent))
      BY <3>4, KeptInPlace
    <3> QED BY <2>4, <2>6, <3>5 DEF ChangeCase
  <2>7. CASE AddUnknown
    <3>1. PICK v \in ForeignValues : record' = Append(record, Entry("x", v))
      BY <2>7 DEF AddUnknown
    <3>2. Kept(record, ToTxtEntries(sent)) => Kept(record', ToTxtEntries(sent))
      BY <2>1, <3>1, KeptWithMore
    <3> QED BY <2>4, <2>7, <3>2 DEF AddUnknown
  <2>8. DropEntry \/ Duplicate \/ Overwrite => harmed' = TRUE
    BY Zenon DEF DropEntry, Duplicate, Overwrite
  <2>9. \/ Swap \/ ChangeCase \/ AddUnknown \/ DropEntry \/ Duplicate \/ Overwrite
        \/ UNCHANGED <<channel, sent, record, harmed>>
    BY DEF Next, vars, recordVars, OverwriteByte, OverwriteId, Truncate, Extend, OnFrame, Type,
         OnLine, EditCharacter, EditField
  <2> QED BY <2>2, <2>3, <2>5, <2>6, <2>7, <2>8, <2>9, Zenon
<1> QED BY <1>1, <1>2, RecordSteps, PTL DEF Spec

\* A record that keeps an entry has it at one place, whatever else it has.
LEMMA KeptPlace ==
  ASSUME NEW t, NEW own, Kept(t, own), NEW key \in KnownKeys, NEW v, Holds(own, Entry(key, v))
  PROVE  \E i \in DOMAIN t : Places(t, key) = {i} /\ Value(t, key) = v
<1>1. PICK k \in DOMAIN own : own[k] = Entry(key, v)
  BY DEF Holds
<1>2. PICK i \in DOMAIN t : SameEntry(t[i], own[k])
  BY DEF Kept
<1>3. t[i].key = key /\ t[i].value = v
  BY <1>1, <1>2 DEF SameEntry, Entry
<1>4. key # "x"
  BY DEF KnownKeys
<1>5. \A j \in DOMAIN t : t[j].key = key => j = i
  BY <1>3, <1>4 DEF Kept
<1>6. Places(t, key) = {i}
  BY <1>3, <1>5 DEF Places
<1>7. Value(t, key) = v
  BY <1>3, <1>6 DEF Value
<1> QED BY <1>6, <1>7

\* Nor does it have a known key that was not announced.
LEMMA KeptAbsent ==
  ASSUME NEW t, NEW own, Kept(t, own), NEW key \in KnownKeys,
         \A k \in DOMAIN own : own[k].key # key
  PROVE  Places(t, key) = {}
<1>1. key # "x"
  BY DEF KnownKeys
<1>2. ASSUME NEW i \in DOMAIN t, t[i].key = key
      PROVE  FALSE
  <2>1. \E k \in DOMAIN own : SameEntry(t[i], own[k])
    BY <1>1, <1>2 DEF Kept
  <2> QED BY <1>2, <2>1 DEF SameEntry
<1> QED BY <1>2 DEF Places

LEMMA KeptOnce ==
  ASSUME NEW t, NEW own, Kept(t, own)
  PROVE  ~DuplicateKnownKey(t)
<1> SUFFICES ASSUME NEW key \in KnownKeys PROVE ~(Cardinality(Places(t, key)) > 1)
  BY DEF DuplicateKnownKey
<1>1. key # "x"
  BY DEF KnownKeys
<1>2. \A i, j \in Places(t, key) : i = j
  BY <1>1 DEF Places, Kept
<1>3. CASE Places(t, key) = {}
  BY <1>3, FS_EmptySet
<1>4. ASSUME NEW i \in Places(t, key)
      PROVE  Cardinality(Places(t, key)) = 1
  <2>1. Places(t, key) = {i}
    BY <1>2
  <2> QED BY <2>1, FS_Singleton
<1> QED BY <1>3, <1>4

\* A number announced is read as it was.
LEMMA KeptNumber ==
  ASSUME NEW t, NEW own, Kept(t, own), NEW key \in KnownKeys, NEW n \in 0..U16_MAX,
         IsUtf8(Decimal[n]), Holds(own, Entry(key, Decimal[n]))
  PROVE  RequiredError(t, key) = "none" /\ Required(t, key) = n
<1>1. Places(t, key) # {} /\ Value(t, key) = Decimal[n]
  BY KeptPlace
<1>2. RequiredDecimal(Value(t, key)) = {n}
  BY <1>1, DecimalIsCanonical DEF RequiredDecimal
<1> QED BY <1>1, <1>2 DEF RequiredError, Required

\* So is the whole of it, unless the record has grown beyond its limit.
LEMMA KeptIsRead ==
  ASSUME NEW m \in Announcements, NEW t, Kept(t, ToTxtEntries(m))
  PROVE  /\ TxtError(t) = IF TotalSize(t) > MAX_DISCOVERY_TXT_BYTES
                            THEN "TotalMetadataTooLarge" ELSE "none"
         /\ TxtMetadata(t) = m
<1> DEFINE own == ToTxtEntries(m)
<1>1. /\ Holds(own, Entry("dv", Decimal[1]))
      /\ Holds(own, Entry("pmin", Decimal[m.protocols.min]))
      /\ Holds(own, Entry("pmax", Decimal[m.protocols.max]))
      /\ m.name # <<>> => Holds(own, Entry("name", m.name))
      /\ m.platform # <<>> => Holds(own, Entry("os", m.platform))
  BY OwnEntries
<1>2. /\ m.protocols.min \in Majors /\ m.protocols.max \in Majors
      /\ m.protocols.min <= m.protocols.max
      /\ m.name # <<>> => OptionalName(m.name) = m.name
      /\ m.platform # <<>> => OptionalPlatform(m.platform) = m.platform
  BY AnnouncedValues
<1>3. \A n \in Majors : n \in 0..U16_MAX /\ IsUtf8(Decimal[n])
  BY VersionDigits
<1>4. 1 \in Majors
  BY DEF Majors
<1>5. {"dv", "pmin", "pmax", "name", "os"} = KnownKeys
  BY DEF KnownKeys
<1>6. m.name = <<>> => \A k \in DOMAIN own : own[k].key # "name"
  <2> SUFFICES ASSUME m.name = <<>>, NEW k \in DOMAIN own PROVE own[k].key # "name"
    OBVIOUS
  <2>1. own[k] \in {Entry("dv", Decimal[1]), Entry("pmin", Decimal[m.protocols.min]),
                    Entry("pmax", Decimal[m.protocols.max])}
                   \cup {o \in {Entry("os", m.platform)} : m.platform # <<>>}
    BY EntriesOf DEF ToSet
  <2> QED BY <2>1 DEF Entry
<1>7. m.platform = <<>> => \A k \in DOMAIN own : own[k].key # "os"
  <2> SUFFICES ASSUME m.platform = <<>>, NEW k \in DOMAIN own PROVE own[k].key # "os"
    OBVIOUS
  <2>1. own[k] \in {Entry("dv", Decimal[1]), Entry("pmin", Decimal[m.protocols.min]),
                    Entry("pmax", Decimal[m.protocols.max])}
                   \cup {n \in {Entry("name", m.name)} : m.name # <<>>}
    BY EntriesOf DEF ToSet
  <2> QED BY <2>1 DEF Entry
<1> HIDE DEF own
<1>8. Kept(t, own)
  BY DEF own
<1>9. /\ RequiredError(t, "dv") = "none" /\ Required(t, "dv") = 1
      /\ RequiredError(t, "pmin") = "none" /\ Required(t, "pmin") = m.protocols.min
      /\ RequiredError(t, "pmax") = "none" /\ Required(t, "pmax") = m.protocols.max
  BY <1>1, <1>2, <1>3, <1>4, <1>5, <1>8, KeptNumber
<1>10. (IF Places(t, "name") = {} THEN <<>> ELSE OptionalName(Value(t, "name"))) = m.name
  <2>1. CASE m.name = <<>>
    BY <1>5, <1>6, <1>8, <2>1, KeptAbsent
  <2>2. CASE m.name # <<>>
    <3>1. Places(t, "name") # {} /\ Value(t, "name") = m.name
      BY <1>1, <1>5, <1>8, <2>2, KeptPlace
    <3> QED BY <1>2, <2>2, <3>1
  <2> QED BY <2>1, <2>2
<1>11. (IF Places(t, "os") = {} THEN <<>> ELSE OptionalPlatform(Value(t, "os"))) = m.platform
  <2>1. CASE m.platform = <<>>
    BY <1>5, <1>7, <1>8, <2>1, KeptAbsent
  <2>2. CASE m.platform # <<>>
    <3>1. Places(t, "os") # {} /\ Value(t, "os") = m.platform
      BY <1>1, <1>5, <1>8, <2>2, KeptPlace
    <3> QED BY <1>2, <2>2, <3>1
  <2> QED BY <2>1, <2>2
<1>12. TxtMetadata(t) = m
  <2>1. m.protocols = [min |-> m.protocols.min, max |-> m.protocols.max]
    BY Announced, RangesOfMajors
  <2>2. m = [protocols |-> m.protocols, name |-> m.name, platform |-> m.platform]
    BY Announced
  <2> QED BY <1>9, <1>10, <1>11, <2>1, <2>2 DEF TxtMetadata, Metadata, ProtocolRange
<1>13. TxtError(t) = IF TotalSize(t) > MAX_DISCOVERY_TXT_BYTES
                       THEN "TotalMetadataTooLarge" ELSE "none"
  <2>1. ~DuplicateKnownKey(t)
    BY <1>8, KeptOnce
  <2> QED BY <1>2, <1>9, <2>1 DEF TxtError, DISCOVERY_SCHEMA_VERSION, ProtocolRangeValid
<1> QED BY <1>12, <1>13

LEMMA WideBytes == ByteLen(<<"wide", "wide", "wide">>) = 9
<1> DEFINE one == <<"wide">>
           two == <<"wide", "wide">>
           three == <<"wide", "wide", "wide">>
<1>1. one \in Seq({"wide"}) /\ two \in Seq({"wide"})
  OBVIOUS
<1>2. Append(one, "wide") = two /\ Append(two, "wide") = three
  BY OneTwoThree
<1>3. ByteLen(one) = 3 /\ Width("wide") = 3
  BY BytesOfOne DEF Width
<1> HIDE DEF one, two, three
<1>4. /\ ByteLen(Append(one, "wide")) = ByteLen(one) + Width("wide")
      /\ ByteLen(Append(two, "wide")) = ByteLen(two) + Width("wide")
  BY <1>1, BytesOf
<1>5. ByteLen(two) = 3 + 3
  BY <1>2, <1>3, <1>4, Zenon
<1>6. ByteLen(three) = (3 + 3) + 3
  BY <1>2, <1>3, <1>4, <1>5, Zenon
<1> QED BY <1>6 DEF three

\* Each entry of it is within its limit.
LEMMA KeptEntriesFit ==
  ASSUME NEW m \in Announcements, NEW t \in Seq(TxtEntries), Kept(t, ToTxtEntries(m)),
         NEW i \in DOMAIN t
  PROVE  EntryError(t[i]) = "none"
<1>1. t[i] \in TxtEntries
  OBVIOUS
<1>2. /\ EncodedSize(t[i]) = 1 + KeyBytes(t[i].key) + 1 + ByteLen(t[i].value)
      /\ KeyBytes(t[i].key) \in Nat \ {0} /\ ByteLen(t[i].value) \in Nat
  <2>1. t[i].key \in KnownKeys \cup {"x"}
    BY <1>1 DEF TxtEntries
  <2>2. /\ KeyBytes("dv") = 2 /\ KeyBytes("pmin") = 4 /\ KeyBytes("pmax") = 4
        /\ KeyBytes("name") = 4 /\ KeyBytes("os") = 2 /\ KeyBytes("x") = 1
    BY DEF KeyBytes
  <2>3. KeyBytes(t[i].key) # 0
    BY <2>1, <2>2 DEF KnownKeys
  <2>4. KeyBytes(t[i].key) \in Nat /\ ByteLen(t[i].value) \in Nat
    BY <1>1, EntrySize
  <2> QED BY <2>3, <2>4 DEF EncodedSize
<1>3. /\ Digits16 \in Nat /\ MAX_DISCOVERY_NAME_BYTES \in Nat
      /\ MAX_DISCOVERY_TXT_ENTRY_BYTES \in Nat
  BY AnnouncedValues, VersionDigits, TextAssumption, MetadataAssumption
<1>4. /\ 5 + Digits16 <= MAX_DISCOVERY_TXT_ENTRY_BYTES
      /\ 5 + MAX_DISCOVERY_NAME_BYTES <= MAX_DISCOVERY_TXT_ENTRY_BYTES
      /\ 11 <= MAX_DISCOVERY_TXT_ENTRY_BYTES
  BY RoomAssumption DEF Digits16
<1>5. EncodedSize(t[i]) <= MAX_DISCOVERY_TXT_ENTRY_BYTES + 1
  <2>1. CASE t[i].key = "x" /\ t[i].value \in ForeignValues
    <3>1. ByteLen(t[i].value) <= 9
      <4>1. ByteLen(<<>>) = 0
        BY BytesOf
      <4>2. ByteLen(<<"broken">>) = 1
        BY BytesOfOne DEF Width
      <4>3. ByteLen(<<"wide", "wide", "wide">>) = 9
        BY WideBytes
      <4>4. t[i].value \in {<<>>, <<"broken">>, <<"wide", "wide", "wide">>}
        BY <2>1 DEF ForeignValues
      <4>5. ByteLen(t[i].value) \in {0, 1, 9}
        BY <4>1, <4>2, <4>3, <4>4, Zenon
      <4> QED BY <4>5
    <3>2. KeyBytes(t[i].key) = 1
      BY <2>1 DEF KeyBytes
    <3> QED BY <1>2, <1>3, <1>4, <3>1, <3>2
  <2>2. ASSUME NEW k \in DOMAIN ToTxtEntries(m), SameEntry(t[i], ToTxtEntries(m)[k])
        PROVE  EncodedSize(t[i]) <= MAX_DISCOVERY_TXT_ENTRY_BYTES + 1
    <3> DEFINE e == ToTxtEntries(m)[k]
    <3>1. EncodedSize(t[i]) = EncodedSize(e)
      BY <2>2 DEF SameEntry, EncodedSize
    <3>2. e \in {Entry("dv", Decimal[1]), Entry("pmin", Decimal[m.protocols.min]),
                 Entry("pmax", Decimal[m.protocols.max]), Entry("name", m.name),
                 Entry("os", m.platform)}
      BY EntriesOf DEF ToSet
    <3> HIDE DEF e
    <3>3. \/ EncodedSize(e) = 5
          \/ EncodedSize(e) \in 0..(6 + Digits16)
          \/ EncodedSize(e) \in 0..(6 + MAX_DISCOVERY_NAME_BYTES)
          \/ EncodedSize(e) \in 0..11
      BY <3>2, EntrySizes, Zenon
    <3>4. ASSUME NEW size \in Nat, NEW digits \in Nat, NEW name \in Nat, NEW limit \in Nat,
                 5 + digits <= limit, 5 + name <= limit, 11 <= limit,
                 size <= 5 \/ size <= 6 + digits \/ size <= 6 + name \/ size <= 11
          PROVE  size <= limit + 1
      BY <3>4
    <3>5. EncodedSize(e) \in Nat
      BY <1>2, <3>1
    <3>6. \/ EncodedSize(e) <= 5 \/ EncodedSize(e) <= 6 + Digits16
          \/ EncodedSize(e) <= 6 + MAX_DISCOVERY_NAME_BYTES \/ EncodedSize(e) <= 11
      <4>1. CASE EncodedSize(e) = 5
        BY <4>1
      <4>2. CASE EncodedSize(e) \in 0..(6 + Digits16)
        BY <4>2
      <4>3. CASE EncodedSize(e) \in 0..(6 + MAX_DISCOVERY_NAME_BYTES)
        BY <4>3
      <4>4. CASE EncodedSize(e) \in 0..11
        BY <4>4
      <4> QED BY <3>3, <4>1, <4>2, <4>3, <4>4
    <3> QED BY <1>3, <1>4, <3>1, <3>4, <3>5, <3>6
  <2> QED BY <2>1, <2>2 DEF Kept
<1>6. ~(KeyBytes(t[i].key) + 1 + ByteLen(t[i].value) > MAX_DISCOVERY_TXT_ENTRY_BYTES)
  BY <1>2, <1>3, <1>5
<1> QED BY <1>2, <1>6 DEF EntryError

\* Two devices choose the same version, the greatest both can.
LEMMA SameChoice ==
  ASSUME NEW own \in Ranges, NEW theirs \in Ranges
  PROVE  LET common == (own.min .. own.max) \cap (theirs.min .. theirs.max) IN
         /\ HighestCompatibleVersion(own, theirs) = HighestCompatibleVersion(theirs, own)
         /\ HighestCompatibleVersion(own, theirs) = {v \in common : \A w \in common : w <= v}
<1> DEFINE a == own.min
           b == own.max
           c == theirs.min
           d == theirs.max
           common == (a .. b) \cap (c .. d)
           low == Max({a, c})
           high == Min({b, d})
<1>1. a \in Nat /\ b \in Nat /\ c \in Nat /\ d \in Nat
  BY RangesOfMajors, MajorsAreNumbers
<1>2. {a, c} = {c, a} /\ {b, d} = {d, b}
  OBVIOUS
<1>3. /\ HighestCompatibleVersion(own, theirs) = IF low <= high THEN {high} ELSE {}
      /\ HighestCompatibleVersion(theirs, own)
           = IF Max({c, a}) <= Min({d, b}) THEN {Min({d, b})} ELSE {}
  BY DEF HighestCompatibleVersion
<1>4. HighestCompatibleVersion(own, theirs) = HighestCompatibleVersion(theirs, own)
  BY <1>2, <1>3
<1> HIDE DEF a, b, c, d
<1>5. low \in {a, c} /\ a <= low /\ c <= low
  <2>1. a + c \in Nat /\ {a, c} \in SUBSET (0..(a + c)) /\ {a, c} # {}
    BY <1>1
  <2> QED BY <2>1, MaxOf
<1>6. high \in {b, d} /\ high <= b /\ high <= d
  BY <1>1, MinOfTwo
<1> HIDE DEF low, high
<1>7. \A v : v \in common <=> v \in Int /\ low <= v /\ v <= high
  BY <1>1, <1>5, <1>6
<1>8. low \in Nat /\ high \in Nat
  BY <1>1, <1>5, <1>6
<1> HIDE DEF common
<1>9. {v \in common : \A w \in common : w <= v} = IF low <= high THEN {high} ELSE {}
  <2>1. CASE low <= high
    <3>1. high \in common /\ \A w \in common : w <= high
      BY <1>7, <1>8, <2>1
    <3>2. \A v \in common : v \in Int
      BY <1>7
    <3>3. \A v \in common : (\A w \in common : w <= v) => v = high
      BY <1>8, <3>1, <3>2
    <3> QED BY <2>1, <3>1, <3>3
  <2>2. CASE ~(low <= high)
    <3>1. \A v : v \notin common
      BY <1>7, <1>8, <2>2
    <3> QED BY <2>2, <3>1
  <2> QED BY <2>1, <2>2
<1>10. HighestCompatibleVersion(own, theirs) = {v \in common : \A w \in common : w <= v}
  BY <1>3, <1>9
<1> QED BY <1>4, <1>10 DEF common, a, b, c, d

\* What a device announces can be advertised, and every other device reads it
\* back whole, in whatever order and case its entries arrive and with whatever
\* other keys there is room for.
THEOREM AnnouncementsArrive == Spec => []AnnouncementsAreRead
<1>1. RecordIsShaped /\ EntriesAreKept => AnnouncementsAreRead
  <2> SUFFICES ASSUME RecordIsShaped, EntriesAreKept, channel = "record", ~harmed
               PROVE  AnnouncementsAreRead
    BY DEF AnnouncementsAreRead
  <2> DEFINE own == ToTxtEntries(sent)
  <2>1. record \in Seq(TxtEntries) /\ sent \in Announcements /\ Kept(record, own)
    BY DEF RecordIsShaped, EntriesAreKept, Kept
  <2>2. TotalSize(own) \in Nat /\ TotalSize(own) <= MAX_DISCOVERY_TXT_BYTES
    BY <2>1, OwnEntries
  <2>3. Advertisable(sent)
    <3>1. ASSUME NEW i \in DOMAIN own
          PROVE  IsUtf8(own[i].value)
      <4>1. /\ IsUtf8(Decimal[1]) /\ IsUtf8(Decimal[sent.protocols.min])
            /\ IsUtf8(Decimal[sent.protocols.max])
            /\ IsUtf8(sent.name) /\ IsUtf8(sent.platform)
        <5>1. 1 \in Majors
          BY DEF Majors
        <5> QED BY <2>1, <5>1, AnnouncedValues, VersionDigits
      <4>2. own[i] \in {Entry("dv", Decimal[1]), Entry("pmin", Decimal[sent.protocols.min]),
                        Entry("pmax", Decimal[sent.protocols.max]), Entry("name", sent.name),
                        Entry("os", sent.platform)}
        BY EntriesOf DEF ToSet
      <4> HIDE DEF own
      <4> QED BY <4>1, <4>2 DEF Entry
    <3> QED BY <2>2, <3>1 DEF Advertisable
  <2>4. \A i \in DOMAIN record : EntryError(record[i]) = "none"
    BY <2>1, KeptEntriesFit
  <2>5. /\ TxtError(record) = IF TotalSize(record) > MAX_DISCOVERY_TXT_BYTES
                                THEN "TotalMetadataTooLarge" ELSE "none"
        /\ TxtMetadata(record) = sent
    BY <2>1, KeptIsRead
  <2>6. TxtError(record) # "none" => TotalSize(record) > TotalSize(own)
    <3>1. TotalSize(record) \in Nat /\ MAX_DISCOVERY_TXT_BYTES \in Nat
      BY <2>1, SizesOf, MetadataAssumption
    <3> HIDE DEF own
    <3> QED BY <2>2, <2>5, <3>1
  <2>7. sent.protocols \in Ranges
    BY <2>1, Announced
  <2>8. TxtError(record) # "none" => TxtError(record) = "TotalMetadataTooLarge"
    BY <2>5
  <2>9. \A mine \in Ranges :
           LET theirs == TxtMetadata(record).protocols
               common == (mine.min .. mine.max) \cap (theirs.min .. theirs.max)
           IN  /\ HighestCompatibleVersion(mine, theirs) = HighestCompatibleVersion(theirs, mine)
               /\ HighestCompatibleVersion(mine, theirs)
                    = {v \in common : \A w \in common : w <= v}
    BY <2>5, <2>7, SameChoice
  <2> QED BY <2>3, <2>4, <2>5, <2>6, <2>8, <2>9, Zenon DEF AnnouncementsAreRead
<1> QED BY <1>1, RecordSteps, KeptSteps, PTL

-----------------------------------------------------------------------------
(* Hexadecimal.                                                            *)

HexSet == DigitSet \cup {"a", "b", "c", "d", "e", "f"}

Octets == 0..255

\* The two digits of a byte.
HighDigit(b) == HexDigits[(b \div 16) + 1]
LowDigit(b) == HexDigits[(b % 16) + 1]

Differ(s, n) == \A i, j \in 1..n : s[i] = s[j] => i = j

LEMMA AllDifferent ==
  ASSUME NEW S, NEW s \in Seq(S), NEW t \in Seq(S), Differ(s, Len(s)), Differ(t, Len(t)),
         \A i \in 1..Len(s), j \in 1..Len(t) : s[i] # t[j]
  PROVE  s \o t \in Seq(S) /\ Len(s \o t) = Len(s) + Len(t) /\ Differ(s \o t, Len(s \o t))
<1> DEFINE r == s \o t
           m == Len(s)
           n == Len(t)
<1>1. m \in Nat /\ n \in Nat
  OBVIOUS
<1>2. /\ r \in Seq(S) /\ Len(r) = m + n
      /\ \A i \in 1..(m + n) : r[i] = IF i <= m THEN s[i] ELSE t[i - m]
  BY ConcatProperties
<1>3. /\ \A i, j \in 1..m : s[i] = s[j] => i = j
      /\ \A i, j \in 1..n : t[i] = t[j] => i = j
      /\ \A i \in 1..m, j \in 1..n : s[i] # t[j]
  BY DEF Differ
<1> HIDE DEF r, m, n
<1>4. ASSUME NEW i \in 1..(m + n), NEW j \in 1..(m + n), r[i] = r[j]
      PROVE  i = j
  <2>1. CASE i <= m /\ j <= m
    <3>1. i \in 1..m /\ j \in 1..m /\ s[i] = s[j]
      BY <1>1, <1>2, <1>4, <2>1
    <3> QED BY <1>3, <3>1
  <2>2. CASE i > m /\ j > m
    <3>1. i - m \in 1..n /\ j - m \in 1..n
      BY <1>1, <2>2
    <3>2. t[i - m] = t[j - m]
      BY <1>1, <1>2, <1>4, <2>2
    <3>3. i - m = j - m
      BY <1>3, <3>1, <3>2
    <3> QED BY <1>1, <3>3
  <2>3. CASE i <= m /\ j > m
    <3>1. i \in 1..m /\ j - m \in 1..n /\ s[i] = t[j - m]
      BY <1>1, <1>2, <1>4, <2>3
    <3> QED BY <1>3, <3>1
  <2>4. CASE i > m /\ j <= m
    <3>1. i - m \in 1..n /\ j \in 1..m /\ s[j] = t[i - m]
      BY <1>1, <1>2, <1>4, <2>4
    <3> QED BY <1>3, <3>1
  <2> QED BY <1>1, <2>1, <2>2, <2>3, <2>4
<1>5. Differ(r, Len(r))
  BY <1>2, <1>4 DEF Differ
<1> QED BY <1>2, <1>5 DEF r, m, n

LEMMA HexDigitsAre ==
  /\ DOMAIN HexDigits = 1..16 /\ \A i \in 1..16 : HexDigits[i] \in HexSet
  /\ \A i, j \in 1..16 : HexDigits[i] = HexDigits[j] => i = j
<1> DEFINE tail == <<"a", "b", "c", "d", "e", "f">>
<1>1. Digits \in Seq(HexSet) /\ tail \in Seq(HexSet) /\ Len(Digits) = 10 /\ Len(tail) = 6
  BY DEF Digits, DigitSet, HexSet
<1>2. \A i, j \in 1..10 : Digits[i] = Digits[j] => i = j
  BY DEF Digits
<1>3. \A i, j \in 1..6 : tail[i] = tail[j] => i = j
  OBVIOUS
<1>4. \A i \in 1..10, j \in 1..6 : Digits[i] # tail[j]
  <2>1. \A i \in 1..10 : Digits[i] \in DigitSet
    BY DEF Digits, DigitSet
  <2>2. \A j \in 1..6 : tail[j] \in {"a", "b", "c", "d", "e", "f"}
    OBVIOUS
  <2>3. \A x \in DigitSet, y \in {"a", "b", "c", "d", "e", "f"} : x # y
    BY DEF DigitSet
  <2> QED BY <2>1, <2>2, <2>3
<1> HIDE DEF tail
<1>5. /\ Differ(Digits, Len(Digits)) /\ Differ(tail, Len(tail))
      /\ \A i \in 1..Len(Digits), j \in 1..Len(tail) : Digits[i] # tail[j]
  BY <1>1, <1>2, <1>3, <1>4, Zenon DEF Differ
<1>6. Len(Digits) + Len(tail) = 16
  BY <1>1
<1>7. /\ HexDigits \in Seq(HexSet) /\ Len(HexDigits) = Len(Digits) + Len(tail)
      /\ Differ(HexDigits, Len(HexDigits))
  BY <1>1, <1>5, AllDifferent DEF HexDigits, tail
<1>8. Len(HexDigits) = 16
  BY <1>6, <1>7
<1>9. DOMAIN HexDigits = 1..Len(HexDigits) /\ \A i \in 1..Len(HexDigits) : HexDigits[i] \in HexSet
  BY <1>7
<1> QED BY <1>7, <1>8, <1>9, Zenon DEF Differ

\* A character is a digit of one value or of none.
LEMMA HexValues ==
  /\ \A n \in 0..15 : HexValue(HexDigits[n + 1]) = {n}
  /\ \A c : HexValue(c) # {} => \E n \in 0..15 : HexValue(c) = {n} /\ c = HexDigits[n + 1]
<1>1. ASSUME NEW n \in 0..15
      PROVE  HexValue(HexDigits[n + 1]) = {n}
  <2>1. n + 1 \in 1..16
    OBVIOUS
  <2>2. {j \in DOMAIN HexDigits : HexDigits[j] = HexDigits[n + 1]} = {n + 1}
    BY <2>1, HexDigitsAre
  <2>3. {i - 1 : i \in {n + 1}} = {n}
    OBVIOUS
  <2> QED BY <2>2, <2>3 DEF HexValue
<1>2. ASSUME NEW c, HexValue(c) # {}
      PROVE  \E n \in 0..15 : HexValue(c) = {n} /\ c = HexDigits[n + 1]
  <2>1. PICK j \in DOMAIN HexDigits : HexDigits[j] = c
    BY <1>2 DEF HexValue
  <2>2. j \in 1..16
    BY <2>1, HexDigitsAre
  <2>3. j - 1 \in 0..15 /\ (j - 1) + 1 = j
    BY <2>2
  <2> QED BY <1>1, <2>1, <2>3
<1> QED BY <1>1, <1>2

LEMMA Sixteens ==
  ASSUME NEW n \in Nat
  PROVE  n \div 16 \in Nat /\ n % 16 \in 0..15 /\ n = 16 * (n \div 16) + (n % 16)
OBVIOUS

LEMMA OctetDigits ==
  /\ \A b \in Octets : /\ b \div 16 \in 0..15 /\ b % 16 \in 0..15
                       /\ 16 * (b \div 16) + (b % 16) = b
  /\ \A x, y \in 0..15 : /\ 16 * x + y \in Octets
                         /\ (16 * x + y) \div 16 = x /\ (16 * x + y) % 16 = y
<1>1. ASSUME NEW b \in Octets
      PROVE  b \div 16 \in 0..15 /\ b % 16 \in 0..15 /\ 16 * (b \div 16) + (b % 16) = b
  <2>1. b \in Nat /\ b <= 255
    BY DEF Octets
  <2>2. b \div 16 \in Nat /\ b % 16 \in 0..15 /\ b = 16 * (b \div 16) + (b % 16)
    BY <2>1, Sixteens
  <2> DEFINE q == b \div 16
             m == b % 16
  <2>3. q \in Nat /\ m \in 0..15 /\ b = 16 * q + m
    BY <2>2
  <2> HIDE DEF q, m
  <2>4. q \in 0..15 /\ 16 * q + m = b
    BY <2>1, <2>3
  <2> QED BY <2>3, <2>4, Zenon DEF q, m
<1>2. ASSUME NEW x \in 0..15, NEW y \in 0..15
      PROVE  /\ 16 * x + y \in Octets
             /\ (16 * x + y) \div 16 = x /\ (16 * x + y) % 16 = y
  <2>1. 16 * x + y \in Octets
    BY DEF Octets
  <2>2. (16 * x + y) \div 16 = x
    OBVIOUS
  <2>3. (16 * x + y) % 16 = y
    OBVIOUS
  <2> QED BY <2>1, <2>2, <2>3
<1> QED BY <1>1, <1>2

LEMMA OctetText ==
  ASSUME NEW b \in Octets
  PROVE  <<HighDigit(b), LowDigit(b)>> \in Seq(HexSet)
<1>1. (b \div 16) + 1 \in 1..16 /\ (b % 16) + 1 \in 1..16
  BY OctetDigits
<1>2. HighDigit(b) \in HexSet /\ LowDigit(b) \in HexSet
  BY <1>1, HexDigitsAre DEF HighDigit, LowDigit
<1> QED BY <1>2

HexStep(t) ==
    [i \in 1..Len(t) |-> [x \in Seq(HexSet) |-> x \o <<HighDigit(t[i]), LowDigit(t[i])>>]]

LEMMA HexChain ==
  ASSUME NEW t \in Seq(Octets)
  PROVE  \E v : Chain(v, Len(t), Seq(HexSet), <<>>, HexStep(t)) /\ Hex(t) = v[Len(t)]
<1> DEFINE n == Len(t)
           step == HexStep(t)
           Eq(f) == f = [s \in SUBSET (1..n) |->
                           IF s = {} THEN <<>> ELSE f[s \ {Max(s)}] \o <<HighDigit(t[Max(s)]), LowDigit(t[Max(s)])>>]
           g == CHOOSE f : Eq(f)
<1>1. n \in Nat /\ DOMAIN t = 1..n /\ <<>> \in Seq(HexSet)
  OBVIOUS
<1>2. Hex(t) = g[1..n]
  BY <1>1 DEF Hex, HighDigit, LowDigit, FoldLeft, MapThenFoldSet
<1>3. /\ step \in [1..n -> [Seq(HexSet) -> Seq(HexSet)]]
      /\ \A i \in 1..n : \A b \in Seq(HexSet) : step[i][b] = b \o <<HighDigit(t[i]), LowDigit(t[i])>>
  <2>1. \A i \in 1..n : <<HighDigit(t[i]), LowDigit(t[i])>> \in Seq(HexSet)
    BY <1>1, OctetText
  <2>2. \A i \in 1..n : \A x \in Seq(HexSet) :
           x \o <<HighDigit(t[i]), LowDigit(t[i])>> \in Seq(HexSet)
    BY <2>1, ConcatProperties
  <2> QED BY <2>2 DEF HexStep
<1> HIDE DEF n, step
<1>4. \E f : Eq(f)
  <2>1. PICK f \in [SUBSET (1..n) -> Seq(HexSet)] : TakesGreatestLast(f, n, <<>>, step)
    BY <1>1, <1>3, SetRecursion
  <2>2. ASSUME NEW s \in SUBSET (1..n), s # {}
        PROVE  step[Max(s)][f[s \ {Max(s)}]] = f[s \ {Max(s)}] \o <<HighDigit(t[Max(s)]), LowDigit(t[Max(s)])>>
    BY <1>1, <1>3, <2>2, MaxOfPositions
  <2>3. \A s \in SUBSET (1..n) :
           f[s] = IF s = {} THEN <<>> ELSE f[s \ {Max(s)}] \o <<HighDigit(t[Max(s)]), LowDigit(t[Max(s)])>>
    BY <2>1, <2>2 DEF TakesGreatestLast
  <2> QED BY <2>3
<1>5. Eq(g)
  <2> HIDE DEF Eq
  <2> QED BY <1>4
<1> HIDE DEF g
<1>6. g[{}] = <<>>
  BY <1>5
<1>7. ASSUME NEW s \in SUBSET (1..n), s # {}, g[s \ {Max(s)}] \in Seq(HexSet)
      PROVE  g[s] = step[Max(s)][g[s \ {Max(s)}]]
  BY <1>1, <1>3, <1>5, <1>7, MaxOfPositions
<1> DEFINE v == [k \in 0..n |-> g[1..k]]
<1>8. Chain(v, n, Seq(HexSet), <<>>, step)
  <2>1. Follows(g, n, Seq(HexSet), <<>>, step)
    BY <1>6, <1>7 DEF Follows
  <2> QED BY <1>1, <1>3, <2>1, FoldChain
<1>9. v[n] = g[1..n]
  BY <1>1
<1> HIDE DEF v
<1> QED BY <1>2, <1>8, <1>9 DEF n, step

LEMMA Halves ==
  ASSUME NEW n \in Nat, NEW i \in 1..(2 * n)
  PROVE  \E k \in 1..n : i = 2 * k - 1 \/ i = 2 * k
<1>1. i \in Nat /\ i \div 2 \in Nat /\ i % 2 \in 0..1 /\ i = 2 * (i \div 2) + (i % 2)
  OBVIOUS
<1> DEFINE q == i \div 2
           r == i % 2
<1>2. q \in Nat /\ r \in 0..1 /\ i = 2 * q + r /\ 1 <= i /\ i <= 2 * n
  BY <1>1
<1> HIDE DEF q, r
<1>3. CASE r = 0
  <2>1. q \in 1..n /\ i = 2 * q
    BY <1>2, <1>3
  <2> QED BY <2>1
<1>4. CASE r = 1
  <2>1. q + 1 \in 1..n /\ i = 2 * (q + 1) - 1
    BY <1>2, <1>4
  <2> QED BY <2>1
<1>5. r = 0 \/ r = 1
  BY <1>2
<1> QED BY <1>3, <1>4, <1>5

\* Two digits for each byte, in its place.
LEMMA HexShape ==
  ASSUME NEW t \in Seq(Octets)
  PROVE  /\ Hex(t) \in Seq(HexSet) /\ Len(Hex(t)) = 2 * Len(t)
         /\ \A k \in 1..Len(t) : /\ Hex(t)[2 * k - 1] = HighDigit(t[k])
                                 /\ Hex(t)[2 * k] = LowDigit(t[k])
<1> DEFINE n == Len(t)
           Shaped(x, k) == /\ x \in Seq(HexSet) /\ Len(x) = 2 * k
                           /\ \A j \in 1..k : x[2 * j - 1] = HighDigit(t[j]) /\ x[2 * j] = LowDigit(t[j])
<1>1. n \in Nat /\ \A k \in 1..n : t[k] \in Octets
  OBVIOUS
<1>2. PICK v : Chain(v, n, Seq(HexSet), <<>>, HexStep(t)) /\ Hex(t) = v[n]
  BY HexChain
<1> DEFINE G == {k \in 0..n : Shaped(v[k], k)}
<1>3. 0 \in G
  <2>1. v[0] = <<>> /\ 0 \in 0..n
    BY <1>1, <1>2 DEF Chain
  <2>2. Shaped(<<>>, 0)
    OBVIOUS
  <2> HIDE DEF Shaped
  <2> QED BY <2>1, <2>2
<1>4. ASSUME NEW k \in 0..(n - 1), k \in G
      PROVE  k + 1 \in G
  <2> DEFINE x == v[k]
             y == v[k + 1]
             high == HighDigit(t[k + 1])
             low == LowDigit(t[k + 1])
             d == <<high, low>>
  <2>1. k \in Nat /\ k + 1 \in 1..n /\ k + 1 \in 0..n /\ (k + 1) - 1 = k /\ t[k + 1] \in Octets
    BY <1>1
  <2>2. x \in Seq(HexSet) /\ Len(x) = 2 * k
    BY <1>4
  <2>3. \A j \in 1..k : x[2 * j - 1] = HighDigit(t[j]) /\ x[2 * j] = LowDigit(t[j])
    BY <1>4
  <2>4. y = x \o d
    <3>1. y = HexStep(t)[k + 1][x]
      BY <1>2, <2>1 DEF Chain
    <3> QED BY <2>1, <2>2, <3>1 DEF HexStep
  <2>5. d \in Seq(HexSet) /\ Len(d) = 2 /\ d[1] = high /\ d[2] = low
    BY <2>1, OctetText
  <2> HIDE DEF x, y, high, low, d
  <2>6. /\ y \in Seq(HexSet) /\ Len(y) = Len(x) + Len(d)
        /\ \A i \in 1..(Len(x) + Len(d)) : y[i] = IF i <= Len(x) THEN x[i] ELSE d[i - Len(x)]
    BY <2>2, <2>4, <2>5, ConcatProperties
  <2>7. Len(y) = 2 * (k + 1)
    BY <2>1, <2>2, <2>5, <2>6
  <2>8. y[2 * (k + 1) - 1] = high /\ y[2 * (k + 1)] = low
    <3>1. /\ 2 * (k + 1) - 1 \in 1..(Len(x) + Len(d)) /\ ~(2 * (k + 1) - 1 <= Len(x))
          /\ (2 * (k + 1) - 1) - Len(x) = 1
          /\ 2 * (k + 1) \in 1..(Len(x) + Len(d)) /\ ~(2 * (k + 1) <= Len(x))
          /\ 2 * (k + 1) - Len(x) = 2
      BY <2>1, <2>2, <2>5
    <3> QED BY <2>5, <2>6, <3>1
  <2>9. ASSUME NEW j \in 1..k
        PROVE  y[2 * j - 1] = HighDigit(t[j]) /\ y[2 * j] = LowDigit(t[j])
    <3>1. /\ 2 * j - 1 \in 1..(Len(x) + Len(d)) /\ 2 * j - 1 <= Len(x)
          /\ 2 * j \in 1..(Len(x) + Len(d)) /\ 2 * j <= Len(x)
      BY <2>1, <2>2, <2>5
    <3>2. y[2 * j - 1] = x[2 * j - 1] /\ y[2 * j] = x[2 * j]
      BY <2>6, <3>1
    <3> QED BY <2>3, <3>2
  <2>10. ASSUME NEW j \in 1..(k + 1)
         PROVE  y[2 * j - 1] = HighDigit(t[j]) /\ y[2 * j] = LowDigit(t[j])
    <3>1. j \in 1..k \/ j = k + 1
      BY <2>1
    <3>2. CASE j = k + 1
      BY <2>8, <3>2, Zenon DEF high, low
    <3> QED BY <2>9, <3>1, <3>2
  <2> HIDE DEF Shaped
  <2>11. Shaped(y, k + 1)
    BY <2>6, <2>7, <2>10 DEF Shaped
  <2> QED BY <2>1, <2>11 DEF y
<1>5. \A k \in 0..n : k \in G
  <2> HIDE DEF G, n
  <2> QED BY <1>1, <1>3, <1>4, CountingUp
<1>6. n \in 0..n
  BY <1>1
<1>7. Shaped(Hex(t), n)
  <2> HIDE DEF Shaped, n
  <2> QED BY <1>2, <1>5, <1>6
<1> QED BY <1>7

\* Bytes written in hexadecimal are read as they were.
THEOREM HexIsRead ==
  ASSUME NEW t \in Seq(Octets), t # <<>>
  PROVE  HexBytes(Hex(t)) = {t}
<1> DEFINE hex == Hex(t)
           n == Len(t)
           D(i) == CHOOSE d \in HexValue(hex[i]) : TRUE
<1>1. n \in Nat \ {0} /\ t \in [1..n -> Octets]
  BY EmptySeq, LenProperties
<1>2. /\ hex \in Seq(HexSet) /\ Len(hex) = 2 * n
      /\ \A k \in 1..n : /\ hex[2 * k - 1] = HighDigit(t[k])
                         /\ hex[2 * k] = LowDigit(t[k])
  BY HexShape
<1>3. ASSUME NEW k \in 1..n
      PROVE  /\ HexValue(hex[2 * k - 1]) = {t[k] \div 16} /\ HexValue(hex[2 * k]) = {t[k] % 16}
             /\ D(2 * k - 1) = t[k] \div 16 /\ D(2 * k) = t[k] % 16
             /\ 16 * D(2 * k - 1) + D(2 * k) = t[k]
  <2> DEFINE hi == t[k] \div 16
             lo == t[k] % 16
  <2>1. t[k] \in Octets
    BY <1>1
  <2>2. hi \in 0..15 /\ lo \in 0..15 /\ 16 * hi + lo = t[k]
    BY <2>1, OctetDigits
  <2>3. hex[2 * k - 1] = HexDigits[hi + 1] /\ hex[2 * k] = HexDigits[lo + 1]
    BY <1>2 DEF HighDigit, LowDigit
  <2> HIDE DEF hi, lo, hex
  <2>4. HexValue(hex[2 * k - 1]) = {hi} /\ HexValue(hex[2 * k]) = {lo}
    BY <2>2, <2>3, HexValues
  <2>5. D(2 * k - 1) = hi /\ D(2 * k) = lo
    BY <2>4
  <2> HIDE DEF D
  <2> QED BY <2>2, <2>4, <2>5, Zenon DEF hi, lo
<1> HIDE DEF hex, n
<1>4. ~(hex = <<>> \/ Len(hex) % 2 # 0 \/ \E i \in DOMAIN hex : HexValue(hex[i]) = {})
  <2>1. hex # <<>>
    BY <1>1, <1>2
  <2>2. Len(hex) % 2 = 0
    BY <1>1, <1>2
  <2>3. \A i \in DOMAIN hex : HexValue(hex[i]) # {}
    <3>1. DOMAIN hex = 1..(2 * n)
      BY <1>2
    <3>2. \A i \in 1..(2 * n) : \E k \in 1..n : i = 2 * k - 1 \/ i = 2 * k
      BY <1>1, Halves
    <3>3. \A k \in 1..n : HexValue(hex[2 * k - 1]) # {} /\ HexValue(hex[2 * k]) # {}
      BY <1>3
    <3> QED BY <3>1, <3>2, <3>3
  <2> QED BY <2>1, <2>2, <2>3
<1>5. HexBytes(hex) = {[k \in 1..(Len(hex) \div 2) |-> 16 * D(2 * k - 1) + D(2 * k)]}
  BY <1>4, Zenon DEF HexBytes
<1>6. Len(hex) \div 2 = n
  BY <1>1, <1>2
<1> HIDE DEF D
<1>7. [k \in 1..n |-> 16 * D(2 * k - 1) + D(2 * k)] = t
  <2> DEFINE f == [k \in 1..n |-> 16 * D(2 * k - 1) + D(2 * k)]
  <2>1. \A k \in 1..n : f[k] = t[k]
    BY <1>3
  <2>2. DOMAIN f = 1..n /\ f = [k \in 1..n |-> f[k]] /\ t = [k \in 1..n |-> t[k]]
    BY <1>1
  <2> HIDE DEF f
  <2>3. f = t
    BY <2>1, <2>2
  <2> QED BY <2>3 DEF f
<1> QED BY <1>5, <1>6, <1>7, Zenon DEF hex

\* What is read as bytes is how those bytes are written.
THEOREM HexIsCanonical ==
  ASSUME NEW S, NEW hex \in Seq(S), HexBytes(hex) # {}
  PROVE  \E t \in Seq(Octets) :
            t # <<>> /\ HexBytes(hex) = {t} /\ Hex(t) = hex /\ Len(hex) = 2 * Len(t)
<1> DEFINE n == Len(hex) \div 2
           D(i) == CHOOSE d \in HexValue(hex[i]) : TRUE
           t == [k \in 1..n |-> 16 * D(2 * k - 1) + D(2 * k)]
<1>1. ~(hex = <<>> \/ Len(hex) % 2 # 0 \/ \E i \in DOMAIN hex : HexValue(hex[i]) = {})
  BY Zenon DEF HexBytes
<1>2. HexBytes(hex) = {t}
  BY <1>1, Zenon DEF HexBytes
<1>3. n \in Nat \ {0} /\ Len(hex) = 2 * n /\ DOMAIN hex = 1..Len(hex)
  <2>1. Len(hex) \in Nat \ {0} /\ Len(hex) % 2 = 0 /\ DOMAIN hex = 1..Len(hex)
    BY <1>1, EmptySeq, LenProperties
  <2> DEFINE l == Len(hex)
  <2>2. l \in Nat \ {0} /\ l % 2 = 0 /\ n = l \div 2
    BY <2>1
  <2> HIDE DEF l, n
  <2>3. n \in Nat \ {0} /\ l = 2 * n
    BY <2>2
  <2> QED BY <2>1, <2>3 DEF l
<1> HIDE DEF n
<1>4. ASSUME NEW i \in 1..(2 * n)
      PROVE  D(i) \in 0..15 /\ hex[i] = HexDigits[D(i) + 1]
  <2>1. HexValue(hex[i]) # {}
    BY <1>1, <1>3
  <2>2. PICK d \in 0..15 : HexValue(hex[i]) = {d} /\ hex[i] = HexDigits[d + 1]
    BY <2>1, HexValues
  <2>3. D(i) = d
    BY <2>2
  <2> HIDE DEF D
  <2> QED BY <2>2, <2>3
<1> HIDE DEF D
<1>5. ASSUME NEW k \in 1..n
      PROVE  /\ t[k] \in Octets /\ 2 * k - 1 \in 1..(2 * n) /\ 2 * k \in 1..(2 * n)
             /\ hex[2 * k - 1] = HighDigit(t[k]) /\ hex[2 * k] = LowDigit(t[k])
  <2>1. 2 * k - 1 \in 1..(2 * n) /\ 2 * k \in 1..(2 * n)
    BY <1>3
  <2> DEFINE hi == D(2 * k - 1)
             lo == D(2 * k)
  <2>2. /\ hi \in 0..15 /\ hex[2 * k - 1] = HexDigits[hi + 1]
        /\ lo \in 0..15 /\ hex[2 * k] = HexDigits[lo + 1]
    BY <1>4, <2>1
  <2>3. t[k] = 16 * hi + lo
    OBVIOUS
  <2> HIDE DEF hi, lo, t
  <2>4. t[k] \in Octets /\ t[k] \div 16 = hi /\ t[k] % 16 = lo
    BY <2>2, <2>3, OctetDigits
  <2> QED BY <2>1, <2>2, <2>4, Zenon DEF HighDigit, LowDigit
<1>6. t \in Seq(Octets) /\ Len(t) = n
  <2>1. t \in [1..n -> Octets]
    <3>1. \A k \in 1..n : t[k] \in Octets
      BY <1>5
    <3> QED BY <3>1
  <2> QED BY <1>3, <2>1
<1> HIDE DEF t
<1>7. t # <<>>
  BY <1>3, <1>6
<1>8. /\ Hex(t) \in Seq(HexSet) /\ Len(Hex(t)) = 2 * n
      /\ \A k \in 1..n : Hex(t)[2 * k - 1] = HighDigit(t[k]) /\ Hex(t)[2 * k] = LowDigit(t[k])
  BY <1>6, HexShape
<1>9. ASSUME NEW i \in 1..(2 * n)
      PROVE  Hex(t)[i] = hex[i]
  <2>1. PICK k \in 1..n : i = 2 * k - 1 \/ i = 2 * k
    BY <1>3, Halves
  <2> QED BY <1>5, <1>8, <2>1, Zenon
<1>10. Hex(t) = hex
  <2>1. Hex(t) \in Seq(S \cup HexSet) /\ hex \in Seq(S \cup HexSet)
    BY <1>8, SeqMonotonic
  <2> QED BY <1>3, <1>8, <1>9, <2>1, SeqEqual
<1> QED BY <1>2, <1>3, <1>6, <1>7, <1>10

-----------------------------------------------------------------------------
(* Labels.                                                                 *)

\* What is left of a label is a part of it that begins and ends with no blank.
LEMMA LabelPart ==
  ASSUME NEW t \in Seq(Octets)
  PROVE  /\ Label(t) \in Seq(Octets) /\ Len(Label(t)) <= Len(t)
         /\ \A i \in DOMAIN Label(t) : \E j \in DOMAIN t : Label(t)[i] = t[j]
         /\ Label(t) # <<>> => Label(t)[1] # 32 /\ Label(t)[Len(Label(t))] # 32
<1> DEFINE visible == {i \in DOMAIN t : t[i] # 32}
<1>1. CASE visible = {}
  <2>1. Label(t) = <<>>
    BY <1>1 DEF Label
  <2>2. <<>> \in Seq(Octets) /\ DOMAIN <<>> = {} /\ Len(<<>>) = 0 /\ Len(t) \in Nat
    OBVIOUS
  <2> QED BY <2>1, <2>2
<1>2. CASE visible # {}
  <2> DEFINE a == Min(visible)
             b == Max(visible)
             r == SubSeq(t, a, b)
  <2>1. visible \in SUBSET (0..Len(t)) /\ visible \in SUBSET Nat /\ Len(t) \in Nat
    OBVIOUS
  <2>2. Label(t) = r
    BY <1>2 DEF Label
  <2>3. \A i \in visible : i \in 1..Len(t) /\ t[i] # 32
    OBVIOUS
  <2> HIDE DEF visible
  <2>4. a \in visible /\ \A i \in visible : a <= i
    BY <1>2, <2>1, MinOf
  <2>5. b \in visible
    BY <1>2, <2>1, MaxOf
  <2>6. a \in 1..Len(t) /\ b \in 1..Len(t) /\ a <= b /\ t[a] # 32 /\ t[b] # 32
    BY <2>3, <2>4, <2>5
  <2> HIDE DEF a, b
  <2>7. a \in Int /\ b \in Int /\ a <= b /\ \A i \in a..b : i \in DOMAIN t /\ t[i] \in Octets
    BY <2>1, <2>6
  <2>8. /\ r \in Seq(Octets) /\ Len(r) = b - a + 1
        /\ \A i \in 1..(b - a + 1) : r[i] = t[a + i - 1]
    BY <2>7, SubSeqProperties
  <2> HIDE DEF r
  <2>9. DOMAIN r = 1..(b - a + 1) /\ Len(r) <= Len(t)
    BY <2>1, <2>6, <2>8
  <2>10. \A i \in DOMAIN r : \E j \in DOMAIN t : r[i] = t[j]
    <3>1. \A i \in 1..(b - a + 1) : a + i - 1 \in a..b
      BY <2>7
    <3> QED BY <2>7, <2>8, <2>9, <3>1
  <2>11. r[1] = t[a] /\ r[Len(r)] = t[b]
    <3>1. 1 \in 1..(b - a + 1) /\ b - a + 1 \in 1..(b - a + 1)
          /\ a + 1 - 1 = a /\ a + (b - a + 1) - 1 = b
      BY <2>7
    <3> QED BY <2>8, <3>1
  <2> QED BY <2>2, <2>6, <2>8, <2>9, <2>10, <2>11
<1> QED BY <1>1, <1>2

\* A label that begins and ends so is left as it is.
LEMMA LabelAlready ==
  ASSUME NEW t \in Seq(Octets), t # <<>>, t[1] # 32, t[Len(t)] # 32
  PROVE  Label(t) = t
<1> DEFINE visible == {i \in DOMAIN t : t[i] # 32}
<1>1. /\ Len(t) \in Nat /\ 1 \in visible /\ Len(t) \in visible
      /\ \A i \in visible : i \in Nat /\ 1 <= i /\ i <= Len(t)
  <2>1. Len(t) \in Nat /\ 1 \in DOMAIN t /\ Len(t) \in DOMAIN t /\ DOMAIN t = 1..Len(t)
    OBVIOUS
  <2> QED BY <2>1
<1>2. Label(t) = SubSeq(t, Min(visible), Max(visible))
  <2>1. visible # {}
    BY <1>1
  <2> QED BY <2>1 DEF Label
<1> HIDE DEF visible
<1>3. visible \in SUBSET (0..Len(t)) /\ visible \in SUBSET Nat /\ visible # {}
  BY <1>1
<1>4. Min(visible) \in visible /\ Min(visible) <= 1
  BY <1>1, <1>3, MinOf
<1>5. Max(visible) \in visible /\ Len(t) <= Max(visible)
  BY <1>1, <1>3, MaxOf
<1>6. Min(visible) = 1 /\ Max(visible) = Len(t)
  BY <1>1, <1>4, <1>5
<1> QED BY <1>2, <1>6, SubSeqFull

\* A label that is one stays one when it is read again.
LEMMA LabelTwice ==
  ASSUME NEW t \in Seq(Octets), LabelError(t) = "none"
  PROVE  Label(t) # <<>> /\ Label(Label(t)) = Label(t) /\ LabelError(Label(t)) = "none"
<1> DEFINE l == Label(t)
<1>1. /\ ~\E i \in DOMAIN t : t[i] < 32 \/ t[i] = 127
      /\ l # <<>> /\ ~(Len(l) > MAX_TRUSTED_PEER_LABEL_CHARS)
  BY DEF LabelError
<1>2. /\ l \in Seq(Octets) /\ \A i \in DOMAIN l : \E j \in DOMAIN t : l[i] = t[j]
      /\ l[1] # 32 /\ l[Len(l)] # 32
  BY <1>1, LabelPart
<1> HIDE DEF l
<1>3. Label(l) = l
  BY <1>1, <1>2, LabelAlready
<1>4. ~\E i \in DOMAIN l : l[i] < 32 \/ l[i] = 127
  BY <1>1, <1>2
<1>5. LabelError(l) = "none"
  BY <1>1, <1>3, <1>4 DEF LabelError
<1> QED BY <1>1, <1>3, <1>5 DEF l

-----------------------------------------------------------------------------
(* Lines.                                                                  *)

LineStep(t) == [i \in 1..Len(t) |-> [n \in Nat |-> n + Len(t[i])]]

LEMMA LineChain ==
  ASSUME NEW t \in Seq(Seq(Characters)), t # <<>>
  PROVE  \E v : Chain(v, Len(t), Nat, Len(t) - 1, LineStep(t)) /\ LineLen(t) = v[Len(t)]
<1> DEFINE n == Len(t)
           first == Len(t) - 1
           step == LineStep(t)
           Eq(f) == f = [s \in SUBSET (1..n) |->
                           IF s = {} THEN first ELSE f[s \ {Max(s)}] + Len(t[Max(s)])]
           g == CHOOSE f : Eq(f)
<1>1. n \in Nat /\ DOMAIN t = 1..n /\ first \in Nat
  OBVIOUS
<1>2. LineLen(t) = g[1..n]
  BY <1>1 DEF LineLen, FoldLeft, MapThenFoldSet
<1>3. /\ step \in [1..n -> [Nat -> Nat]]
      /\ \A i \in 1..n : \A b \in Nat : step[i][b] = b + Len(t[i])
  <2>1. \A i \in 1..n : t[i] \in Seq(Characters)
    BY <1>1
  <2>2. \A i \in 1..n : Len(t[i]) \in Nat
    BY <2>1
  <2> QED BY <2>2 DEF LineStep
<1> HIDE DEF n, first, step
<1>4. \E f : Eq(f)
  <2>1. PICK f \in [SUBSET (1..n) -> Nat] : TakesGreatestLast(f, n, first, step)
    BY <1>1, <1>3, SetRecursion
  <2>2. ASSUME NEW s \in SUBSET (1..n), s # {}
        PROVE  step[Max(s)][f[s \ {Max(s)}]] = f[s \ {Max(s)}] + Len(t[Max(s)])
    BY <1>1, <1>3, <2>2, MaxOfPositions
  <2>3. \A s \in SUBSET (1..n) :
           f[s] = IF s = {} THEN first ELSE f[s \ {Max(s)}] + Len(t[Max(s)])
    BY <2>1, <2>2 DEF TakesGreatestLast
  <2> QED BY <2>3
<1>5. Eq(g)
  <2> HIDE DEF Eq
  <2> QED BY <1>4
<1> HIDE DEF g
<1>6. g[{}] = first
  BY <1>5
<1>7. ASSUME NEW s \in SUBSET (1..n), s # {}, g[s \ {Max(s)}] \in Nat
      PROVE  g[s] = step[Max(s)][g[s \ {Max(s)}]]
  BY <1>1, <1>3, <1>5, <1>7, MaxOfPositions
<1> DEFINE v == [k \in 0..n |-> g[1..k]]
<1>8. Chain(v, n, Nat, first, step)
  <2>1. Follows(g, n, Nat, first, step)
    BY <1>6, <1>7 DEF Follows
  <2> QED BY <1>1, <1>3, <2>1, FoldChain
<1>9. v[n] = g[1..n]
  BY <1>1
<1> HIDE DEF v
<1> QED BY <1>2, <1>8, <1>9 DEF n, first, step

LEMMA LineLenOf ==
  ASSUME NEW t \in Seq(Seq(Characters)), Len(t) = 3
  PROVE  LineLen(t) = 2 + Len(t[1]) + Len(t[2]) + Len(t[3])
<1>1. PICK v : Chain(v, Len(t), Nat, Len(t) - 1, LineStep(t)) /\ LineLen(t) = v[Len(t)]
  <2>1. Len(<<>>) = 0
    OBVIOUS
  <2>2. t # <<>>
    <3>1. t = <<>> => Len(t) = 0
      BY <2>1, Zenon
    <3> QED BY <3>1
  <2> QED BY <2>2, LineChain
<1>2. v[0] = 2 /\ LineLen(t) = v[3] /\ \A k \in 1..3 : v[k] = LineStep(t)[k][v[k - 1]]
  BY <1>1 DEF Chain
<1>3. v[0] \in Nat /\ v[1] \in Nat /\ v[2] \in Nat
  BY <1>1 DEF Chain
<1>4. /\ \A n \in Nat : LineStep(t)[1][n] = n + Len(t[1])
      /\ \A n \in Nat : LineStep(t)[2][n] = n + Len(t[2])
      /\ \A n \in Nat : LineStep(t)[3][n] = n + Len(t[3])
  BY DEF LineStep
<1>5. v[1] = v[0] + Len(t[1]) /\ v[2] = v[1] + Len(t[2]) /\ v[3] = v[2] + Len(t[3])
  <2>1. /\ v[1] = LineStep(t)[1][v[0]] /\ v[2] = LineStep(t)[2][v[1]]
        /\ v[3] = LineStep(t)[3][v[2]]
    <3>1. 1 \in 1..3 /\ 2 \in 1..3 /\ 3 \in 1..3 /\ 1 - 1 = 0 /\ 2 - 1 = 1 /\ 3 - 1 = 2
      OBVIOUS
    <3> QED BY <1>2, <3>1
  <2> QED BY <1>3, <1>4, <2>1
<1>6. Len(t[1]) \in Nat /\ Len(t[2]) \in Nat /\ Len(t[3]) \in Nat
  <2>1. t[1] \in Seq(Characters) /\ t[2] \in Seq(Characters) /\ t[3] \in Seq(Characters)
    OBVIOUS
  <2> QED BY <2>1
<1> QED BY <1>2, <1>3, <1>5, <1>6

LEMMA HexIsText == HexSet \subseteq Characters /\ "-" \in Characters
BY DEF HexSet, DigitSet, Characters

\* A label in its field.
LEMMA LabelField ==
  ASSUME NEW u \in Seq(Octets), \A i \in DOMAIN u : u[i] <= 127, u # <<>>,
         LabelError(u) = "none", 2 * Len(u) <= MAX_TRUSTED_PEER_LABEL_BYTES
  PROVE  /\ Hex(u) \in Seq(Characters) /\ Len(Hex(u)) = 2 * Len(u) /\ Hex(u) # <<"-">>
         /\ HexBytes(Hex(u)) = {u} /\ LabelFieldError(Hex(u)) = "none"
<1> DEFINE f == Hex(u)
<1>1. f \in Seq(HexSet) /\ Len(f) = 2 * Len(u) /\ HexBytes(f) = {u} /\ Len(u) \in Nat
  BY HexShape, HexIsRead
<1> HIDE DEF f
<1>2. f \in Seq(Characters)
  BY <1>1, HexIsText, SeqMonotonic
<1>3. f # <<"-">>
  <2>1. Len(<<"-">>) = 1
    OBVIOUS
  <2>2. Len(f) # 1
    BY <1>1
  <2> QED BY <2>1, <2>2
<1>4. ~(Len(f) > MAX_TRUSTED_PEER_LABEL_BYTES)
  BY <1>1, LineAssumption
<1>5. ~\E i \in DOMAIN u : u[i] > 127
  <2>1. \A i \in DOMAIN u : u[i] \in Octets
    OBVIOUS
  <2>2. \A b \in Octets : b <= 127 => ~(b > 127)
    BY DEF Octets
  <2> QED BY <2>1, <2>2
<1>6. LabelFieldError(f) = "none"
  BY <1>1, <1>3, <1>4, <1>5 DEF LabelFieldError
<1> QED BY <1>1, <1>2, <1>3, <1>6 DEF f

\* The record of a line, field by field.
Only(S) == CHOOSE x \in S : TRUE
LabelOf(c) == IF c = <<"-">> THEN <<>> ELSE Label(Only(HexBytes(c)))
RecordOf(a, m, c) == PeerRecord(Only(CanonicalU16(a)), m, LabelOf(c))

LEMMA RecordOfLine ==
  ASSUME NEW l
  PROVE  LineRecord(l) = RecordOf(l[1], Only(HexBytes(l[2])), l[3])
BY DEF LineRecord, RecordOf, LabelOf, Only

\* A line whose three fields are in order is read.
FieldsFit(a, b, c, m) ==
    /\ a \in Seq(Characters) /\ b \in Seq(Characters) /\ c \in Seq(Characters)
    /\ CanonicalU16(a) # {} /\ HexBytes(b) = {m} /\ IdentityError(m) = "none"
    /\ Len(b) <= 2 * MAX_PEER_IDENTITY_BYTES /\ LabelFieldError(c) = "none"
    /\ 2 + Len(a) + Len(b) + Len(c) <= MAX_RECORD_LINE_BYTES

LEMMA LineOfFields ==
  ASSUME NEW a, NEW b, NEW c, NEW m, FieldsFit(a, b, c, m)
  PROVE  LineError(<<a, b, c>>) = "none" /\ LineRecord(<<a, b, c>>) = RecordOf(a, m, c)
<1> DEFINE l == <<a, b, c>>
<1>0. /\ a \in Seq(Characters) /\ b \in Seq(Characters) /\ c \in Seq(Characters)
      /\ CanonicalU16(a) # {} /\ HexBytes(b) = {m} /\ IdentityError(m) = "none"
      /\ Len(b) <= 2 * MAX_PEER_IDENTITY_BYTES /\ LabelFieldError(c) = "none"
      /\ 2 + Len(a) + Len(b) + Len(c) <= MAX_RECORD_LINE_BYTES
  BY DEF FieldsFit
<1>1. l \in Seq(Seq(Characters)) /\ Len(l) = 3 /\ l[1] = a /\ l[2] = b /\ l[3] = c
  BY <1>0
<1> HIDE DEF l
<1>2. LineLen(l) = 2 + Len(a) + Len(b) + Len(c)
  BY <1>1, LineLenOf
<1>3. Len(a) \in Nat /\ Len(b) \in Nat /\ Len(c) \in Nat
  BY <1>0
<1>4. /\ ~(LineLen(l) > MAX_RECORD_LINE_BYTES)
      /\ ~(Len(b) > 2 * MAX_PEER_IDENTITY_BYTES)
  BY <1>0, <1>2, <1>3, LineAssumption
<1>5. LineError(l) = "none"
  BY <1>0, <1>1, <1>4 DEF LineError
<1>6. Only(HexBytes(b)) = m
  BY <1>0 DEF Only
<1>7. LineRecord(l) = RecordOf(a, m, c)
  BY <1>1, <1>6, RecordOfLine, Zenon
<1> QED BY <1>5, <1>7 DEF l

\* What stands in an identifier's first field is its own decimal.
LEMMA SchemeField ==
  ASSUME NEW a, CanonicalU16(a) # {}
  PROVE  Decimal[Only(CanonicalU16(a))] = a
<1>1. Only(CanonicalU16(a)) \in CanonicalU16(a)
  BY DEF Only
<1> QED BY <1>1, Zenon DEF CanonicalU16

\* What can be stored: an identity and a label the constructors accept, within
\* what the parser reads.
Storable(scheme, m, l) ==
    /\ scheme \in 0..U16_MAX /\ m \in Seq(Octets) /\ IdentityError(m) = "none"
    /\ l \in Seq(Octets) /\ 2 * Len(l) <= MAX_TRUSTED_PEER_LABEL_BYTES
    /\ l # <<>> => LabelError(l) = "none" /\ Label(l) = l /\ \A i \in DOMAIN l : l[i] <= 127
    /\ 2 + Len(Decimal[scheme]) + 2 * Len(m) + (IF l = <<>> THEN 1 ELSE 2 * Len(l))
           <= MAX_RECORD_LINE_BYTES

\* A record within the bounds of the parser is read from its line as it was.
THEOREM StoredIsRead ==
  ASSUME NEW scheme, NEW m, NEW l, Storable(scheme, m, l)
  PROVE  /\ EncodeLine(PeerRecord(scheme, m, l)) \in Seq(Seq(Characters))
         /\ LineError(EncodeLine(PeerRecord(scheme, m, l))) = "none"
         /\ LineRecord(EncodeLine(PeerRecord(scheme, m, l))) = PeerRecord(scheme, m, l)
<1>0. /\ scheme \in 0..U16_MAX /\ m \in Seq(Octets) /\ IdentityError(m) = "none"
      /\ l \in Seq(Octets) /\ 2 * Len(l) <= MAX_TRUSTED_PEER_LABEL_BYTES
      /\ l # <<>> => LabelError(l) = "none" /\ Label(l) = l /\ \A i \in DOMAIN l : l[i] <= 127
      /\ 2 + Len(Decimal[scheme]) + 2 * Len(m) + (IF l = <<>> THEN 1 ELSE 2 * Len(l))
             <= MAX_RECORD_LINE_BYTES
  BY DEF Storable
<1> DEFINE a == Decimal[scheme]
           b == Hex(m)
           c == IF l = <<>> THEN <<"-">> ELSE Hex(l)
           line0 == EncodeLine(PeerRecord(scheme, m, l))
<1>1. line0 = <<a, b, c>>
  BY DEF EncodeLine, PeerRecord
<1>2. a \in Seq(Characters) /\ CanonicalU16(a) = {scheme}
  <2>1. scheme \in Nat
    BY <1>0, TextAssumption
  <2> QED BY <1>0, <2>1, DecimalIsText, DecimalIsCanonical
<1>3. m # <<>> /\ Len(m) <= MAX_PEER_IDENTITY_BYTES /\ Len(m) \in Nat /\ Len(l) \in Nat
  <2>1. m # <<>> /\ ~(Len(m) > MAX_PEER_IDENTITY_BYTES) /\ Len(m) \in Nat /\ Len(l) \in Nat
    BY <1>0 DEF IdentityError
  <2> QED BY <2>1, LineAssumption
<1>4. b \in Seq(Characters) /\ Len(b) = 2 * Len(m) /\ HexBytes(b) = {m}
  <2>1. b \in Seq(HexSet) /\ Len(b) = 2 * Len(m) /\ HexBytes(b) = {m}
    BY <1>0, <1>3, HexShape, HexIsRead
  <2> HIDE DEF b
  <2> QED BY <2>1, HexIsText, SeqMonotonic
<1>5. /\ c \in Seq(Characters) /\ Len(c) = (IF l = <<>> THEN 1 ELSE 2 * Len(l))
      /\ LabelFieldError(c) = "none" /\ LabelOf(c) = l
  <2>1. CASE l = <<>>
    <3>1. c = <<"-">> /\ <<"-">> \in Seq(Characters) /\ Len(<<"-">>) = 1
      BY <2>1, HexIsText
    <3>2. LabelFieldError(<<"-">>) = "none"
      BY Zenon DEF LabelFieldError
    <3>3. Len(c) = 1
      BY <3>1
    <3> HIDE DEF c
    <3> QED BY <2>1, <3>1, <3>2, <3>3 DEF LabelOf
  <2>2. CASE l # <<>>
    <3>1. c = Hex(l)
      BY <2>2
    <3> HIDE DEF c
    <3>2. /\ c \in Seq(Characters) /\ Len(c) = 2 * Len(l) /\ c # <<"-">>
          /\ HexBytes(c) = {l} /\ LabelFieldError(c) = "none"
      BY <1>0, <2>2, <3>1, LabelField
    <3>4. Only(HexBytes(c)) = l
      BY <3>2 DEF Only
    <3>5. Label(l) = l
      BY <1>0, <2>2
    <3>6. LabelOf(c) = l
      BY <3>2, <3>4, <3>5, Zenon DEF LabelOf
    <3> QED BY <2>2, <3>2, <3>6
  <2> QED BY <2>1, <2>2
<1>6. Len(a) \in Nat /\ Len(c) \in Nat
  <2> HIDE DEF a, c
  <2> QED BY <1>2, <1>5
<1>7. 2 + Len(a) + 2 * Len(m) + Len(c) <= MAX_RECORD_LINE_BYTES
  <2>1. 2 + Len(a) + 2 * Len(m) + (IF l = <<>> THEN 1 ELSE 2 * Len(l))
            <= MAX_RECORD_LINE_BYTES
    BY <1>0
  <2> HIDE DEF a, c
  <2> QED BY <1>5, <2>1, Zenon
<1> HIDE DEF a, b, c, line0
<1>8. /\ Len(b) <= 2 * MAX_PEER_IDENTITY_BYTES
      /\ 2 + Len(a) + Len(b) + Len(c) <= MAX_RECORD_LINE_BYTES
  <2>1. ASSUME NEW x \in Nat, NEW y \in Nat, NEW z \in Nat, NEW p \in Nat,
               NEW limit \in Nat, p <= limit, y = 2 * p,
               NEW max \in Nat, 2 + x + 2 * p + z <= max
        PROVE  y <= 2 * limit /\ 2 + x + y + z <= max
    BY <2>1
  <2>2. Len(b) \in Nat
    BY <1>3, <1>4
  <2>3. Len(m) \in Nat /\ Len(m) <= MAX_PEER_IDENTITY_BYTES /\ Len(b) = 2 * Len(m)
    BY <1>3, <1>4
  <2> QED BY <1>6, <1>7, <2>1, <2>2, <2>3, LineAssumption
<1>9. CanonicalU16(a) # {} /\ Only(CanonicalU16(a)) = scheme
  BY <1>2 DEF Only
<1>10. LineError(<<a, b, c>>) = "none" /\ LineRecord(<<a, b, c>>) = RecordOf(a, m, c)
  <2>1. IdentityError(m) = "none"
    BY <1>0
  <2>2. FieldsFit(a, b, c, m)
    BY <1>2, <1>4, <1>5, <1>8, <1>9, <2>1 DEF FieldsFit
  <2> QED BY <2>2, LineOfFields
<1>11. LineRecord(<<a, b, c>>) = PeerRecord(scheme, m, l)
  BY <1>5, <1>9, <1>10, Zenon DEF RecordOf
<1>12. <<a, b, c>> \in Seq(Seq(Characters))
  BY <1>2, <1>4, <1>5
<1> QED BY <1>1, <1>10, <1>11, <1>12 DEF line0

\* A line that can be read, written again, names the same identity in the same
\* spelling, and is read again as the same record.
THEOREM ReadIsCanonical ==
  ASSUME NEW l \in Seq(Seq(Characters)), LineError(l) = "none"
  PROVE  /\ EncodeLine(LineRecord(l))[1] = l[1] /\ EncodeLine(LineRecord(l))[2] = l[2]
         /\ LineError(EncodeLine(LineRecord(l))) = "none"
         /\ LineRecord(EncodeLine(LineRecord(l))) = LineRecord(l)
<1> DEFINE a == l[1]
           b == l[2]
           c == l[3]
           r == LineRecord(l)
           f == IF r.label = <<>> THEN <<"-">> ELSE Hex(r.label)
<1>1. /\ ~(LineLen(l) > MAX_RECORD_LINE_BYTES) /\ Len(l) = 3 /\ CanonicalU16(a) # {}
      /\ ~(Len(b) > 2 * MAX_PEER_IDENTITY_BYTES) /\ HexBytes(b) # {}
      /\ ~\E bytes \in HexBytes(b) : IdentityError(bytes) # "none"
      /\ LabelFieldError(c) = "none"
  BY DEF LineError
<1>2. a \in Seq(Characters) /\ b \in Seq(Characters) /\ c \in Seq(Characters)
  <2>1. 1 \in DOMAIN l /\ 2 \in DOMAIN l /\ 3 \in DOMAIN l
    BY <1>1
  <2> QED BY <2>1
<1>3. /\ r.scheme = Only(CanonicalU16(a)) /\ r.material = Only(HexBytes(b))
      /\ r.label = LabelOf(c)
  BY RecordOfLine DEF RecordOf, LabelOf, PeerRecord
<1>4. r = PeerRecord(r.scheme, r.material, r.label)
  BY RecordOfLine DEF RecordOf, PeerRecord
<1>5. EncodeLine(r) = <<Decimal[r.scheme], Hex(r.material), f>>
  BY DEF EncodeLine
<1>6. 2 + Len(a) + Len(b) + Len(c) <= MAX_RECORD_LINE_BYTES
  <2>1. LineLen(l) = 2 + Len(a) + Len(b) + Len(c)
    <3>1. Len(l) = 3
      BY <1>1
    <3> QED BY <3>1, LineLenOf
  <2>2. Len(a) \in Nat /\ Len(b) \in Nat /\ Len(c) \in Nat
    BY <1>2
  <2> HIDE DEF a, b, c
  <2> QED BY <1>1, <2>1, <2>2, LineAssumption
<1> HIDE DEF a, b, c, r
<1>7. Decimal[r.scheme] = a
  BY <1>1, <1>3, SchemeField
<1>8. PICK m \in Seq(Octets) : m # <<>> /\ HexBytes(b) = {m} /\ Hex(m) = b
  BY <1>1, <1>2, HexIsCanonical
<1>9. r.material = m /\ IdentityError(m) = "none"
  BY <1>1, <1>3, <1>8 DEF Only
<1>10. /\ f \in Seq(Characters) /\ Len(f) <= Len(c) /\ LabelFieldError(f) = "none"
       /\ LabelOf(f) = r.label
  <2>1. CASE c = <<"-">>
    <3>1. r.label = <<>>
      BY <1>3, <2>1 DEF LabelOf
    <3>2. f = c
      BY <2>1, <3>1
    <3> HIDE DEF f
    <3>3. Len(f) <= Len(c)
      BY <1>2, <3>2
    <3> QED BY <1>1, <1>2, <1>3, <3>2, <3>3
  <2>2. CASE c # <<"-">>
    <3>1. /\ ~(Len(c) > MAX_TRUSTED_PEER_LABEL_BYTES)
          /\ ~\A bytes \in HexBytes(c) : \E i \in DOMAIN bytes : bytes[i] > 127
          /\ ~\E bytes \in HexBytes(c) : LabelError(bytes) # "none"
      BY <1>1, <2>2 DEF LabelFieldError
    <3>2. HexBytes(c) # {}
      BY <3>1
    <3>3. PICK u \in Seq(Octets) : HexBytes(c) = {u} /\ Len(c) = 2 * Len(u)
      BY <1>2, <3>2, HexIsCanonical
    <3> DEFINE v == Label(u)
    <3>4. LabelError(u) = "none" /\ ~\E i \in DOMAIN u : u[i] > 127
      BY <3>1, <3>3
    <3>5. v # <<>> /\ Label(v) = v /\ LabelError(v) = "none"
      BY <3>4, LabelTwice
    <3>6. /\ v \in Seq(Octets) /\ Len(v) <= Len(u)
          /\ \A i \in DOMAIN v : \E j \in DOMAIN u : v[i] = u[j]
      BY LabelPart
    <3>7. r.label = v
      BY <1>3, <2>2, <3>3 DEF LabelOf, Only
    <3>8. f = Hex(v)
      BY <3>5, <3>7
    <3> HIDE DEF v, f
    <3>9. \A i \in DOMAIN v : v[i] <= 127
      <4>1. \A i \in DOMAIN u : u[i] \in Octets
        OBVIOUS
      <4>2. \A x \in Octets : ~(x > 127) => x <= 127
        BY DEF Octets
      <4> QED BY <3>4, <3>6, <4>1, <4>2
    <3>10. Len(u) \in Nat /\ Len(v) \in Nat
      BY <3>6
    <3>11. 2 * Len(v) <= MAX_TRUSTED_PEER_LABEL_BYTES
      BY <3>1, <3>3, <3>6, <3>10, LineAssumption
    <3>12. /\ f \in Seq(Characters) /\ Len(f) = 2 * Len(v) /\ f # <<"-">>
           /\ HexBytes(f) = {v} /\ LabelFieldError(f) = "none"
      BY <3>5, <3>6, <3>8, <3>9, <3>11, LabelField
    <3>13. Len(f) <= Len(c)
      BY <3>3, <3>6, <3>10, <3>12
    <3>14. Only(HexBytes(f)) = v
      BY <3>12 DEF Only
    <3>15. LabelOf(f) = v
      BY <3>5, <3>12, <3>14, Zenon DEF LabelOf
    <3> QED BY <3>7, <3>12, <3>13, <3>15
  <2> QED BY <2>1, <2>2
<1> HIDE DEF f
<1>11. 2 + Len(a) + Len(b) + Len(f) <= MAX_RECORD_LINE_BYTES
  <2>1. Len(a) \in Nat /\ Len(b) \in Nat /\ Len(c) \in Nat /\ Len(f) \in Nat
    BY <1>2, <1>10
  <2> QED BY <1>6, <1>10, <2>1, LineAssumption
<1>12. Len(b) <= 2 * MAX_PEER_IDENTITY_BYTES
  BY <1>1, <1>2, LineAssumption
<1>13. LineError(<<a, b, f>>) = "none" /\ LineRecord(<<a, b, f>>) = RecordOf(a, m, f)
  <2>1. FieldsFit(a, b, f, m)
    BY <1>1, <1>2, <1>8, <1>9, <1>10, <1>11, <1>12 DEF FieldsFit
  <2> QED BY <2>1, LineOfFields
<1>14. EncodeLine(r) = <<a, b, f>>
  BY <1>5, <1>7, <1>8, <1>9
<1>15. LineRecord(<<a, b, f>>) = r
  BY <1>3, <1>4, <1>9, <1>10, <1>13, Zenon DEF RecordOf
<1>16. <<a, b, f>>[1] = a /\ <<a, b, f>>[2] = b
  OBVIOUS
<1> QED BY <1>13, <1>14, <1>15, <1>16, Zenon DEF a, b, r

\* The bounds leave room for every record of the model.
LEMMA RecordsFit ==
  ASSUME NEW r \in PeerRecords
  PROVE  /\ EncodeLine(r) \in Seq(Seq(Characters))
         /\ LineError(EncodeLine(r)) = "none" /\ LineRecord(EncodeLine(r)) = r
<1>0. /\ MAX_PEER_IDENTITY_BYTES \in Nat /\ MAX_PEER_IDENTITY_BYTES >= 2
      /\ MAX_TRUSTED_PEER_LABEL_CHARS \in Nat /\ MAX_TRUSTED_PEER_LABEL_CHARS >= 3
      /\ MAX_TRUSTED_PEER_LABEL_BYTES \in Nat /\ MAX_TRUSTED_PEER_LABEL_BYTES >= 6
      /\ MAX_RECORD_LINE_BYTES \in Nat /\ 12 + Digits16 <= MAX_RECORD_LINE_BYTES
  BY LineAssumption, LineRoomAssumption, Zenon DEF Digits16
<1>1. PICK scheme, m, l :
         /\ scheme \in {0, 1, U16_MAX} /\ m \in {<<0>>, <<26>>, <<160, 9>>}
         /\ l \in {<<>>, <<97>>, <<97, 32, 97>>} /\ r = PeerRecord(scheme, m, l)
  BY DEF PeerRecords
<1>2. /\ Digits16 \in Nat /\ scheme \in 0..U16_MAX
      /\ Len(Decimal[scheme]) \in Nat /\ Len(Decimal[scheme]) <= Digits16
  <2>1. U16_MAX \in Nat /\ U16_MAX >= 2 /\ scheme \in Nat
    BY <1>1, TextAssumption, RoomAssumption
  <2>2. /\ Decimal[scheme] \in Seq(DigitSet)
        /\ Decimal[U16_MAX] \in Seq(DigitSet) /\ Decimal[U16_MAX] # <<>>
    BY <2>1, DecimalValue
  <2>3. Digits16 \in Nat /\ Digits16 >= 1 /\ Len(Decimal[scheme]) \in Nat
    BY <2>2 DEF Digits16
  <2>4. CASE scheme = U16_MAX
    BY <2>1, <2>3, <2>4 DEF Digits16
  <2>5. CASE scheme \in {0, 1}
    <3>1. scheme \in Nat /\ scheme < 10
      BY <2>5
    <3>2. Decimal[scheme] = <<Digits[scheme + 1]>>
      BY <3>1, DecimalDefined DEF DecimalStep
    <3>3. Len(Decimal[scheme]) = 1
      BY <3>2
    <3> QED BY <2>1, <2>3, <2>5, <3>3
  <2> QED BY <1>1, <2>4, <2>5, Zenon
<1>3. m \in Seq(Octets) /\ m # <<>> /\ Len(m) \in Nat /\ Len(m) <= 2
  <2>1. 0 \in Octets /\ 26 \in Octets /\ 160 \in Octets /\ 9 \in Octets
    BY DEF Octets
  <2>2. CASE m = <<0>>
    BY <2>1, <2>2
  <2>3. CASE m = <<26>>
    BY <2>1, <2>3
  <2>4. CASE m = <<160, 9>>
    BY <2>1, <2>4
  <2>5. m = <<0>> \/ m = <<26>> \/ m = <<160, 9>>
    BY <1>1, Zenon
  <2> QED BY <2>2, <2>3, <2>4, <2>5
<1>4. IdentityError(m) = "none"
  <2>1. ~(Len(m) > MAX_PEER_IDENTITY_BYTES)
    BY <1>0, <1>3
  <2> QED BY <1>3, <2>1 DEF IdentityError
<1>5. /\ l \in Seq(Octets) /\ Len(l) \in Nat /\ Len(l) <= 3
      /\ l # <<>> => /\ Label(l) = l
                     /\ \A i \in DOMAIN l : l[i] <= 127 /\ ~(l[i] < 32) /\ l[i] # 127
  <2>1. 97 \in Octets /\ 32 \in Octets
    BY DEF Octets
  <2>2. CASE l = <<>>
    BY <2>2
  <2>3. CASE l = <<97>>
    <3>1. l \in Seq(Octets) /\ l # <<>> /\ Len(l) = 1 /\ l[1] = 97 /\ DOMAIN l = {1}
      BY <2>1, <2>3
    <3>2. Label(l) = l
      BY <3>1, LabelAlready
    <3> QED BY <3>1, <3>2
  <2>4. CASE l = <<97, 32, 97>>
    <3>1. /\ l \in Seq(Octets) /\ Len(l) = 3
          /\ l[1] = 97 /\ l[2] = 32 /\ l[3] = 97
      <4> DEFINE u == <<97, 32, 97>>
      <4>1. u \in Seq(Octets)
        BY <2>1
      <4>2. Len(u) = 3 /\ u[1] = 97 /\ u[2] = 32 /\ u[3] = 97
        OBVIOUS
      <4> HIDE DEF u
      <4>3. l = u
        BY <2>4 DEF u
      <4> QED BY <4>1, <4>2, <4>3, Zenon
    <3>0. l # <<>> /\ DOMAIN l = 1..3
      BY <3>1
    <3>2. Label(l) = l
      BY <3>0, <3>1, LabelAlready
    <3>3. \A i \in 1..3 : i = 1 \/ i = 2 \/ i = 3
      OBVIOUS
    <3>4. \A i \in DOMAIN l : l[i] = 97 \/ l[i] = 32
      BY <3>0, <3>1, <3>3, Zenon
    <3>5. \A i \in DOMAIN l : l[i] <= 127 /\ ~(l[i] < 32) /\ l[i] # 127
      BY <3>4
    <3> QED BY <3>1, <3>2, <3>5
  <2>5. l = <<>> \/ l = <<97>> \/ l = <<97, 32, 97>>
    BY <1>1, Zenon
  <2> QED BY <2>2, <2>3, <2>4, <2>5
<1>6. l # <<>> => LabelError(l) = "none"
  <2> SUFFICES ASSUME l # <<>> PROVE LabelError(l) = "none"
    OBVIOUS
  <2>1. ~(Len(Label(l)) > MAX_TRUSTED_PEER_LABEL_CHARS)
    <3>1. Label(l) = l /\ Len(l) \in Nat /\ Len(l) <= 3
      BY <1>5
    <3> QED BY <1>0, <3>1
  <2>2. ~\E i \in DOMAIN l : l[i] < 32 \/ l[i] = 127
    BY <1>5
  <2>3. Label(l) # <<>>
    BY <1>5
  <2> QED BY <2>1, <2>2, <2>3 DEF LabelError
<1>7. 2 * Len(l) <= MAX_TRUSTED_PEER_LABEL_BYTES
  <2>1. Len(l) \in Nat /\ Len(l) <= 3
    BY <1>5
  <2> QED BY <1>0, <2>1
<1>8. 2 + Len(Decimal[scheme]) + 2 * Len(m) + (IF l = <<>> THEN 1 ELSE 2 * Len(l))
          <= MAX_RECORD_LINE_BYTES
  <2> DEFINE d == Len(Decimal[scheme])
             x == Len(m)
             y == Len(l)
             z == IF l = <<>> THEN 1 ELSE 2 * y
  <2>2. d \in Nat /\ d <= Digits16 /\ x \in Nat /\ x <= 2 /\ y \in Nat /\ y <= 3
        /\ (z = 1 \/ z = 2 * y)
    BY <1>2, <1>3, <1>5
  <2> HIDE DEF d, x, y, z
  <2>3. 2 + d + 2 * x + z <= MAX_RECORD_LINE_BYTES
    BY <1>0, <1>2, <2>2
  <2> QED BY <2>3 DEF d, x, y, z
<1>9. l # <<>> => LabelError(l) = "none" /\ Label(l) = l /\ \A i \in DOMAIN l : l[i] <= 127
  BY <1>5, <1>6
<1>10. Storable(scheme, m, l)
  BY <1>2, <1>3, <1>4, <1>5, <1>7, <1>8, <1>9 DEF Storable
<1> QED BY <1>1, <1>10, StoredIsRead, Zenon

\* A sequence with one more member.
LEMMA Inserted ==
  ASSUME NEW S, NEW t \in Seq(S), NEW i \in 1..(Len(t) + 1), NEW e \in S
  PROVE  InsertAt(t, i, e) \in Seq(S)
<1> DEFINE a == SubSeq(t, 1, i - 1)
           b == SubSeq(t, i, Len(t))
<1>1. Len(t) \in Nat /\ i \in Int /\ i - 1 \in 0..Len(t)
  OBVIOUS
<1>2. a \in Seq(S)
  BY <1>1, PrefixesOf
<1>3. b \in Seq(S)
  <2>1. Len(t) \in Int /\ \A j \in i..Len(t) : t[j] \in S
    BY <1>1
  <2> QED BY <1>1, <2>1, SubSeqProperties
<1> HIDE DEF a, b
<1>4. <<e>> \in Seq(S)
  OBVIOUS
<1>5. a \o <<e>> \o b \in Seq(S)
  BY <1>2, <1>3, <1>4, ConcatProperties
<1> QED BY <1>5 DEF InsertAt, a, b

\* A line stays a sequence of fields whatever is edited, and is what encode wrote
\* until then.
LEMMA LineSteps == Spec => []LineIsShaped
<1>1. Init => LineIsShaped
  <2> SUFFICES ASSUME Init PROVE LineIsShaped
    OBVIOUS
  <2>1. CASE line = <<>> /\ channel # "line" /\ changes = 0
    BY <2>1 DEF LineIsShaped
  <2>2. CASE line \in {EncodeLine(r) : r \in PeerRecords} /\ changes = 0
    <3>1. line \in Seq(Seq(Characters))
      BY <2>2, RecordsFit
    <3> QED BY <2>2, <3>1 DEF LineIsShaped
  <2> QED BY <2>1, <2>2 DEF Init, FrameInit, RecordInit
<1>2. LineIsShaped /\ [Next]_vars => LineIsShaped'
  <2> SUFFICES ASSUME LineIsShaped, [Next]_vars PROVE LineIsShaped'
    OBVIOUS
  <2>1. /\ line \in Seq(Seq(Characters)) /\ DOMAIN line = 1..Len(line) /\ changes \in Nat
        /\ \A f \in DOMAIN line : line[f] \in Seq(Characters)
    BY DEF LineIsShaped
  <2>2. CASE OnLine /\ line' \in Seq(Seq(Characters))
    <3>1. changes' \in Nat /\ changes' # 0
      BY <2>1, <2>2 DEF OnLine
    <3> QED BY <2>2, <3>1 DEF LineIsShaped
  <2>3. CASE OnRecord
    BY <2>1, <2>3 DEF OnRecord, LineIsShaped
  <2>4. CASE UNCHANGED <<channel, line, changes>>
    BY <2>4 DEF LineIsShaped
  <2>5. CASE EditCharacter
    <3>1. PICK f \in DOMAIN line, c \in {"0", "1", "2", "a", "A", "+", "-"} :
             \/ \E i \in DOMAIN line[f] : line' = [line EXCEPT ![f][i] = c]
             \/ \E i \in DOMAIN line[f] : line' = [line EXCEPT ![f] = RemoveAt(@, i)]
             \/ \E i \in 1..(Len(line[f]) + 1) : line' = [line EXCEPT ![f] = InsertAt(@, i, c)]
      BY <2>5 DEF EditCharacter
    <3>2. c \in Characters
      BY DEF Characters
    <3>3. line[f] \in Seq(Characters)
      BY <2>1
    <3>4. ASSUME NEW u \in Seq(Characters), line' = [line EXCEPT ![f] = u]
          PROVE  line' \in Seq(Seq(Characters))
      BY <2>1, <3>4
    <3>5. ASSUME NEW i \in DOMAIN line[f], line' = [line EXCEPT ![f][i] = c]
          PROVE  line' \in Seq(Seq(Characters))
      <4>1. [line[f] EXCEPT ![i] = c] \in Seq(Characters)
        BY <3>2, <3>3
      <4> QED BY <3>4, <3>5, <4>1
    <3>6. ASSUME NEW i \in DOMAIN line[f], line' = [line EXCEPT ![f] = RemoveAt(line[f], i)]
          PROVE  line' \in Seq(Seq(Characters))
      <4>1. RemoveAt(line[f], i) \in Seq(Characters)
        BY <3>3, Removed
      <4> QED BY <3>4, <3>6, <4>1
    <3>7. ASSUME NEW i \in 1..(Len(line[f]) + 1),
                 line' = [line EXCEPT ![f] = InsertAt(line[f], i, c)]
          PROVE  line' \in Seq(Seq(Characters))
      <4>1. InsertAt(line[f], i, c) \in Seq(Characters)
        BY <3>2, <3>3, Inserted
      <4> QED BY <3>4, <3>7, <4>1
    <3>8. line' \in Seq(Seq(Characters))
      BY <3>1, <3>5, <3>6, <3>7
    <3> QED BY <2>2, <2>5, <3>8 DEF EditCharacter
  <2>6. CASE EditField
    <3>1. ASSUME NEW f \in DOMAIN line, line' = RemoveAt(line, f)
          PROVE  line' \in Seq(Seq(Characters))
      BY <2>1, <3>1, Removed
    <3>2. ASSUME line' \in {Append(line, <<>>), Append(line, <<"-">>)}
          PROVE  line' \in Seq(Seq(Characters))
      <4>1. <<>> \in Seq(Characters) /\ <<"-">> \in Seq(Characters)
        BY HexIsText
      <4>2. \A u \in Seq(Characters) : Append(line, u) \in Seq(Seq(Characters))
        BY <2>1, AppendProperties
      <4> QED BY <3>2, <4>1, <4>2, Zenon
    <3>3. OnLine /\ (\/ \E f \in DOMAIN line : line' = RemoveAt(line, f)
                    \/ line' \in {Append(line, <<>>), Append(line, <<"-">>)})
      BY <2>6, Zenon DEF EditField
    <3>4. line' \in Seq(Seq(Characters)) /\ OnLine
      BY <3>1, <3>2, <3>3, Zenon
    <3> QED BY <2>2, <3>4, Zenon
  <2>7. EditCharacter \/ EditField \/ OnRecord \/ UNCHANGED <<channel, line, changes>>
    <3>1. CASE OverwriteByte \/ OverwriteId \/ Truncate \/ Extend \/ Type
      <4>1. OnFrame \/ Type
        BY <3>1, Zenon DEF OverwriteByte, OverwriteId, Truncate, Extend
      <4> QED BY <4>1 DEF OnFrame, Type, recordVars
    <3>2. CASE Swap \/ ChangeCase \/ AddUnknown \/ DropEntry \/ Duplicate \/ Overwrite
      BY <3>2, Zenon DEF Swap, ChangeCase, AddUnknown, DropEntry, Duplicate, Overwrite
    <3>3. CASE UNCHANGED vars
      BY <3>3 DEF vars
    <3> QED BY <3>1, <3>2, <3>3, Zenon DEF Next
  <2> QED BY <2>3, <2>4, <2>5, <2>6, <2>7
<1> QED BY <1>1, <1>2, PTL DEF Spec

\* What was stored is read as it was, and whatever can be read, edited or not,
\* names one identity in one spelling and can be written and read again.
THEOREM LinesAreKept == Spec => []LinesAreCanonical
<1>1. LineIsShaped => LinesAreCanonical
  <2> SUFFICES ASSUME LineIsShaped, channel = "line" PROVE LinesAreCanonical
    BY DEF LinesAreCanonical
  <2>1. line \in Seq(Seq(Characters))
    BY DEF LineIsShaped
  <2>2. changes = 0 => LineError(line) = "none" /\ EncodeLine(LineRecord(line)) = line
    <3> SUFFICES ASSUME changes = 0
                 PROVE  LineError(line) = "none" /\ EncodeLine(LineRecord(line)) = line
      OBVIOUS
    <3>1. PICK r \in PeerRecords : line = EncodeLine(r)
      BY DEF LineIsShaped
    <3> QED BY <3>1, RecordsFit
  <2>3. CASE LineError(line) = "none"
    BY <2>1, <2>2, <2>3, ReadIsCanonical DEF LinesAreCanonical
  <2>4. CASE LineError(line) # "none"
    <3>1. LineError(line) \in MalformedStoreReasons \cup {"RecordTooLarge"}
      BY <2>4 DEF LineError, LabelFieldError, MalformedStoreReasons
    <3> QED BY <2>2, <2>4, <3>1 DEF LinesAreCanonical
  <2> QED BY <2>3, <2>4
<1> QED BY <1>1, LineSteps, PTL
=============================================================================
