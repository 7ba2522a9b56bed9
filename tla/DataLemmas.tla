----------------------------- MODULE DataLemmas -----------------------------
(***************************************************************************)
(* Facts that the proofs share: induction over the naturals in terms of    *)
(* sets, what it gives of the FoldLeft of the community modules (a fold of *)
(* a sequence starts with its base and takes one element after the other), *)
(* and division.                                                           *)
(***************************************************************************)
EXTENDS Integers, SequencesExt, WellFoundedInduction, TLAPS

\* A set of naturals that is not empty has a least one.
LEMMA LeastNat ==
    ASSUME NEW T \in SUBSET Nat, T # {}
    PROVE  \E x \in T : \A y \in T : x <= y
<1> DEFINE R == OpToRel(<, Nat)
<1>1. IsWellFoundedOn(R, Nat)
  BY NatLessThanWellFounded
<1>2. PICK x \in T : \A y \in T : ~ (<<y, x>> \in R)
  <2> HIDE DEF R
  <2> QED BY <1>1, WFMin
<1>3. \A a, b \in Nat : a < b => <<a, b>> \in R
  BY DEF OpToRel
<1> HIDE DEF R
<1>4. ASSUME NEW y \in T PROVE x <= y
  <2>1. ~ (<<y, x>> \in R)
    BY <1>2
  <2>2. ~ (y < x)
    BY <2>1, <1>3
  <2> QED BY <2>2
<1> QED BY <1>4

\* Induction: a set with 0 and the successor of each natural it has, has all.
LEMMA SetInduction ==
    ASSUME NEW S, 0 \in S, \A n \in Nat : n \in S => n + 1 \in S
    PROVE  \A n \in Nat : n \in S
<1> SUFFICES ASSUME Nat \ S # {} PROVE FALSE
  OBVIOUS
<1>1. PICK x \in Nat \ S : \A y \in Nat \ S : x <= y
  BY LeastNat
<1>2. x # 0 /\ x - 1 \in Nat /\ x - 1 \in S
  BY <1>1
<1> QED BY <1>1, <1>2

\* A set of indices that is not empty has a greatest one, which Max chooses.
LEMMA MaxOfIndices ==
    ASSUME NEW n \in Nat, NEW S \in SUBSET (1..n), S # {}
    PROVE  Max(S) \in S /\ \A i \in S : Max(S) >= i
<1> DEFINE T == {n - i : i \in S}
<1>1. PICK x \in T : \A y \in T : x <= y
  <2>1. \A i \in S : n - i \in Nat
    OBVIOUS
  <2>2. T \in SUBSET Nat /\ T # {}
    BY <2>1
  <2> HIDE DEF T
  <2> QED BY <2>2, LeastNat
<1>2. PICK i \in S : x = n - i
  BY <1>1
<1>3. \A j \in S : i >= j
  BY <1>1, <1>2
<1>4. \E m \in S : \A j \in S : m >= j
  BY <1>3
<1> QED BY <1>4 DEF Max

\* The greatest of 1..i, and what is left without it.
LEMMA MaxOfPrefix ==
    ASSUME NEW n \in Nat, NEW i \in 1..n
    PROVE  1..i # {} /\ 1..i \in SUBSET (1..n) /\ Max(1..i) = i /\ (1..i) \ {i} = 1..(i - 1)
<1>1. 1..i # {} /\ 1..i \in SUBSET (1..n) /\ (1..i) \ {i} = 1..(i - 1)
  OBVIOUS
<1>2. Max(1..i) \in 1..i /\ \A j \in 1..i : Max(1..i) >= j
  <2>1. 1..i \in SUBSET (1..n) /\ 1..i # {}
    BY <1>1
  <2> QED BY <2>1, MaxOfIndices
<1>3. Max(1..i) = i
  BY <1>2
<1> QED BY <1>1, <1>3

-----------------------------------------------------------------------------
\* What a FoldLeft makes of each set of indices: the greatest index is the last.
Iterates(it, n, base, step) ==
    \A s \in SUBSET (1..n) : it[s] = IF s = {} THEN base ELSE step[Max(s)][it[s \ {Max(s)}]]

\* What it makes of each prefix.
Accumulates(acc, n, base, step) ==
    acc[0] = base /\ \A i \in 1..n : acc[i] = step[i][acc[i - 1]]

\* The fold of a prefix goes from one to the next as the accumulation does.
Follows(it, acc, n) ==
    it[{}] = acc[0] /\ \A i \in 1..n : it[1..(i - 1)] = acc[i - 1] => it[1..i] = acc[i]

\* There is a function that folds all sets of indices.
LEMMA IterationExists ==
    ASSUME NEW n \in Nat, NEW V, NEW base \in V, NEW step \in [1..n -> [V -> V]]
    PROVE  \E it \in [SUBSET (1..n) -> V] : Iterates(it, n, base, step)
<1> DEFINE P(m) == \E it \in [SUBSET (1..m) -> V] : Iterates(it, m, base, step)
<1>1. P(0)
  <2> DEFINE it == [s \in SUBSET (1..0) |-> base]
  <2>1. SUBSET (1..0) = {{}}
    OBVIOUS
  <2>2. it \in [SUBSET (1..0) -> V] /\ Iterates(it, 0, base, step)
    BY <2>1 DEF Iterates
  <2> QED BY <2>2
<1>2. ASSUME NEW m \in Nat, m + 1 <= n, P(m) PROVE P(m + 1)
  <2>1. PICK f \in [SUBSET (1..m) -> V] : Iterates(f, m, base, step)
    BY <1>2
  <2> DEFINE it == [s \in SUBSET (1..(m + 1)) |->
                       IF m + 1 \in s THEN step[m + 1][f[s \ {m + 1}]] ELSE f[s]]
  <2>2. ASSUME NEW s \in SUBSET (1..(m + 1))
        PROVE  /\ s \ {m + 1} \in SUBSET (1..m)
               /\ m + 1 \notin s => s \in SUBSET (1..m)
    OBVIOUS
  <2>3. it \in [SUBSET (1..(m + 1)) -> V]
    <3>1. ASSUME NEW s \in SUBSET (1..(m + 1)), m + 1 \in s
          PROVE  step[m + 1][f[s \ {m + 1}]] \in V
      <4>1. m + 1 \in 1..n /\ f[s \ {m + 1}] \in V
        BY <1>2, <2>2
      <4> QED BY <4>1
    <3>2. ASSUME NEW s \in SUBSET (1..(m + 1)), m + 1 \notin s
          PROVE  f[s] \in V
      BY <2>2, <3>2
    <3> QED BY <3>1, <3>2
  <2>4. ASSUME NEW s \in SUBSET (1..(m + 1))
        PROVE  it[s] = IF s = {} THEN base ELSE step[Max(s)][it[s \ {Max(s)}]]
    <3>1. CASE m + 1 \in s
      <4>1. s # {} /\ m + 1 \in Nat
        BY <3>1
      <4>2. Max(s) \in s /\ \A i \in s : Max(s) >= i
        BY <4>1, MaxOfIndices
      <4>3. Max(s) = m + 1
        <5> DEFINE max == Max(s)
        <5>1. max \in 1..(m + 1) /\ max >= m + 1
          BY <4>2, <3>1
        <5>2. max = m + 1
          <6> HIDE DEF max
          <6> QED BY <5>1
        <5> QED BY <5>2
      <4>4. it[s \ {m + 1}] = f[s \ {m + 1}]
        BY <2>2
      <4> QED BY <3>1, <4>1, <4>3, <4>4
    <3>2. CASE m + 1 \notin s
      <4>1. s \in SUBSET (1..m)
        BY <2>2, <3>2
      <4>2. it[s] = f[s]
        BY <3>2
      <4>3. CASE s = {}
        BY <4>1, <4>2, <4>3, <2>1 DEF Iterates
      <4>4. CASE s # {}
        <5>1. s \ {Max(s)} \in SUBSET (1..m) /\ m + 1 \notin s \ {Max(s)}
          BY <4>1, <3>2
        <5>2. it[s \ {Max(s)}] = f[s \ {Max(s)}]
          BY <5>1
        <5> QED BY <4>1, <4>2, <4>4, <5>2, <2>1 DEF Iterates
      <4> QED BY <4>3, <4>4
    <3> QED BY <3>1, <3>2
  <2> QED BY <2>3, <2>4 DEF Iterates
<1>3. P(n)
  <2> DEFINE S == {m \in Nat : m <= n => P(m)}
  <2> HIDE DEF P
  <2>1. 0 \in S
    BY <1>1
  <2>2. ASSUME NEW m \in Nat, m \in S PROVE m + 1 \in S
    BY <1>2, <2>2
  <2>3. n \in S
    <3> HIDE DEF S
    <3> QED BY <2>1, <2>2, SetInduction
  <2> QED BY <2>3
<1> QED BY <1>3

\* There is a function of what each prefix comes to.
LEMMA AccumulationExists ==
    ASSUME NEW n \in Nat, NEW V, NEW base \in V, NEW step \in [1..n -> [V -> V]]
    PROVE  \E acc \in [0..n -> V] : Accumulates(acc, n, base, step)
<1>1. PICK it \in [SUBSET (1..n) -> V] : Iterates(it, n, base, step)
  BY IterationExists
<1> DEFINE acc == [i \in 0..n |-> it[1..i]]
<1>2. \A i \in 0..n : 1..i \in SUBSET (1..n) /\ (i = 0 => 1..i = {})
  OBVIOUS
<1>3. acc \in [0..n -> V] /\ acc[0] = base
  <2>1. it[{}] = base
    BY <1>1 DEF Iterates
  <2> QED BY <1>2, <2>1
<1>4. ASSUME NEW i \in 1..n PROVE acc[i] = step[i][acc[i - 1]]
  <2>1. 1..i # {} /\ 1..i \in SUBSET (1..n) /\ Max(1..i) = i /\ (1..i) \ {i} = 1..(i - 1)
    BY MaxOfPrefix
  <2>2. it[1..i] = step[i][it[1..(i - 1)]]
    BY <1>1, <2>1 DEF Iterates
  <2> QED BY <2>2
<1> QED BY <1>3, <1>4 DEF Accumulates

\* What a fold makes of the indices up to the last one follows step by step.
LEMMA PrefixInduction ==
    ASSUME NEW n \in Nat, NEW it, NEW acc, Follows(it, acc, n)
    PROVE  it[1..n] = acc[n]
<1> DEFINE S == {i \in Nat : i <= n => it[1..i] = acc[i]}
<1>1. 0 \in S
  <2>1. 1..0 = {}
    OBVIOUS
  <2> QED BY <2>1 DEF Follows
<1>2. ASSUME NEW i \in Nat, i \in S PROVE i + 1 \in S
  <2>1. ASSUME i + 1 <= n PROVE it[1..(i + 1)] = acc[i + 1]
    <3>1. i + 1 \in 1..n /\ (i + 1) - 1 = i
      BY <2>1
    <3>2. it[1..i] = acc[i]
      BY <1>2, <2>1
    <3> QED BY <3>1, <3>2 DEF Follows
  <2> QED BY <2>1
<1>3. n \in S
  <2> HIDE DEF S
  <2> QED BY <1>1, <1>2, SetInduction
<1> QED BY <1>3

-----------------------------------------------------------------------------
(***************************************************************************)
(* Division with a divisor that is not a numeral.                          *)
(***************************************************************************)
\* The quotient is the number of whole divisors.
LEMMA DivBounds ==
  ASSUME NEW a \in Int, NEW b \in Nat \ {0}
  PROVE  /\ a \div b \in Int
         /\ b * (a \div b) <= a
         /\ a < b * (a \div b) + b
<1>1. a \div b \in Int /\ a % b \in 0..(b - 1)
  OBVIOUS
<1>2. a = b * (a \div b) + (a % b)
  OBVIOUS
<1> DEFINE q == a \div b
           r == a % b
           p == b * q
<1>3. p \in Int
  BY <1>1
<1> HIDE DEF q, r, p
<1>4. q \in Int /\ r \in 0..(b - 1) /\ a = p + r
  BY <1>1, <1>2 DEF p, q, r
<1>5. p <= a /\ a < p + b
  BY <1>3, <1>4
<1> QED BY <1>4, <1>5 DEF p, q

\* A product grows with its factor.
LEMMA TimesMono ==
  ASSUME NEW x \in Int, NEW y \in Int, NEW b \in Nat, x <= y
  PROVE  x * b <= y * b
<1>1. (y - x) \in Nat
  OBVIOUS
<1>2. (y - x) * b \in Nat
  BY <1>1
<1>3. (y - x) * b = y * b - x * b
  OBVIOUS
<1> QED BY <1>2, <1>3

\* A number of whole divisors that fit, and not one more, is the quotient.
LEMMA DivUnique ==
  ASSUME NEW a \in Int, NEW b \in Nat \ {0}, NEW q \in Int, b * q <= a, a < b * q + b
  PROVE  a \div b = q
<1> DEFINE d == a \div b
<1>1. d \in Int /\ b * d <= a /\ a < b * d + b
  BY DivBounds
<1> HIDE DEF d
<1>2. ASSUME d < q PROVE FALSE
  <2>1. (d + 1) * b <= q * b
    BY <1>1, <1>2, TimesMono
  <2>2. (d + 1) * b = b * d + b /\ q * b = b * q
    BY <1>1
  <2>3. b * d \in Int /\ b * q \in Int
    BY <1>1
  <2> QED BY <1>1, <2>1, <2>2, <2>3
<1>3. ASSUME q < d PROVE FALSE
  <2>1. (q + 1) * b <= d * b
    BY <1>1, <1>3, TimesMono
  <2>2. (q + 1) * b = b * q + b /\ d * b = b * d
    BY <1>1
  <2>3. b * d \in Int /\ b * q \in Int
    BY <1>1
  <2> QED BY <1>1, <2>1, <2>2, <2>3
<1> QED BY <1>1, <1>2, <1>3 DEF d

\* A quotient grows with its dividend.
LEMMA DivMono ==
  ASSUME NEW a \in Int, NEW c \in Int, NEW b \in Nat \ {0}, a <= c
  PROVE  a \div b <= c \div b
<1> DEFINE d == a \div b
           e == c \div b
<1>1. d \in Int /\ b * d <= a /\ a < b * d + b
  BY DivBounds
<1>2. e \in Int /\ b * e <= c /\ c < b * e + b
  BY DivBounds
<1> HIDE DEF d, e
<1>3. ASSUME e < d PROVE FALSE
  <2>1. (e + 1) * b <= d * b
    BY <1>1, <1>2, <1>3, TimesMono
  <2>2. (e + 1) * b = b * e + b /\ d * b = b * d
    BY <1>1, <1>2
  <2>3. b * d \in Int /\ b * e \in Int
    BY <1>1, <1>2
  <2> QED BY <1>1, <1>2, <2>1, <2>2, <2>3
<1> QED BY <1>1, <1>2, <1>3 DEF d, e
=============================================================================
