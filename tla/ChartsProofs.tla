---------------------------- MODULE ChartsProofs ----------------------------
(***************************************************************************)
(* The bars of the charts, for any history of reports, any windows and any *)
(* numbers: where they stand and how high they are.                        *)
(***************************************************************************)
EXTENDS Charts, DataLemmas, TLAPS

-----------------------------------------------------------------------------
(***************************************************************************)
(* The bounds of a series.                                                 *)
(***************************************************************************)
Larger(max, v) == IF max = 0 \/ v > max THEN v ELSE max
Smaller(min, v) == IF min = 0 \/ v < min THEN v ELSE min

\* What the greatest number of a series is, given what each prefix comes to.
LEMMA MaxIs ==
    ASSUME NEW s \in Seq(Nat), NEW acc,
           acc[0] = 0, \A i \in 1..Len(s) : acc[i] = Larger(acc[i - 1], s[i])
    PROVE  MaxValue(s) = acc[Len(s)]
<1> DEFINE n == Len(s)
           step == [i \in 1..n |-> [v \in Nat |-> Larger(v, s[i])]]
           Body(f) == [t \in SUBSET DOMAIN s |->
                          IF t = {} THEN 0 ELSE Larger(f[t \ {Max(t)}], s[Max(t)])]
           fold == CHOOSE f : f = Body(f)
<1>1. n \in Nat /\ DOMAIN s = 1..n
  OBVIOUS
<1>2. step \in [1..n -> [Nat -> Nat]]
  BY DEF Larger
<1>3. PICK it \in [SUBSET (1..n) -> Nat] : Iterates(it, n, 0, step)
  <2> HIDE DEF step
  <2> QED BY <1>1, <1>2, IterationExists
<1>4. it = Body(it)
  <2>1. ASSUME NEW t \in SUBSET (1..n)
        PROVE  it[t] = IF t = {} THEN 0 ELSE Larger(it[t \ {Max(t)}], s[Max(t)])
    <3>1. CASE t = {}
      BY <1>3, <3>1 DEF Iterates
    <3>2. CASE t # {}
      <4>1. Max(t) \in 1..n
        BY <1>1, <3>2, MaxOfIndices
      <4>2. it[t \ {Max(t)}] \in Nat
        OBVIOUS
      <4>3. it[t] = step[Max(t)][it[t \ {Max(t)}]]
        BY <1>3, <3>2 DEF Iterates
      <4> QED BY <3>2, <4>1, <4>2, <4>3
    <3> QED BY <3>1, <3>2
  <2> QED BY <1>1, <2>1
<1>5. fold = Body(fold)
  <2> HIDE DEF Body
  <2> QED BY <1>4
<1>6. fold[{}] = 0
  BY <1>5
<1>7. \A i \in 1..n : fold[1..i] = Larger(fold[1..(i - 1)], s[i])
  <2> SUFFICES ASSUME NEW i \in 1..n PROVE fold[1..i] = Larger(fold[1..(i - 1)], s[i])
    OBVIOUS
  <2>1. 1..i # {} /\ 1..i \in SUBSET (1..n) /\ Max(1..i) = i /\ (1..i) \ {i} = 1..(i - 1)
    BY <1>1, MaxOfPrefix
  <2>2. fold[1..i] = Body(fold)[1..i]
    BY <1>5
  <2> HIDE DEF fold
  <2> QED BY <1>1, <2>1, <2>2
<1>8. MaxValue(s) = fold[DOMAIN s]
  BY DEF MaxValue, Larger, FoldLeft, MapThenFoldSet
<1>9. fold[1..n] = acc[n]
  <2>1. fold[{}] = acc[0]
    BY <1>6
  <2>2. \A i \in 1..n : fold[1..(i - 1)] = acc[i - 1] => fold[1..i] = acc[i]
    BY <1>7
  <2>3. Follows(fold, acc, n)
    <3> HIDE DEF fold
    <3> QED BY <2>1, <2>2 DEF Follows
  <2> HIDE DEF fold, n, step, Body
  <2> QED BY <1>1, <2>3, PrefixInduction
<1> QED BY <1>1, <1>8, <1>9

\* What the least number of a series is, given what each prefix comes to.
LEMMA MinIs ==
    ASSUME NEW s \in Seq(Nat), NEW acc,
           acc[0] = 0, \A i \in 1..Len(s) : acc[i] = Smaller(acc[i - 1], s[i])
    PROVE  MinValue(s) = acc[Len(s)]
<1> DEFINE n == Len(s)
           step == [i \in 1..n |-> [v \in Nat |-> Smaller(v, s[i])]]
           Body(f) == [t \in SUBSET DOMAIN s |->
                          IF t = {} THEN 0 ELSE Smaller(f[t \ {Max(t)}], s[Max(t)])]
           fold == CHOOSE f : f = Body(f)
<1>1. n \in Nat /\ DOMAIN s = 1..n
  OBVIOUS
<1>2. step \in [1..n -> [Nat -> Nat]]
  BY DEF Smaller
<1>3. PICK it \in [SUBSET (1..n) -> Nat] : Iterates(it, n, 0, step)
  <2> HIDE DEF step
  <2> QED BY <1>1, <1>2, IterationExists
<1>4. it = Body(it)
  <2>1. ASSUME NEW t \in SUBSET (1..n)
        PROVE  it[t] = IF t = {} THEN 0 ELSE Smaller(it[t \ {Max(t)}], s[Max(t)])
    <3>1. CASE t = {}
      BY <1>3, <3>1 DEF Iterates
    <3>2. CASE t # {}
      <4>1. Max(t) \in 1..n
        BY <1>1, <3>2, MaxOfIndices
      <4>2. it[t \ {Max(t)}] \in Nat
        OBVIOUS
      <4>3. it[t] = step[Max(t)][it[t \ {Max(t)}]]
        BY <1>3, <3>2 DEF Iterates
      <4> QED BY <3>2, <4>1, <4>2, <4>3
    <3> QED BY <3>1, <3>2
  <2> QED BY <1>1, <2>1
<1>5. fold = Body(fold)
  <2> HIDE DEF Body
  <2> QED BY <1>4
<1>6. fold[{}] = 0
  BY <1>5
<1>7. \A i \in 1..n : fold[1..i] = Smaller(fold[1..(i - 1)], s[i])
  <2> SUFFICES ASSUME NEW i \in 1..n PROVE fold[1..i] = Smaller(fold[1..(i - 1)], s[i])
    OBVIOUS
  <2>1. 1..i # {} /\ 1..i \in SUBSET (1..n) /\ Max(1..i) = i /\ (1..i) \ {i} = 1..(i - 1)
    BY <1>1, MaxOfPrefix
  <2>2. fold[1..i] = Body(fold)[1..i]
    BY <1>5
  <2> HIDE DEF fold
  <2> QED BY <1>1, <2>1, <2>2
<1>8. MinValue(s) = fold[DOMAIN s]
  BY DEF MinValue, Smaller, FoldLeft, MapThenFoldSet
<1>9. fold[1..n] = acc[n]
  <2>1. fold[{}] = acc[0]
    BY <1>6
  <2>2. \A i \in 1..n : fold[1..(i - 1)] = acc[i - 1] => fold[1..i] = acc[i]
    BY <1>7
  <2>3. Follows(fold, acc, n)
    <3> HIDE DEF fold
    <3> QED BY <2>1, <2>2 DEF Follows
  <2> HIDE DEF fold, n, step, Body
  <2> QED BY <1>1, <2>3, PrefixInduction
<1> QED BY <1>1, <1>8, <1>9

\* The greatest number of a series is none less than any, and one of them.
LEMMA MaxOfSeries ==
    ASSUME NEW s \in Seq(Nat), s # <<>>
    PROVE  /\ MaxValue(s) \in Nat
           /\ \A i \in 1..Len(s) : s[i] <= MaxValue(s)
           /\ \E i \in 1..Len(s) : s[i] = MaxValue(s)
<1> DEFINE n == Len(s)
           step == [i \in 1..n |-> [v \in Nat |-> Larger(v, s[i])]]
<1>1. n \in Nat /\ n > 0 /\ 0 \in Nat /\ \A i \in 1..n : s[i] \in Nat
  OBVIOUS
<1>2. step \in [1..n -> [Nat -> Nat]]
  BY DEF Larger
<1>3. PICK acc \in [0..n -> Nat] : Accumulates(acc, n, 0, step)
  <2> HIDE DEF step
  <2> QED BY <1>1, <1>2, AccumulationExists
<1>4. acc[0] = 0 /\ \A i \in 1..n : acc[i] = Larger(acc[i - 1], s[i])
  <2>1. \A i \in 1..n : i - 1 \in 0..n
    BY <1>1
  <2>2. \A i \in 1..n : acc[i - 1] \in Nat
    BY <2>1
  <2> QED BY <1>3, <2>1, <2>2 DEF Accumulates
<1>5. MaxValue(s) = acc[n]
  BY <1>4, MaxIs
<1> HIDE DEF step
<1> DEFINE Greatest(i) == /\ \A j \in 1..i : s[j] <= acc[i]
                          /\ acc[i] = 0 \/ \E j \in 1..i : s[j] = acc[i]
           S == {i \in Nat : i <= n => Greatest(i)}
<1>6. 0 \in S
  BY <1>4
<1>7. ASSUME NEW i \in Nat, i \in S PROVE i + 1 \in S
  <2> SUFFICES ASSUME i + 1 <= n PROVE Greatest(i + 1)
    OBVIOUS
  <2>1. Greatest(i) /\ i + 1 \in 1..n /\ (i + 1) - 1 = i
    BY <1>1, <1>7
  <2>2. acc[i + 1] = Larger(acc[i], s[i + 1])
    BY <1>4, <2>1
  <2>3. acc[i] \in Nat /\ s[i + 1] \in Nat
    BY <1>1, <2>1
  <2>4. \A j \in 1..(i + 1) : j = i + 1 \/ j \in 1..i
    OBVIOUS
  <2>5. \A j \in 1..(i + 1) : s[j] \in Nat
    BY <1>1
  <2>6. \A j \in 1..(i + 1) : s[j] <= acc[i + 1]
    BY <2>1, <2>2, <2>3, <2>4, <2>5 DEF Larger
  <2>7. acc[i + 1] = 0 \/ \E j \in 1..(i + 1) : s[j] = acc[i + 1]
    BY <2>1, <2>2 DEF Larger
  <2> QED BY <2>6, <2>7
<1>8. Greatest(n)
  <2>1. n \in S
    <3> HIDE DEF S, n
    <3> QED BY <1>1, <1>6, <1>7, SetInduction
  <2> QED BY <1>1, <2>1
<1>9. acc[n] \in Nat
  BY <1>1
<1>10. \E j \in 1..n : s[j] = acc[n]
  <2>1. 1 \in 1..n
    BY <1>1
  <2>2. acc[n] = 0 => s[1] = acc[n]
    BY <1>1, <1>8, <2>1
  <2> QED BY <1>8, <2>1, <2>2
<1> QED BY <1>5, <1>8, <1>9, <1>10

\* The least number of a series without a 0 is none greater than any, and one
\* of them; of any series it is a number.
LEMMA MinOfSeries ==
    ASSUME NEW s \in Seq(Nat)
    PROVE  /\ MinValue(s) \in Nat
           /\ s # <<>> /\ (\A i \in 1..Len(s) : s[i] # 0) =>
                 /\ \A i \in 1..Len(s) : MinValue(s) <= s[i]
                 /\ \E i \in 1..Len(s) : s[i] = MinValue(s)
<1> DEFINE n == Len(s)
           step == [i \in 1..n |-> [v \in Nat |-> Smaller(v, s[i])]]
<1>1. n \in Nat /\ 0 \in Nat /\ \A i \in 1..n : s[i] \in Nat
  OBVIOUS
<1>2. step \in [1..n -> [Nat -> Nat]]
  BY DEF Smaller
<1>3. PICK acc \in [0..n -> Nat] : Accumulates(acc, n, 0, step)
  <2> HIDE DEF step
  <2> QED BY <1>1, <1>2, AccumulationExists
<1>4. acc[0] = 0 /\ \A i \in 1..n : acc[i] = Smaller(acc[i - 1], s[i])
  <2>1. \A i \in 1..n : i - 1 \in 0..n
    BY <1>1
  <2>2. \A i \in 1..n : acc[i - 1] \in Nat
    BY <2>1
  <2> QED BY <1>3, <2>1, <2>2 DEF Accumulates
<1>5. MinValue(s) = acc[n]
  BY <1>4, MinIs
<1> HIDE DEF step
<1>6. acc[n] \in Nat
  BY <1>1
<1>7. ASSUME s # <<>>, \A i \in 1..n : s[i] # 0
      PROVE  (\A j \in 1..n : acc[n] <= s[j]) /\ \E j \in 1..n : s[j] = acc[n]
  <2> DEFINE Least(i) == /\ \A j \in 1..i : acc[i] <= s[j]
                         /\ IF i = 0 THEN acc[i] = 0
                            ELSE acc[i] # 0 /\ \E j \in 1..i : s[j] = acc[i]
             S == {i \in Nat : i <= n => Least(i)}
  <2>1. 0 \in S
    BY <1>4
  <2>2. ASSUME NEW i \in Nat, i \in S PROVE i + 1 \in S
    <3> SUFFICES ASSUME i + 1 <= n PROVE Least(i + 1)
      OBVIOUS
    <3>1. Least(i) /\ i + 1 \in 1..n /\ (i + 1) - 1 = i
      BY <1>1, <2>2
    <3>2. acc[i + 1] = Smaller(acc[i], s[i + 1])
      BY <1>4, <3>1
    <3>3. acc[i] \in Nat /\ s[i + 1] \in Nat \ {0}
      BY <1>1, <1>7, <3>1
    <3>4. \A j \in 1..(i + 1) : j = i + 1 \/ j \in 1..i
      OBVIOUS
    <3>5. \A j \in 1..(i + 1) : s[j] \in Nat
      BY <1>1
    <3>6. \A j \in 1..(i + 1) : acc[i + 1] <= s[j]
      <4>1. acc[i + 1] \in Nat /\ acc[i + 1] <= s[i + 1] /\ (i # 0 => acc[i + 1] <= acc[i])
        BY <3>1, <3>2, <3>3 DEF Smaller
      <4>2. ASSUME NEW j \in 1..i PROVE acc[i + 1] <= s[j]
        <5>1. i # 0 /\ acc[i] <= s[j] /\ s[j] \in Nat
          BY <3>1, <3>5
        <5> QED BY <3>3, <4>1, <5>1
      <4> QED BY <3>4, <4>1, <4>2
    <3>7. acc[i + 1] # 0 /\ \E j \in 1..(i + 1) : s[j] = acc[i + 1]
      BY <3>1, <3>2, <3>3 DEF Smaller
    <3>8. i + 1 # 0
      OBVIOUS
    <3> QED BY <3>6, <3>7, <3>8
  <2>3. Least(n)
    <3>1. n \in S
      <4> HIDE DEF S, n
      <4> QED BY <1>1, <2>1, <2>2, SetInduction
    <3> QED BY <1>1, <3>1
  <2>4. n # 0
    BY <1>7
  <2> QED BY <2>3, <2>4
<1> QED BY <1>5, <1>6, <1>7

-----------------------------------------------------------------------------
(***************************************************************************)
(* The height of a bar.                                                    *)
(***************************************************************************)
\* Rounding gives an integer, grows with the numerator, keeps the sign of one
\* that is not negative, and keeps an integer.
LEMMA RoundIsInt ==
    ASSUME NEW a \in Int, NEW d \in Nat \ {0}
    PROVE  Round(a, d) \in Int /\ (a >= 0 => Round(a, d) >= 0) /\ (a < 0 => Round(a, d) <= 0)
<1> DEFINE up == (2 * a + d) \div (2 * d)
           down == (d - 2 * a) \div (2 * d)
<1>1. 2 * a + d \in Int /\ d - 2 * a \in Int /\ 2 * d \in Nat \ {0} /\ 0 \div (2 * d) = 0
  <2>1. 2 * a + d \in Int /\ d - 2 * a \in Int /\ 2 * d \in Nat \ {0}
    OBVIOUS
  <2>2. 0 \div (2 * d) = 0
    <3> DEFINE e == 2 * d
    <3>1. e \in Nat \ {0} /\ e * 0 <= 0 /\ 0 < e * 0 + e
      OBVIOUS
    <3> HIDE DEF e
    <3>2. 0 \div e = 0
      BY <3>1, DivUnique
    <3> QED BY <3>2 DEF e
  <2> QED BY <2>1, <2>2
<1>2. up \in Int /\ down \in Int
  BY <1>1, DivBounds
<1>3. a >= 0 => up >= 0
  BY <1>1, DivMono
<1>4. a < 0 => down >= 0
  BY <1>1, DivMono
<1> HIDE DEF up, down
<1>5. Round(a, d) = IF a >= 0 THEN up ELSE -down
  BY DEF Round, up, down
<1> QED BY <1>2, <1>3, <1>4, <1>5

LEMMA RoundGrows ==
    ASSUME NEW a \in Int, NEW b \in Int, NEW d \in Nat \ {0}, a <= b
    PROVE  Round(a, d) <= Round(b, d)
<1>1. 2 * d \in Nat \ {0} /\ Round(a, d) \in Int /\ Round(b, d) \in Int
  BY RoundIsInt
<1>2. CASE a >= 0
  <2>1. 2 * a + d \in Int /\ 2 * b + d \in Int /\ 2 * a + d <= 2 * b + d /\ b >= 0
    BY <1>2
  <2>2. (2 * a + d) \div (2 * d) <= (2 * b + d) \div (2 * d)
    BY <1>1, <2>1, DivMono
  <2> QED BY <1>2, <2>1, <2>2 DEF Round
<1>3. CASE b < 0
  <2>1. d - 2 * a \in Int /\ d - 2 * b \in Int /\ d - 2 * b <= d - 2 * a /\ ~ (a >= 0) /\ ~ (b >= 0)
    BY <1>3
  <2> DEFINE p == (d - 2 * a) \div (2 * d)
             q == (d - 2 * b) \div (2 * d)
  <2>2. q <= p /\ p \in Int /\ q \in Int
    BY <1>1, <2>1, DivMono, DivBounds
  <2>3. Round(a, d) = -p /\ Round(b, d) = -q
    BY <2>1 DEF Round
  <2> HIDE DEF p, q
  <2> QED BY <2>2, <2>3
<1>4. CASE a < 0 /\ b >= 0
  <2>1. Round(a, d) <= 0 /\ Round(b, d) >= 0
    BY <1>4, RoundIsInt
  <2> QED BY <1>1, <2>1
<1> QED BY <1>2, <1>3, <1>4

LEMMA RoundOfMultiple ==
    ASSUME NEW k \in Nat, NEW d \in Nat \ {0}
    PROVE  Round(d * k, d) = k
<1> DEFINE a == d * k
<1>1. a \in Nat /\ (2 * d) * k = 2 * a
  OBVIOUS
<1> HIDE DEF a
<1>2. (2 * a + d) \div (2 * d) = k
  <2> DEFINE e == 2 * d
             c == 2 * a + d
  <2>1. e \in Nat \ {0} /\ c \in Int /\ e * k = 2 * a /\ e * k <= c /\ c < e * k + e
    BY <1>1
  <2> HIDE DEF e, c
  <2>2. c \div e = k
    BY <2>1, DivUnique
  <2> QED BY <2>2 DEF c, e
<1>3. Round(a, d) = k
  BY <1>1, <1>2 DEF Round
<1> QED BY <1>3 DEF a

\* A fraction that can be drawn.
IsFraction(f) == f.num \in Int /\ f.den \in Nat \ {0}

\* A bar is an integer number of rows that leaves one above it, it grows with
\* the numerator, has a row at least if its value is not negative, one if it is
\* 0 and all there are if it is 1.
LEMMA HeightIsInt ==
    ASSUME NEW f, IsFraction(f), NEW h \in Nat \ {0}
    PROVE  /\ Height(f, h) \in Int /\ Height(f, h) <= h + 1
           /\ f.num >= 0 => Height(f, h) >= 1
           /\ f.num = 0 => Height(f, h) = 1
           /\ f.num = f.den => Height(f, h) = h + 1
<1> DEFINE a == f.num * h
           r == Round(a, f.den)
<1>1. a \in Int /\ (f.num >= 0 => a >= 0) /\ (f.num = 0 => a = 0 * f.den) /\ (f.num = f.den => a = f.den * h)
  <2>1. f.num \in Int /\ f.den \in Nat
    BY DEF IsFraction
  <2> DEFINE m == f.num
  <2>2. m \in Int
    BY <2>1
  <2>3. m * h \in Int /\ (m = 0 => m * h = 0)
    <3> HIDE DEF m
    <3> QED BY <2>2
  <2>4. m >= 0 => m * h >= 0
    <3> HIDE DEF m
    <3>1. m >= 0 => 0 * h <= m * h
      BY <2>2, TimesMono
    <3> QED BY <3>1
  <2> QED BY <2>1, <2>3, <2>4
<1> HIDE DEF a
<1>2. r \in Int /\ (a >= 0 => r >= 0)
  BY <1>1, RoundIsInt DEF IsFraction
<1>3. f.num = 0 => r = 0
  <2>1. f.den * 0 = 0 /\ 0 * f.den = 0
    BY DEF IsFraction
  <2>2. Round(f.den * 0, f.den) = 0
    BY RoundOfMultiple DEF IsFraction
  <2> QED BY <1>1, <2>1, <2>2
<1>4. f.num = f.den => r = h
  BY <1>1, RoundOfMultiple DEF IsFraction
<1>5. Height(f, h) = (IF r < h THEN r ELSE h) + 1
  BY DEF Height, r, a
<1> HIDE DEF r
<1> QED BY <1>1, <1>2, <1>3, <1>4, <1>5

LEMMA HeightGrows ==
    ASSUME NEW f, NEW g, IsFraction(f), IsFraction(g), f.den = g.den, f.num <= g.num, NEW h \in Nat \ {0}
    PROVE  Height(f, h) <= Height(g, h)
<1> DEFINE a == f.num * h
           b == g.num * h
           r == Round(a, f.den)
           q == Round(b, f.den)
<1>1. a \in Int /\ b \in Int /\ a <= b
  BY TimesMono DEF IsFraction
<1> HIDE DEF a, b
<1>2. r \in Int /\ q \in Int /\ r <= q
  BY <1>1, RoundIsInt, RoundGrows DEF IsFraction
<1>3. Height(f, h) = (IF r < h THEN r ELSE h) + 1 /\ Height(g, h) = (IF q < h THEN q ELSE h) + 1
  BY DEF Height, r, q, a, b
<1> HIDE DEF r, q
<1> QED BY <1>2, <1>3

-----------------------------------------------------------------------------
(***************************************************************************)
(* The bars of a chart.                                                    *)
(***************************************************************************)
Fractions == [num : Int, den : Nat \ {0}]

\* The newest values that the width has room for, side by side.
Bars(chart, label_size, values, index) ==
    /\ MaxHeight \in Nat \ {0}
    /\ Len(values) - index <= Width(label_size)
    /\ DOMAIN chart = index + 1 .. Len(values)
    /\ \A i \in index + 1 .. Len(values) :
          /\ chart[i].x = label_size + 1 + i - index
          /\ chart[i].y = size.y - Height(values[i], MaxHeight) - 2
          /\ chart[i].height = Height(values[i], MaxHeight)

LEMMA BarsOfChart ==
    ASSUME NEW label_size \in Nat, NEW values \in Seq(Fractions), size \in Sizes
    PROVE  \/ DOMAIN BarChart(label_size, values) = {}
           \/ \E index \in Nat : Bars(BarChart(label_size, values), label_size, values, index)
<1> DEFINE chart == BarChart(label_size, values)
           w == Width(label_size)
           n == Len(values)
           index == IF n > w THEN n - w ELSE 0
           bars == [i \in index + 1 .. n |->
                       [x |-> label_size + 1 + i - index,
                        y |-> size.y - Height(values[i], MaxHeight) - 2,
                        height |-> Height(values[i], MaxHeight)]]
<1>1. size.x \in Nat /\ size.y \in Nat /\ n \in Nat
  BY ChartAssumption
<1>2. w \in Int /\ MaxHeight \in Int
  BY <1>1 DEF Width, MaxHeight
<1>3. CASE values = <<>> \/ size.x < 9 \/ MaxHeight <= 0 \/ w <= 0
  <2>1. chart = <<>>
    BY <1>3 DEF BarChart
  <2> QED BY <2>1
<1>4. CASE ~ (values = <<>> \/ size.x < 9 \/ MaxHeight <= 0 \/ w <= 0)
  <2>1. chart = bars
    <3>1. \A i \in index + 1 .. n : i \in 1..n
      BY <1>1, <1>2
    <3>2. chart = [i \in index + 1 .. n |->
                      [x |-> label_size + 1 + i - index,
                       y |-> size.y - [k \in 1..n |-> Height(values[k], MaxHeight)][i] - 2,
                       height |-> [k \in 1..n |-> Height(values[k], MaxHeight)][i]]]
      BY <1>4 DEF BarChart
    <3>3. \A i \in index + 1 .. n :
             [k \in 1..n |-> Height(values[k], MaxHeight)][i] = Height(values[i], MaxHeight)
      BY <3>1
    <3> HIDE DEF chart, index, n, w
    <3> QED BY <3>2, <3>3
  <2>2. index \in Nat /\ n - index <= w /\ MaxHeight \in Nat \ {0}
    BY <1>1, <1>2, <1>4
  <2> HIDE DEF index, chart, w
  <2>3. Bars(chart, label_size, values, index)
    BY <2>1, <2>2 DEF Bars, w
  <2> QED BY <2>2, <2>3 DEF chart
<1> QED BY <1>3, <1>4

\* The bars of a chart have the heights of their values.
LEMMA HeightsOfChart ==
    ASSUME NEW label_size \in Nat, NEW values \in Seq(Fractions), size \in Sizes,
           NEW i \in DOMAIN BarChart(label_size, values)
    PROVE  /\ i \in 1..Len(values) /\ IsFraction(values[i]) /\ MaxHeight \in Nat \ {0}
           /\ BarChart(label_size, values)[i].height = Height(values[i], MaxHeight)
<1>1. PICK index \in Nat : Bars(BarChart(label_size, values), label_size, values, index)
  BY BarsOfChart
<1>2. i \in index + 1 .. Len(values)
  BY <1>1 DEF Bars
<1>3. i \in 1..Len(values)
  BY <1>2
<1>4. values[i] \in Fractions
  BY <1>3
<1>5. IsFraction(values[i])
  BY <1>4 DEF IsFraction, Fractions
<1> QED BY <1>1, <1>2, <1>3, <1>5 DEF Bars

\* They stand between the labels and below the top border.
LEMMA ChartIsInside ==
    ASSUME NEW label_size \in Nat, NEW values \in Seq(Fractions), size \in Sizes,
           Len(values) = Len(diff_queue)
    PROVE  Inside(BarChart(label_size, values), label_size)
<1> DEFINE chart == BarChart(label_size, values)
<1>1. CASE DOMAIN chart = {}
  BY <1>1 DEF Inside
<1>2. CASE DOMAIN chart # {}
  <2>1. PICK index \in Nat : Bars(chart, label_size, values, index)
    BY <1>2, BarsOfChart
  <2>2. size.x \in Nat /\ size.y \in Nat /\ Len(values) \in Nat
    BY ChartAssumption
  <2> HIDE DEF chart
  <2>3. SUFFICES ASSUME NEW i \in DOMAIN chart
        PROVE  /\ chart[i].x \in label_size + 2 .. size.x - label_size - 3
               /\ chart[i].y >= 1
               /\ chart[i].y + chart[i].height - 1 = size.y - 3
               /\ i + 1 \in DOMAIN chart => chart[i + 1].x = chart[i].x + 1
               /\ i < Len(values) => i + 1 \in DOMAIN chart
    BY DEF Inside, chart
  <2> DEFINE h == Height(values[i], MaxHeight)
             n == Len(values)
             x == chart[i].x
             y == chart[i].y
             wide == size.x
             high == size.y
  <2>4. /\ i \in index + 1 .. n /\ n - index <= wide - label_size * 2 - 2 - 2
        /\ x = label_size + 1 + i - index /\ y = high - h - 2 /\ chart[i].height = h
    BY <2>1, <2>3 DEF Bars, Width
  <2>5. h \in Int /\ h <= (high - 3 - 1) + 1
    BY <2>3, HeightsOfChart, HeightIsInt DEF chart, MaxHeight
  <2>6. i \in Int /\ n \in Nat /\ wide \in Nat /\ high \in Nat
    BY <2>2, <2>4
  <2>7. DOMAIN chart = index + 1 .. n /\ \A k \in index + 1 .. n : chart[k].x = label_size + 1 + k - index
    BY <2>1 DEF Bars
  <2> HIDE DEF h, n, x, y, wide, high
  <2>8. i < n => i + 1 \in DOMAIN chart
    <3>1. i < n => i + 1 \in index + 1 .. n
      BY <2>4, <2>6
    <3> QED BY <2>7, <3>1
  <2>9. x \in label_size + 2 .. wide - label_size - 3
    BY <2>4, <2>6
  <2>10. y >= 1 /\ y + h - 1 = high - 3
    BY <2>4, <2>5, <2>6
  <2>11. i + 1 \in DOMAIN chart => chart[i + 1].x = x + 1
    <3>1. i + 1 \in DOMAIN chart => chart[i + 1].x = label_size + 1 + (i + 1) - index
      BY <2>7
    <3>2. x = label_size + 1 + i - index /\ i \in Int /\ index \in Int /\ label_size \in Int
      BY <2>4, <2>6
    <3>3. \A a, b, c \in Int : a + 1 + (b + 1) - c = (a + 1 + b - c) + 1
      OBVIOUS
    <3>4. label_size + 1 + (i + 1) - index = x + 1
      BY <3>2, <3>3
    <3> QED BY <3>1, <3>4
  <2> QED BY <2>4, <2>8, <2>9, <2>10, <2>11 DEF n, x, y, wide, high
<1> QED BY <1>1, <1>2

-----------------------------------------------------------------------------
\* The history is a sequence of numbers that is never too long.
TypeInv ==
    /\ diff_queue \in Seq(Numbers) /\ Len(diff_queue) <= HistorySize
    /\ size \in Sizes

\* The type invariant: the history holds what was reported, HistorySize reports
\* at most, in any window.
THEOREM HistoryIsBounded == Spec => []TypeInv
<1>1. Init => TypeInv
  BY ChartAssumption DEF Init, TypeInv
<1>2. TypeInv /\ [Next]_vars => TypeInv'
  <2> SUFFICES ASSUME TypeInv, [Next]_vars PROVE TypeInv'
    OBVIOUS
  <2>1. CASE Report
    <3>1. PICK number \in Numbers : diff_queue' = Keep(Append(diff_queue, number))
      BY <2>1 DEF Report
    <3> DEFINE q == Append(diff_queue, number)
    <3>2. q \in Seq(Numbers) /\ Len(q) = Len(diff_queue) + 1 /\ q # <<>> /\ Len(diff_queue) \in Nat
      BY DEF TypeInv
    <3> HIDE DEF q
    <3>3. Tail(q) \in Seq(Numbers) /\ Len(Tail(q)) = Len(q) - 1
      BY <3>2
    <3>4. Keep(q) \in Seq(Numbers) /\ Len(Keep(q)) <= HistorySize
      BY <3>2, <3>3, ChartAssumption DEF Keep, TypeInv
    <3>5. size' = size
      BY <2>1 DEF Report
    <3> QED BY <3>1, <3>4, <3>5 DEF TypeInv, q
  <2>2. CASE Resize
    BY <2>2 DEF Resize, TypeInv
  <2>3. CASE UNCHANGED vars
    BY <2>3 DEF vars, TypeInv
  <2> QED BY <2>1, <2>2, <2>3 DEF Next
<1> QED BY <1>1, <1>2, PTL DEF Spec

Usages == [i \in 1..Len(diff_queue) |-> Fraction(diff_queue[i], Whole)]

\* What both kinds of charts are drawn of.
LEMMA ValuesAreFractions ==
    ASSUME TypeInv
    PROVE  /\ diff_queue \in Seq(Nat)
           /\ Timeline(diff_queue) \in Seq(Fractions) /\ Len(Timeline(diff_queue)) = Len(diff_queue)
           /\ Usages \in Seq(Fractions) /\ Len(Usages) = Len(diff_queue)
           /\ RateLabelSize \in Nat
           /\ UsageChart = BarChart(4, Usages)
<1> DEFINE q == diff_queue
           n == Len(q)
           range == MaxValue(q) - MinValue(q)
<1>1. q \in Seq(Numbers) /\ n \in Nat /\ \A i \in 1..n : q[i] \in Nat
  <2>1. q \in Seq(Numbers) /\ n \in Nat
    BY DEF TypeInv
  <2>2. \A i \in 1..n : q[i] \in Numbers
    BY <2>1
  <2>3. \A v \in Numbers : v \in Nat
    BY ChartAssumption
  <2> QED BY <2>1, <2>2, <2>3
<1>2. q \in Seq(Nat)
  BY <1>1
<1>3. ASSUME NEW i \in 1..n
      PROVE (IF range > 0 THEN Fraction(q[i] - MinValue(q), range) ELSE Fraction(1, 1)) \in Fractions
  <2>1. q # <<>>
    BY <1>3
  <2>2. MaxValue(q) \in Nat /\ MinValue(q) \in Nat /\ q[i] \in Nat
    BY <1>1, <1>2, <2>1, MaxOfSeries, MinOfSeries
  <2>3. range \in Int /\ q[i] - MinValue(q) \in Int
    BY <2>2
  <2> HIDE DEF range
  <2> QED BY <2>3 DEF Fraction, Fractions
<1>4. Timeline(q) = [i \in 1..n |-> IF range > 0 THEN Fraction(q[i] - MinValue(q), range) ELSE Fraction(1, 1)]
  BY DEF Timeline
<1>5. \A i \in 1..n : Fraction(q[i], Whole) \in Fractions
  BY <1>1, ChartAssumption DEF Fraction, Fractions
<1>6. Usages = [i \in 1..n |-> Fraction(q[i], Whole)]
  BY DEF Usages
<1>7. Timeline(q) \in Seq(Fractions) /\ Len(Timeline(q)) = n
  <2> HIDE DEF n, range
  <2> QED BY <1>1, <1>3, <1>4
<1>8. Usages \in Seq(Fractions) /\ Len(Usages) = n
  <2> HIDE DEF n, range
  <2> QED BY <1>1, <1>5, <1>6
<1>9. RateLabelSize \in Nat
  BY DEF RateLabelSize
<1> QED BY <1>2, <1>7, <1>8, <1>9 DEF UsageChart, Usages

\* The bars of both kinds of charts stand between the labels, side by side with
\* the newest at the right, and reach from the lower label's row to below the
\* top border, for any history and any window.
THEOREM BarsStayInside == Spec => []BarsInside
<1>1. TypeInv => BarsInside
  BY ValuesAreFractions, ChartIsInside DEF TypeInv, BarsInside, RateChart
<1> QED BY <1>1, HistoryIsBounded, PTL

-----------------------------------------------------------------------------
(***************************************************************************)
(* The order of the bars.                                                  *)
(***************************************************************************)
\* What a value of the rate chart is, given the bounds of the series.
LEMMA TimelineOf ==
    ASSUME TypeInv, NEW i \in 1..Len(diff_queue)
    PROVE  LET q == diff_queue
               range == MaxValue(q) - MinValue(q)
           IN /\ q \in Seq(Nat) /\ q # <<>> /\ q[i] \in Nat
              /\ MaxValue(q) \in Nat /\ MinValue(q) \in Nat
              /\ range > 0 => /\ Timeline(q)[i].num = q[i] - MinValue(q)
                              /\ Timeline(q)[i].den = range
              /\ ~ (range > 0) => Timeline(q)[i].num = 1 /\ Timeline(q)[i].den = 1
<1> DEFINE q == diff_queue
           range == MaxValue(q) - MinValue(q)
<1>1. q \in Seq(Nat) /\ q # <<>> /\ q[i] \in Nat
  BY ValuesAreFractions
<1>2. MaxValue(q) \in Nat /\ MinValue(q) \in Nat
  BY <1>1, MaxOfSeries, MinOfSeries
<1>3. Timeline(q)[i] = IF range > 0 THEN Fraction(q[i] - MinValue(q), range) ELSE Fraction(1, 1)
  BY DEF Timeline
<1> QED BY <1>1, <1>2, <1>3 DEF Fraction

LEMMA RateBars ==
    ASSUME TypeInv, NEW i \in DOMAIN RateChart
    PROVE  /\ i \in 1..Len(diff_queue) /\ IsFraction(Timeline(diff_queue)[i]) /\ MaxHeight \in Nat \ {0}
           /\ RateChart[i].height = Height(Timeline(diff_queue)[i], MaxHeight)
<1>1. /\ Timeline(diff_queue) \in Seq(Fractions) /\ Len(Timeline(diff_queue)) = Len(diff_queue)
      /\ RateLabelSize \in Nat /\ size \in Sizes
  BY ValuesAreFractions DEF TypeInv
<1>2. i \in DOMAIN BarChart(RateLabelSize, Timeline(diff_queue))
  BY DEF RateChart
<1>3. /\ i \in 1..Len(Timeline(diff_queue)) /\ IsFraction(Timeline(diff_queue)[i]) /\ MaxHeight \in Nat \ {0}
      /\ BarChart(RateLabelSize, Timeline(diff_queue))[i].height = Height(Timeline(diff_queue)[i], MaxHeight)
  BY <1>1, <1>2, HeightsOfChart
<1> QED BY <1>1, <1>3 DEF RateChart

LEMMA UsageBars ==
    ASSUME TypeInv, NEW i \in DOMAIN UsageChart
    PROVE  /\ i \in 1..Len(diff_queue) /\ IsFraction(Usages[i]) /\ MaxHeight \in Nat \ {0}
           /\ UsageChart[i].height = Height(Usages[i], MaxHeight)
<1>1. Usages \in Seq(Fractions) /\ Len(Usages) = Len(diff_queue) /\ 4 \in Nat /\ size \in Sizes
  BY ValuesAreFractions DEF TypeInv
<1>2. UsageChart = BarChart(4, Usages)
  BY ValuesAreFractions
<1>3. /\ i \in 1..Len(Usages) /\ IsFraction(Usages[i]) /\ MaxHeight \in Nat \ {0}
      /\ BarChart(4, Usages)[i].height = Height(Usages[i], MaxHeight)
  BY <1>1, <1>2, HeightsOfChart
<1> QED BY <1>1, <1>2, <1>3

\* Among the bars of a chart, none of a larger number is lower than one of a
\* smaller number, and the largest number of the history has all the rows
\* there are, for any history and any window, series with a 0 included.
THEOREM TallerIsAlwaysMore == Spec => []TallerIsMore
<1>1. ASSUME TypeInv PROVE TallerIsMore
  <2> DEFINE q == diff_queue
             T == Timeline(q)
             H == MaxHeight
  <2>1. Ordered(RateChart)
    <3> SUFFICES ASSUME NEW i \in DOMAIN RateChart, NEW j \in DOMAIN RateChart, q[i] <= q[j]
                 PROVE  RateChart[i].height <= RateChart[j].height
      BY DEF Ordered
    <3>1. /\ i \in 1..Len(q) /\ IsFraction(T[i]) /\ H \in Nat \ {0} /\ RateChart[i].height = Height(T[i], H)
          /\ j \in 1..Len(q) /\ IsFraction(T[j]) /\ RateChart[j].height = Height(T[j], H)
      BY <1>1, RateBars
    <3>2. T[i].den = T[j].den /\ T[i].num <= T[j].num
      <4> DEFINE low == MinValue(q)
                 range == MaxValue(q) - low
      <4>1. /\ q[i] \in Nat /\ low \in Nat
            /\ range > 0 => T[i].num = q[i] - low /\ T[i].den = range
            /\ ~ (range > 0) => T[i].num = 1 /\ T[i].den = 1
        BY <1>1, <3>1, TimelineOf
      <4>2. /\ q[j] \in Nat
            /\ range > 0 => T[j].num = q[j] - low /\ T[j].den = range
            /\ ~ (range > 0) => T[j].num = 1 /\ T[j].den = 1
        BY <1>1, <3>1, TimelineOf
      <4> HIDE DEF T, q, low, range
      <4> QED BY <4>1, <4>2
    <3> HIDE DEF T, H, q
    <3>3. Height(T[i], H) <= Height(T[j], H)
      BY <3>1, <3>2, HeightGrows
    <3> QED BY <3>1, <3>3
  <2>2. Ordered(UsageChart)
    <3> SUFFICES ASSUME NEW i \in DOMAIN UsageChart, NEW j \in DOMAIN UsageChart, q[i] <= q[j]
                 PROVE  UsageChart[i].height <= UsageChart[j].height
      BY DEF Ordered
    <3>1. /\ i \in 1..Len(q) /\ IsFraction(Usages[i]) /\ H \in Nat \ {0} /\ UsageChart[i].height = Height(Usages[i], H)
          /\ j \in 1..Len(q) /\ IsFraction(Usages[j]) /\ UsageChart[j].height = Height(Usages[j], H)
      BY <1>1, UsageBars
    <3>2. Usages[i].den = Usages[j].den /\ Usages[i].num <= Usages[j].num
      BY <3>1 DEF Usages, Fraction
    <3> HIDE DEF H, q
    <3>3. Height(Usages[i], H) <= Height(Usages[j], H)
      BY <3>1, <3>2, HeightGrows
    <3> QED BY <3>1, <3>3
  <2>3. ASSUME NEW i \in DOMAIN RateChart, \A j \in 1..Len(q) : q[j] <= q[i]
        PROVE  RateChart[i].height = H + 1
    <3>1. i \in 1..Len(q) /\ IsFraction(T[i]) /\ H \in Nat \ {0} /\ RateChart[i].height = Height(T[i], H)
      BY <1>1, RateBars
    <3>2. q \in Seq(Nat) /\ q # <<>> /\ q[i] \in Nat /\ MaxValue(q) \in Nat
      BY <1>1, <3>1, TimelineOf
    <3>3. q[i] <= MaxValue(q) /\ \E j \in 1..Len(q) : q[j] = MaxValue(q)
      BY <3>1, <3>2, MaxOfSeries
    <3>4. q[i] = MaxValue(q)
      BY <2>3, <3>2, <3>3
    <3>5. T[i].num = T[i].den
      BY <1>1, <3>1, <3>4, TimelineOf
    <3> HIDE DEF T, H, q
    <3>6. Height(T[i], H) = H + 1
      BY <3>1, <3>5, HeightIsInt
    <3> QED BY <3>1, <3>6
  <2> QED BY <2>1, <2>2, <2>3 DEF TallerIsMore
<1> QED BY <1>1, HistoryIsBounded, PTL

\* A history in which no number is 0 is scaled to its own range: each bar has a
\* block at least, and the least number, unless all are equal, has that alone.
THEOREM NonZeroSeriesAreScaled == Spec => []NonZeroSeriesIsScaled
<1>1. ASSUME TypeInv PROVE NonZeroSeriesIsScaled
  <2> DEFINE q == diff_queue
             T == Timeline(q)
             H == MaxHeight
             low == MinValue(q)
             high == MaxValue(q)
  <2> SUFFICES ASSUME 0 \notin {q[i] : i \in 1..Len(q)}, NEW i \in DOMAIN RateChart
               PROVE  /\ RateChart[i].height >= 1
                      /\ (\A j \in 1..Len(q) : q[i] <= q[j]) /\ (\E j \in 1..Len(q) : q[i] # q[j])
                         => RateChart[i].height = 1
    BY DEF NonZeroSeriesIsScaled
  <2>1. i \in 1..Len(q) /\ IsFraction(T[i]) /\ H \in Nat \ {0} /\ RateChart[i].height = Height(T[i], H)
    BY <1>1, RateBars
  <2>2. q \in Seq(Nat) /\ q # <<>> /\ q[i] \in Nat /\ high \in Nat /\ low \in Nat
    BY <1>1, <2>1, TimelineOf
  <2>3. \A j \in 1..Len(q) : q[j] # 0 /\ q[j] \in Nat
    BY <2>2
  <2>4. (\A j \in 1..Len(q) : low <= q[j]) /\ (\E j \in 1..Len(q) : q[j] = low)
    BY <2>2, <2>3, MinOfSeries
  <2>5. \A j \in 1..Len(q) : q[j] <= high
    BY <2>2, MaxOfSeries
  <2>6. /\ high - low > 0 => T[i].num = q[i] - low
        /\ ~ (high - low > 0) => T[i].num = 1
    BY <1>1, <2>1, TimelineOf
  <2> HIDE DEF q, T, H, low, high
  <2>7. T[i].num >= 0
    BY <2>1, <2>2, <2>4, <2>6
  <2>8. RateChart[i].height >= 1
    BY <2>1, <2>7, HeightIsInt
  <2>9. ASSUME \A j \in 1..Len(q) : q[i] <= q[j], NEW j \in 1..Len(q), q[i] # q[j]
        PROVE  RateChart[i].height = 1
    <3>1. q[i] = low
      BY <2>1, <2>2, <2>3, <2>4, <2>9
    <3>2. q[i] < q[j] /\ q[j] <= high /\ q[j] \in Nat
      BY <2>2, <2>3, <2>5, <2>9
    <3>3. high - low > 0
      BY <2>2, <3>1, <3>2
    <3>4. T[i].num = 0
      BY <2>2, <2>6, <3>1, <3>3
    <3> QED BY <2>1, <3>4, HeightIsInt
  <2> QED BY <2>8, <2>9
<1> QED BY <1>1, HistoryIsBounded, PTL
=============================================================================
