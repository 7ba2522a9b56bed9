-------------------------- MODULE SampleDiffProofs -------------------------
(***************************************************************************)
(* The scan of hwinfo::sample_diff implements WindowDiff, for windows of   *)
(* any length with stamps in any order; the readers of the load, the       *)
(* memory and the channels of the IO report report a window exactly, for   *)
(* any counters; a report has the sensors the SMC answered for, with the   *)
(* means and the summaries of their own answers.                           *)
(***************************************************************************)
EXTENDS MCSampleDiff, DataLemmas, SequenceTheorems, FiniteSetTheorems, TLAPS

IInv ==
    /\ window \in Seq(Samples)
    /\ pc \in {"enter", "scan", "returned"}
    /\ pc # "returned" => outcome = Undecided
    /\ ScanIsRight

LEMMA SampleTypes ==
    ASSUME NEW q \in Seq(Samples), NEW i \in 1..Len(q)
    PROVE  q[i].time \in Nat /\ q[i].major \in BOOLEAN
<1>1. q[i] \in Samples
  OBVIOUS
<1>2. q[i].time \in Times /\ q[i].major \in BOOLEAN
  BY <1>1 DEF Samples
<1> QED BY <1>2, DiffScanAssumption

LEMMA LaterOnes ==
    ASSUME NEW q, NEW n \in Int
    PROVE  IsFiniteSet({i \in 1..n : Later(q, i)})
<1>1. IsFiniteSet(1..n)
  BY FS_Interval
<1> QED BY <1>1, FS_Subset

\* The place where the latest time appears first is unique.
LEMMA LastIsFound ==
    ASSUME NEW q \in Seq(Samples), NEW last \in 1..Len(q), Later(q, last),
           \A j \in 1..Len(q) : q[j].time <= q[last].time
    PROVE  LastIndex(q) = last
<1> DEFINE n == Len(q)
           P(i) == Later(q, i) /\ \A j \in i..n : q[j].time <= q[i].time
<1>1. n \in Nat
  OBVIOUS
<1>2. P(last)
  BY <1>1
<1>3. ASSUME NEW i \in 1..n, P(i) PROVE i = last
  <2>1. q[i].time \in Nat /\ q[last].time \in Nat
    BY SampleTypes
  <2>2. CASE i < last
    <3>1. last \in i..n /\ i \in 1..(last - 1)
      BY <1>1, <2>2
    <3>2. q[last].time <= q[i].time
      BY <1>3, <3>1
    <3>3. q[i].time < q[last].time
      BY <3>1 DEF Later
    <3> QED BY <2>1, <3>2, <3>3
  <2>3. CASE last < i
    <3>1. last \in 1..(i - 1)
      BY <1>1, <2>3
    <3>2. q[last].time < q[i].time
      BY <1>3, <3>1 DEF Later
    <3>3. q[i].time <= q[last].time
      OBVIOUS
    <3> QED BY <2>1, <3>2, <3>3
  <2> QED BY <1>1, <2>2, <2>3
<1>4. LastIndex(q) = CHOOSE i \in 1..n : P(i)
  BY DEF LastIndex
<1> HIDE DEF P
<1>5. (CHOOSE i \in 1..n : P(i)) = last
  BY <1>2, <1>3
<1> QED BY <1>4, <1>5

\* A window has at least two samples in time order if it ends at another one.
LEMMA TwoInOrder ==
    ASSUME NEW q \in Seq(Samples), NEW last \in 1..Len(q), Later(q, last), last # 1
    PROVE  SampleNum(q) \in Nat /\ SampleNum(q) > 1
<1> DEFINE S == {i \in 1..Len(q) : Later(q, i)}
<1>0. Len(q) \in Int
  OBVIOUS
<1>1. IsFiniteSet(S) /\ Cardinality(S) \in Nat
  BY <1>0, LaterOnes, FS_CardinalityType
<1>2. 1 \in S /\ last \in S
  BY DEF Later
<1>3. IsFiniteSet({1}) /\ Cardinality({1}) = 1
  BY FS_Singleton
<1>4. Cardinality({1} \cup {last}) = 2
  <2> DEFINE first == {1}
  <2>1. IsFiniteSet(first) /\ Cardinality(first) = 1 /\ last \notin first
    BY <1>3
  <2> HIDE DEF S, first
  <2>2. Cardinality(first \cup {last}) = Cardinality(first) + 1
    BY <2>1, FS_AddElement
  <2>3. Cardinality(first \cup {last}) = 2
    BY <2>1, <2>2
  <2> QED BY <2>3 DEF first
<1>5. {1} \cup {last} \in SUBSET S
  BY <1>2
<1> HIDE DEF S
<1>6. Cardinality({1} \cup {last}) <= Cardinality(S)
  BY <1>1, <1>5, FS_Subset
<1>7. Cardinality(S) > 1
  <2> DEFINE c == Cardinality(S)
             two == Cardinality({1} \cup {last})
  <2>1. c \in Nat /\ two = 2 /\ two <= c
    BY <1>1, <1>4, <1>6
  <2> HIDE DEF c, two
  <2>2. c > 1
    BY <2>1
  <2> QED BY <2>2 DEF c
<1> QED BY <1>1, <1>7 DEF SampleNum, S

LEMMA InitIsRight == Init => IInv
<1> SUFFICES ASSUME Init PROVE IInv
  OBVIOUS
<1>1. window \in Seq(Samples)
  BY DiffScanAssumption DEF Init
<1> QED BY <1>1 DEF Init, IInv, ScanIsRight

\* One turn of the loop counts the sample if and only if it is later than all
\* before it.
LEMMA AdvanceIsRight == IInv /\ Advance => ScanIsRight'
<1> SUFFICES ASSUME IInv, Advance PROVE ScanIsRight'
  OBVIOUS
<1> USE DEF Advance
<1> DEFINE n == Len(window)
           S(k) == {i \in 1..k : Later(window, i)}
<1>1. n \in Nat /\ window \in Seq(Samples) /\ window' = window /\ pc = "scan"
  BY DEF IInv
<1>2. /\ BeginsWithMajor /\ it \in 2..(n + 1) /\ last_it \in 1..(it - 1)
      /\ end_time = window[last_it].time
      /\ Later(window, last_it)
      /\ \A j \in 1..(it - 1) : window[j].time <= end_time
      /\ sample_num = Cardinality(S(it - 1))
  BY <1>1 DEF IInv, ScanIsRight, Scanned
<1>3. it \in 2..n /\ it' = it + 1 /\ it' - 1 = it
  BY <1>1, <1>2
<1>4. \A j \in 1..n : window[j].time \in Nat
  BY <1>1, SampleTypes
<1>5. end_time \in Nat
  BY <1>2, <1>3, <1>4
<1>6. IsFiniteSet(S(it - 1)) /\ Cardinality(S(it - 1)) \in Nat
  <2>1. it - 1 \in Int
    BY <1>1, <1>3
  <2> QED BY <2>1, LaterOnes, FS_CardinalityType
<1>7. BeginsWithMajor'
  BY <1>1, <1>2 DEF BeginsWithMajor
<1> HIDE DEF n
<1>8. CASE window[it].time > end_time
  <2>1. last_it' = it /\ end_time' = window[it].time /\ sample_num' = sample_num + 1
    BY <1>8 DEF IsLater
  <2>2. \A j \in 1..(it - 1) : window[j].time < window[it].time
    BY <1>1, <1>2, <1>3, <1>4, <1>5, <1>8
  <2>3. Later(window, it)
    BY <2>2 DEF Later
  <2>4. S(it) = S(it - 1) \cup {it}
    BY <1>3, <2>3
  <2>5. it \notin S(it - 1)
    BY <1>3
  <2>6. Cardinality(S(it)) = Cardinality(S(it - 1)) + 1
    BY <1>6, <2>4, <2>5, FS_AddElement
  <2>7. \A j \in 1..it : window[j].time <= window[it].time
    BY <1>1, <1>3, <1>4, <2>2
  <2>9. sample_num' = Cardinality({i \in 1..(it' - 1) : Later(window', i)})
    BY <1>1, <1>2, <1>3, <2>1, <2>6
  <2> QED BY <1>1, <1>3, <1>7, <2>1, <2>3, <2>7, <2>9 DEF ScanIsRight, Scanned, n
<1>9. CASE ~(window[it].time > end_time)
  <2>1. last_it' = last_it /\ end_time' = end_time /\ sample_num' = sample_num
    BY <1>9 DEF IsLater
  <2>2. last_it \in 1..(it - 1) /\ ~(window[last_it].time < window[it].time)
    BY <1>2, <1>3, <1>4, <1>5, <1>9
  <2>3. ~Later(window, it)
    BY <2>2 DEF Later
  <2>4. S(it) = S(it - 1)
    BY <1>3, <2>3
  <2>5. \A j \in 1..it : window[j].time <= end_time
    BY <1>2, <1>3, <1>4, <1>5, <1>9
  <2>6. sample_num' = Cardinality({i \in 1..(it' - 1) : Later(window', i)})
    BY <1>1, <1>2, <1>3, <2>1, <2>4
  <2> QED BY <1>1, <1>2, <1>3, <1>7, <2>1, <2>5, <2>6 DEF ScanIsRight, Scanned, n
<1> QED BY <1>8, <1>9

LEMMA StartIsRight == IInv /\ Start => ScanIsRight'
<1> SUFFICES ASSUME IInv, Start PROVE ScanIsRight'
  OBVIOUS
<1>1. window \in Seq(Samples) /\ window' = window /\ BeginsWithMajor
  BY DEF IInv, Start
<1>2. Len(window) \in Nat \ {0} /\ 1 \in 1..Len(window)
  BY <1>1 DEF BeginsWithMajor
<1>3. last_it' = 1 /\ it' = 2 /\ end_time' = window[1].time /\ sample_num' = 1
  BY DEF Start
<1>4. window[1].time \in Nat
  BY <1>1, <1>2, SampleTypes
<1>5. Later(window, 1)
  BY DEF Later
<1>6. {i \in 1..1 : Later(window, i)} = {1}
  BY <1>5
<1>7. Cardinality({1}) = 1
  BY FS_Singleton
<1>8. BeginsWithMajor'
  BY <1>1 DEF BeginsWithMajor
<1>9. Scanned' = 1..1
  BY <1>3 DEF Scanned
<1>10. it' \in 2..(Len(window') + 1) /\ last_it' \in Scanned'
  BY <1>1, <1>2, <1>3, <1>9
<1>11. \A j \in Scanned' : window'[j].time <= end_time'
  BY <1>1, <1>3, <1>4, <1>9
<1>12. sample_num' = Cardinality({i \in Scanned' : Later(window', i)})
  BY <1>1, <1>3, <1>6, <1>7, <1>9
<1> QED BY <1>1, <1>3, <1>5, <1>8, <1>10, <1>11, <1>12 DEF ScanIsRight

LEMMA NextIsRight == IInv /\ [Next]_vars => IInv'
<1> SUFFICES ASSUME IInv, [Next]_vars PROVE IInv'
  OBVIOUS
<1>1. CASE Refuse
  BY <1>1 DEF Refuse, IInv, ScanIsRight
<1>2. CASE Start
  <2>1. ScanIsRight'
    BY <1>2, StartIsRight
  <2> QED BY <1>2, <2>1 DEF Start, IInv
<1>3. CASE Advance
  <2>1. ScanIsRight'
    BY <1>3, AdvanceIsRight
  <2> QED BY <1>3, <2>1 DEF Advance, IInv
<1>4. CASE Return
  BY <1>4 DEF Return, IInv, ScanIsRight
<1>5. CASE UNCHANGED vars
  BY <1>5 DEF vars, locals, IInv, ScanIsRight, Scanned, BeginsWithMajor, Later
<1> QED BY <1>1, <1>2, <1>3, <1>4, <1>5 DEF Next, Returned

\* The loop invariant: at every turn, last_it is where the latest time so far
\* appears first and sample_num counts the samples in time order.
THEOREM ScanStaysRight == Spec => []ScanIsRight
<1>1. IInv => ScanIsRight
  BY DEF IInv
<1> QED BY <1>1, InitIsRight, NextIsRight, PTL DEF Spec

\* What the loop returns is what WindowDiff says of the whole window.
LEMMA ReturnIsResult == IInv /\ Return => outcome' = Promise!Result(window)
<1> SUFFICES ASSUME IInv, Return PROVE outcome' = Promise!Result(window)
  OBVIOUS
<1> DEFINE n == Len(window)
<1>1. window \in Seq(Samples) /\ pc = "scan" /\ n \in Nat /\ it > n
  BY DEF IInv, Return
<1>2. /\ BeginsWithMajor /\ it \in 2..(n + 1) /\ last_it \in 1..(it - 1)
      /\ end_time = window[last_it].time
      /\ Later(window, last_it)
      /\ \A j \in 1..(it - 1) : window[j].time <= end_time
      /\ sample_num = Cardinality({i \in 1..(it - 1) : Later(window, i)})
  BY <1>1 DEF IInv, ScanIsRight, Scanned
<1>3. it - 1 = n
  BY <1>1, <1>2
<1>4. last_it \in 1..n /\ LastIndex(window) = last_it
  BY <1>1, <1>2, <1>3, LastIsFound
<1>5. SampleNum(window) = sample_num
  BY <1>2, <1>3 DEF SampleNum
<1>6. last_it # 1 => ~(sample_num <= 1)
  BY <1>1, <1>2, <1>4, <1>5, TwoInOrder
<1>7. Promise!Comparable(window) <=> last_it # 1 /\ window[last_it].major
  BY <1>2, <1>4 DEF Promise!Comparable, Comparable, Promise!LastIndex, LastIndex,
     Promise!Later, Later, BeginsWithMajor
<1>8. outcome' = IF last_it = 1 \/ ~window[last_it].major \/ sample_num <= 1
                 THEN EmptyReport
                 ELSE [kind |-> "full", last |-> last_it,
                       start_time |-> window[1].time, end_time |-> end_time,
                       sample_num |-> sample_num]
  BY DEF Return
<1>9. CASE last_it = 1 \/ ~window[last_it].major
  <2>1. outcome' = EmptyReport /\ ~Promise!Comparable(window)
    BY <1>7, <1>8, <1>9
  <2> QED BY <2>1 DEF Promise!Result, Promise!EmptyReport, EmptyReport
<1>10. CASE last_it # 1 /\ window[last_it].major
  <2>1. window # <<>> /\ Promise!Comparable(window)
    BY <1>2, <1>7, <1>10 DEF BeginsWithMajor
  <2>2. Promise!Result(window) = Promise!FullReport(window)
    BY <2>1 DEF Promise!Result
  <2>3. Promise!LastIndex(window) = last_it /\ Promise!SampleNum(window) = sample_num
    BY <1>4, <1>5 DEF Promise!LastIndex, LastIndex, Promise!Later, Later,
       Promise!SampleNum, SampleNum, Promise!Cardinality, Cardinality
  <2>4. outcome' = [kind |-> "full", last |-> last_it,
                    start_time |-> window[1].time, end_time |-> end_time,
                    sample_num |-> sample_num]
    BY <1>6, <1>8, <1>10
  <2> QED BY <1>2, <2>2, <2>3, <2>4 DEF Promise!FullReport
<1> QED BY <1>9, <1>10

\* hwinfo::sample_diff finds the ends of the window that WindowDiff states.
THEOREM ScanKeepsPromise == Spec => PromiseKept
<1>1. Init => Promise!Init
  BY DEF Init, Promise!Init
<1>2. IInv /\ [Next]_vars => [Promise!Decide]_<<window, outcome>>
  <2> SUFFICES ASSUME IInv, [Next]_vars
               PROVE  Promise!Decide \/ UNCHANGED <<window, outcome>>
    OBVIOUS
  <2>1. CASE Refuse
    <3>1. outcome = Undecided /\ ~BeginsWithMajor /\ outcome' = EmptyReport
      BY <2>1 DEF Refuse, IInv
    <3>2. Promise!Result(window) = Promise!EmptyReport
      BY <3>1 DEF Promise!Result, Promise!Comparable, BeginsWithMajor
    <3> QED BY <2>1, <3>1, <3>2 DEF Refuse, Promise!Decide, Promise!EmptyReport, EmptyReport
  <2>2. CASE Start
    BY <2>2 DEF Start
  <2>3. CASE Advance
    BY <2>3 DEF Advance
  <2>4. CASE Return
    BY <2>4, ReturnIsResult DEF Return, IInv, Promise!Decide
  <2>5. CASE UNCHANGED vars
    BY <2>5 DEF vars
  <2> QED BY <2>1, <2>2, <2>3, <2>4, <2>5 DEF Next, Returned
<1> QED BY <1>1, <1>2, InitIsRight, NextIsRight, PTL DEF Spec, PromiseKept, Promise!Spec

-----------------------------------------------------------------------------
(***************************************************************************)
(* The load and the memory.  What an int makes of a counter.               *)
(***************************************************************************)
\* An int is the counter but for a number of wraps.
LEMMA IntOfCounter ==
    ASSUME Load!Assumption, NEW n \in Nat
    PROVE  /\ Load!ToInt(n) \in Int /\ -Half <= Load!ToInt(n) /\ Load!ToInt(n) < Half
           /\ \E wraps \in Int : n = (2 * Half) * wraps + Load!ToInt(n)
<1> DEFINE m == 2 * Half
           a == n + Half
           r == a % m
           d == a \div m
<1>1. Half \in Nat \ {0} /\ m \in Nat \ {0} /\ a \in Int
  BY DEF Load!Assumption
<1>2. r \in 0 .. (m - 1) /\ d \in Int /\ a = m * d + r
  <2> HIDE DEF m, a
  <2> QED BY <1>1
<1>3. Load!ToInt(n) = r - Half
  BY DEF Load!ToInt
<1>4. m * d \in Int
  <2> HIDE DEF m, d
  <2> QED BY <1>1, <1>2
<1>5. n = m * d + Load!ToInt(n)
  <2> DEFINE p == m * d
  <2>1. p \in Int /\ n + Half = p + r
    BY <1>2, <1>4
  <2> HIDE DEF p, r
  <2>2. n = p + (r - Half)
    BY <1>1, <1>2, <2>1
  <2> QED BY <1>3, <2>2 DEF p
<1>6. r - Half \in Int /\ -Half <= r - Half /\ r - Half < Half
  <2>1. r \in Int /\ 0 <= r /\ r < 2 * Half
    BY <1>1, <1>2
  <2> HIDE DEF r
  <2> QED BY <1>1, <2>1
<1> QED BY <1>2, <1>3, <1>5, <1>6

\* The difference of the ints of a counter is what it has counted, if it is less
\* than a wrap and the sign did not change.
LEMMA DeltaOfCounter ==
    ASSUME Load!Assumption, NEW m \in Nat, NEW n \in Nat, m <= n, n - m < 2 * Half
    PROVE  Load!Delta(Load!ToInt(m), Load!ToInt(n))
              = IF Load!ToInt(m) > Load!ToInt(n) THEN 0 ELSE n - m
<1> DEFINE a == Load!ToInt(m)
           b == Load!ToInt(n)
           wrap == 2 * Half
<1>1. a \in Int /\ -Half <= a /\ a < Half /\ b \in Int /\ -Half <= b /\ b < Half
  BY IntOfCounter
<1>2. PICK i \in Int : m = wrap * i + a
  BY IntOfCounter
<1>3. PICK j \in Int : n = wrap * j + b
  BY IntOfCounter
<1>4. wrap \in Nat \ {0} /\ Half \in Nat \ {0} /\ wrap = Half + Half
  BY DEF Load!Assumption
<1>5. Load!Delta(a, b) = IF b >= a THEN b - a ELSE 0
  BY DEF Load!Delta
<1> HIDE DEF a, b
<1>6. ASSUME a <= b PROVE b - a = n - m
  <2> DEFINE p == wrap * i
             q == wrap * j
  <2>1. p \in Int /\ q \in Int
    <3> HIDE DEF wrap
    <3> QED BY <1>4
  <2>2. m = p + a /\ n = q + b /\ n - m < wrap
    BY <1>2, <1>3
  <2>3. ASSUME i < j PROVE p + wrap <= q
    <3> HIDE DEF wrap, p, q
    <3>1. (i + 1) * wrap <= j * wrap
      BY <1>4, <2>3, TimesMono
    <3>2. (i + 1) * wrap = wrap * i + wrap /\ j * wrap = wrap * j
      BY <1>4
    <3> QED BY <3>1, <3>2 DEF p, q
  <2>4. ASSUME j < i PROVE q + wrap <= p
    <3> HIDE DEF wrap, p, q
    <3>1. (j + 1) * wrap <= i * wrap
      BY <1>4, <2>4, TimesMono
    <3>2. (j + 1) * wrap = wrap * j + wrap /\ i * wrap = wrap * i
      BY <1>4
    <3> QED BY <3>1, <3>2 DEF p, q
  <2>5. i = j => p = q
    OBVIOUS
  <2> HIDE DEF p, q, wrap
  <2>6. ~ (i < j)
    BY <1>1, <1>4, <1>6, <2>1, <2>2, <2>3
  <2>7. ~ (j < i)
    BY <1>1, <1>4, <2>1, <2>2, <2>4
  <2>8. p = q
    BY <2>5, <2>6, <2>7
  <2> QED BY <1>1, <2>1, <2>2, <2>8
<1>7. n - m \in Int
  OBVIOUS
<1> QED BY <1>1, <1>5, <1>6, <1>7 DEF a, b

-----------------------------------------------------------------------------
(***************************************************************************)
(* The mean of the cores.                                                  *)
(***************************************************************************)
Shares == Nat \X Nat

\* The sum of the shares f with that of one more core of n.
Mean(n, f, u) == IF Load!NotANumber(f) \/ Load!NotANumber(u) THEN << 0, 0 >>
                 ELSE << f[1] * u[2] * n + u[1] * f[2], f[2] * u[2] * n >>

LEMMA MeanIsShare ==
    ASSUME NEW n \in Nat, NEW f \in Shares, NEW u \in Shares
    PROVE  Mean(n, f, u) \in Shares
<1> DEFINE a == f[1]
           b == f[2]
           c == u[1]
           d == u[2]
<1>1. a \in Nat /\ b \in Nat /\ c \in Nat /\ d \in Nat
  BY DEF Shares
<1>2. Mean(n, f, u) = << 0, 0 >> \/ Mean(n, f, u) = << a * d * n + c * b, b * d * n >>
  BY DEF Mean
<1> HIDE DEF a, b, c, d
<1>3. a * d * n + c * b \in Nat /\ b * d * n \in Nat
  <2>1. a * d \in Nat /\ c * b \in Nat /\ b * d \in Nat
    BY <1>1
  <2>2. (a * d) * n \in Nat /\ (b * d) * n \in Nat
    BY <2>1
  <2> QED BY <2>1, <2>2
<1> QED BY <1>2, <1>3 DEF Shares

\* What the mean of a series is, given what each prefix comes to.
LEMMA CpuUsageIs ==
    ASSUME NEW s \in Seq(Shares), NEW acc,
           acc[0] = << 0, 1 >>, \A i \in 1..Len(s) : acc[i] = Mean(Len(s), acc[i - 1], s[i])
    PROVE  Load!CpuUsage(s) = acc[Len(s)]
<1> DEFINE n == Len(s)
           none == << 0, 1 >>
           step == [i \in 1..n |-> [v \in Shares |-> Mean(n, v, s[i])]]
           Body(f) == [t \in SUBSET DOMAIN s |->
                          IF t = {} THEN none ELSE Mean(n, f[t \ {Max(t)}], s[Max(t)])]
           fold == CHOOSE f : f = Body(f)
<1>1. n \in Nat /\ DOMAIN s = 1..n /\ none \in Shares
  BY DEF Shares
<1>2. step \in [1..n -> [Shares -> Shares]]
  BY MeanIsShare
<1>3. PICK iter \in [SUBSET (1..n) -> Shares] : Iterates(iter, n, none, step)
  <2> HIDE DEF step, none
  <2> QED BY <1>1, <1>2, IterationExists
<1> HIDE DEF none
<1>4. iter = Body(iter)
  <2>1. ASSUME NEW t \in SUBSET (1..n)
        PROVE  iter[t] = IF t = {} THEN none ELSE Mean(n, iter[t \ {Max(t)}], s[Max(t)])
    <3>1. CASE t = {}
      BY <1>3, <3>1 DEF Iterates
    <3>2. CASE t # {}
      <4>1. Max(t) \in 1..n
        BY <1>1, <3>2, MaxOfIndices
      <4>2. iter[t \ {Max(t)}] \in Shares
        OBVIOUS
      <4>3. iter[t] = step[Max(t)][iter[t \ {Max(t)}]]
        BY <1>3, <3>2 DEF Iterates
      <4> QED BY <3>2, <4>1, <4>2, <4>3
    <3> QED BY <3>1, <3>2
  <2> QED BY <1>1, <2>1
<1>5. fold = Body(fold)
  <2> HIDE DEF Body
  <2> QED BY <1>4
<1>6. fold[{}] = none
  BY <1>5
<1>7. \A i \in 1..n : fold[1..i] = Mean(n, fold[1..(i - 1)], s[i])
  <2> SUFFICES ASSUME NEW i \in 1..n PROVE fold[1..i] = Mean(n, fold[1..(i - 1)], s[i])
    OBVIOUS
  <2>1. 1..i # {} /\ 1..i \in SUBSET (1..n) /\ Max(1..i) = i /\ (1..i) \ {i} = 1..(i - 1)
    BY <1>1, MaxOfPrefix
  <2>2. fold[1..i] = Body(fold)[1..i]
    BY <1>5
  <2> HIDE DEF fold
  <2> QED BY <1>1, <2>1, <2>2
<1>8. Load!CpuUsage(s) = fold[DOMAIN s]
  BY DEF Load!CpuUsage, Mean, Load!FoldLeft, Load!MapThenFoldSet, Load!Max, Max, none
<1>9. fold[1..n] = acc[n]
  <2>1. fold[{}] = acc[0]
    BY <1>6 DEF none
  <2>2. \A i \in 1..n : fold[1..(i - 1)] = acc[i - 1] => fold[1..i] = acc[i]
    BY <1>7
  <2>3. Follows(fold, acc, n)
    <3> HIDE DEF fold
    <3> QED BY <2>1, <2>2 DEF Follows
  <2> HIDE DEF fold, n, step, Body
  <2> QED BY <1>1, <2>3, PrefixInduction
<1> QED BY <1>1, <1>8, <1>9

\* One more share: the sum of the first i of n grows by one n-th at most.
LEMMA MeanGrows ==
    ASSUME NEW n \in Nat \ {0}, NEW i \in Nat, NEW f \in Shares, NEW u \in Shares,
           u[1] <= u[2], f[1] * n <= i * f[2]
    PROVE  Mean(n, f, u)[1] * n <= (i + 1) * Mean(n, f, u)[2]
<1> DEFINE a == f[1]
           b == f[2]
           c == u[1]
           d == u[2]
<1>1. a \in Nat /\ b \in Nat /\ c \in Nat /\ d \in Nat /\ c <= d /\ a * n <= i * b
  BY DEF Shares
<1>2. CASE Load!NotANumber(f) \/ Load!NotANumber(u)
  <2>1. Mean(n, f, u) = << 0, 0 >>
    BY <1>2 DEF Mean
  <2> QED BY <2>1
<1>3. CASE ~ (Load!NotANumber(f) \/ Load!NotANumber(u))
  <2>1. Mean(n, f, u) = << a * d * n + c * b, b * d * n >>
    BY <1>3 DEF Mean
  <2> HIDE DEF a, b, c, d
  <2>2. (a * d * n + c * b) * n <= (i + 1) * (b * d * n)
    <3> DEFINE dn == d * n
               bn == b * n
    <3>1. dn \in Nat /\ bn \in Nat /\ a * n \in Nat /\ i * b \in Nat
      BY <1>1
    <3>2. (a * n) * dn <= (i * b) * dn
      <4> HIDE DEF dn
      <4> QED BY <1>1, <3>1, TimesMono
    <3>3. c * bn <= d * bn
      <4> HIDE DEF bn
      <4> QED BY <1>1, <3>1, TimesMono
    <3>4. (a * d * n + c * b) * n = (a * n) * dn + c * bn
      BY <1>1
    <3>5. (i + 1) * (b * d * n) = (i * b) * dn + d * bn
      BY <1>1
    <3>6. (a * n) * dn \in Int /\ (i * b) * dn \in Int /\ c * bn \in Int /\ d * bn \in Int
      <4> HIDE DEF dn, bn
      <4> QED BY <1>1, <3>1
    <3> HIDE DEF dn, bn
    <3> QED BY <3>2, <3>3, <3>4, <3>5, <3>6
  <2> QED BY <2>1, <2>2
<1> QED BY <1>2, <1>3

\* The mean of shares is not a number or a share.
LEMMA CpuUsageIsShare ==
    ASSUME NEW s \in Seq(Shares), s # <<>>, \A i \in 1..Len(s) : s[i][1] <= s[i][2]
    PROVE  LET mean == Load!CpuUsage(s)
           IN Load!NotANumber(mean) \/ (0 <= mean[1] /\ mean[1] <= mean[2])
<1> DEFINE n == Len(s)
           none == << 0, 1 >>
           step == [i \in 1..n |-> [v \in Shares |-> Mean(n, v, s[i])]]
<1>1. n \in Nat \ {0} /\ none \in Shares /\ \A i \in 1..n : s[i] \in Shares
  BY DEF Shares
<1>2. step \in [1..n -> [Shares -> Shares]]
  BY <1>1, MeanIsShare
<1>3. PICK acc \in [0..n -> Shares] : Accumulates(acc, n, none, step)
  <2> HIDE DEF step, none
  <2> QED BY <1>1, <1>2, AccumulationExists
<1>4. acc[0] = none /\ \A i \in 1..n : acc[i] = Mean(n, acc[i - 1], s[i])
  <2>1. \A i \in 1..n : i - 1 \in 0..n
    BY <1>1
  <2>2. \A i \in 1..n : acc[i - 1] \in Shares
    BY <2>1
  <2> QED BY <1>3, <2>1, <2>2 DEF Accumulates
<1>5. Load!CpuUsage(s) = acc[n]
  BY <1>4, CpuUsageIs
<1> HIDE DEF step
<1> DEFINE P(i) == acc[i][1] * n <= i * acc[i][2]
           S == {i \in Nat : i <= n => P(i)}
<1>6. 0 \in S
  BY <1>1, <1>4
<1>7. ASSUME NEW i \in Nat, i \in S PROVE i + 1 \in S
  <2> SUFFICES ASSUME i + 1 <= n PROVE P(i + 1)
    OBVIOUS
  <2>1. i + 1 \in 1..n /\ i \in 0..n /\ (i + 1) - 1 = i /\ P(i)
    BY <1>1, <1>7
  <2>2. acc[i + 1] = Mean(n, acc[i], s[i + 1]) /\ acc[i] \in Shares /\ s[i + 1] \in Shares /\ s[i + 1][1] <= s[i + 1][2]
    BY <1>1, <1>4, <2>1
  <2> HIDE DEF n
  <2> QED BY <1>1, <2>1, <2>2, MeanGrows
<1>8. P(n)
  <2>1. n \in S
    <3> HIDE DEF S, n
    <3> QED BY <1>1, <1>6, <1>7, SetInduction
  <2> QED BY <1>1, <2>1
<1>9. acc[n] \in Shares
  BY <1>1
<1>10. acc[n][1] <= acc[n][2]
  <2> DEFINE p == acc[n][1]
             q == acc[n][2]
  <2>1. p \in Nat /\ q \in Nat /\ p * n <= n * q
    BY <1>8, <1>9 DEF Shares
  <2> HIDE DEF p, q, n
  <2>2. ASSUME q < p PROVE FALSE
    <3>1. (q + 1) * n <= p * n
      BY <1>1, <2>1, <2>2, TimesMono
    <3>2. (q + 1) * n = n * q + n /\ n * q \in Int /\ p * n \in Int
      BY <1>1, <2>1
    <3> QED BY <1>1, <2>1, <3>1, <3>2
  <2>3. p <= q
    BY <2>1, <2>2
  <2> QED BY <2>3 DEF p, q
<1> QED BY <1>5, <1>9, <1>10 DEF Shares

-----------------------------------------------------------------------------
(***************************************************************************)
(* The samples at the ends of a window, and the report made of them.       *)
(***************************************************************************)
Errors == {"load", "memory", "invalid_argument"} \X Int
Counters == [1..Cores -> [Load!Kinds -> Nat]]

\* A sample has the machine of its moment, or the errors of the calls that failed.
SampleIsOf(s, t, m) ==
    /\ s.load_errors \in Seq(Errors) /\ s.mem_errors \in Seq(Errors)
    /\ s.loads = IF s.load_errors = <<>>
                 THEN [c \in 1..Cores |-> [k \in Load!Kinds |-> Load!ToInt(t[c][k])]] ELSE <<>>
    /\ s.stats = IF s.mem_errors = <<>> THEN m ELSE Load!NoSample.stats

LoadTypes ==
    /\ ticks \in Counters /\ was.ticks \in Counters
    /\ memory \in [Load!Pages -> Nat] /\ taken \in Nat
    /\ load_pc \in {"work", "sample", "diff", "next"}

\* What a core counted since the window began is less than a wrap.
WindowIsShort ==
    \A c \in 1..Cores : \A k \in Load!Kinds :
        was.ticks[c][k] <= ticks[c][k] /\ ticks[c][k] - was.ticks[c][k] < 2 * Half

Ends ==
    /\ load_pc = "work" => was.ticks = ticks
    /\ load_pc # "sample" => taken > 0
    /\ load_pc = "diff" => taken > 1
    /\ load_pc \in {"work", "sample"} /\ taken > 0 => SampleIsOf(start, was.ticks, was.memory)
    /\ load_pc \in {"diff", "next"} => SampleIsOf(end, ticks, memory)
    /\ load_pc \in {"diff", "next"} /\ taken > 1 => SampleIsOf(start, was.ticks, was.memory)

LoadInv ==
    /\ LoadTypes /\ WindowIsShort /\ Ends
    /\ Load!UsageIsExact /\ Load!MemoryIsOfTheEnd /\ Load!ErrorsMatchFailures

\* A call that failed reports a series of one error.
LEMMA ErrorsOfOne ==
    ASSUME NEW e \in Errors
    PROVE  << e >> \in Seq(Errors) /\ <<>> \in Seq(Errors)
OBVIOUS

\* Two series of errors make none only if neither has one.
LEMMA NoErrors ==
    ASSUME NEW s \in Seq(Errors), NEW t \in Seq(Errors)
    PROVE  s \o t \in Seq(Errors) /\ (s \o t = <<>> <=> s = <<>> /\ t = <<>>)
<1>1. s \o t \in Seq(Errors) /\ Len(s \o t) = Len(s) + Len(t)
  BY ConcatProperties
<1>2. Len(s) \in Nat /\ Len(t) \in Nat
  OBVIOUS
<1>3. (s = <<>> <=> Len(s) = 0) /\ (t = <<>> <=> Len(t) = 0) /\ (s \o t = <<>> <=> Len(s \o t) = 0)
  BY <1>1
<1> QED BY <1>1, <1>2, <1>3

\* The loads of a sample: as many as cores, unless the call failed.
LEMMA LoadsOfSample ==
    ASSUME Load!Assumption, NEW s, NEW t \in Counters, NEW m, SampleIsOf(s, t, m)
    PROVE  /\ ~ Load!Failed(s) => /\ DOMAIN s.loads = 1..Cores /\ Len(s.loads) = Cores
                                  /\ s.loads # <<>>
                                  /\ \A c \in 1..Cores : \A k \in Load!Kinds :
                                        s.loads[c][k] = Load!ToInt(t[c][k])
           /\ Load!Failed(s) => s.loads = <<>> /\ Len(s.loads) = 0
<1>1. Cores \in Nat \ {0}
  BY DEF Load!Assumption
<1>2. CASE s.load_errors = <<>>
  <2> DEFINE loads == [c \in 1..Cores |-> [k \in Load!Kinds |-> Load!ToInt(t[c][k])]]
  <2>1. DOMAIN loads = 1..Cores /\ Len(loads) = Cores /\ loads # <<>>
    BY <1>1
  <2>2. s.loads = loads
    BY <1>2 DEF SampleIsOf
  <2>3. \A c \in 1..Cores : \A k \in Load!Kinds : loads[c][k] = Load!ToInt(t[c][k])
    OBVIOUS
  <2> HIDE DEF loads
  <2> QED BY <1>2, <2>1, <2>2, <2>3 DEF Load!Failed
<1>3. CASE s.load_errors # <<>>
  <2>1. s.loads = <<>>
    BY <1>3 DEF SampleIsOf
  <2> QED BY <1>3, <2>1 DEF Load!Failed
<1> QED BY <1>2, <1>3

\* What a core spent of a window, as far as the ints tell.
SpentBy(c) == [k \in Load!Kinds |-> IF Load!Crossed(c, k) THEN 0 ELSE ticks[c][k] - was.ticks[c][k]]

\* The usage that the report has of a window whose ends were read.
LEMMA UsageOfWindow ==
    ASSUME Load!Assumption, LoadTypes, WindowIsShort,
           SampleIsOf(start, was.ticks, was.memory), SampleIsOf(end, ticks, memory),
           ~ Load!Failed(start), ~ Load!Failed(end)
    PROVE  LET usage == Load!SampleDiff.usage
           IN /\ usage \in Seq(Shares) /\ Len(usage) = Cores /\ usage # <<>>
              /\ \A c \in 1..Cores :
                    LET s == SpentBy(c)
                    IN /\ usage[c] = << s["user"] + s["system"],
                                        s["user"] + s["system"] + s["idle"] + s["nice"] >>
                       /\ usage[c][1] <= usage[c][2]
<1> DEFINE loads == [c \in DOMAIN start.loads |->
                        [k \in Load!Kinds |-> Load!Delta(start.loads[c][k], end.loads[c][k])]]
           usage == [c \in DOMAIN loads |-> Load!Usage(loads[c])]
<1>1. /\ DOMAIN start.loads = 1..Cores /\ Len(start.loads) = Cores /\ Len(end.loads) = Cores
      /\ \A c \in 1..Cores : \A k \in Load!Kinds :
            /\ start.loads[c][k] = Load!ToInt(was.ticks[c][k])
            /\ end.loads[c][k] = Load!ToInt(ticks[c][k])
  <2>1. was.ticks \in Counters /\ ticks \in Counters
    BY DEF LoadTypes
  <2>2. /\ DOMAIN start.loads = 1..Cores /\ Len(start.loads) = Cores
        /\ \A c \in 1..Cores : \A k \in Load!Kinds : start.loads[c][k] = Load!ToInt(was.ticks[c][k])
    BY <2>1, LoadsOfSample
  <2>3. /\ Len(end.loads) = Cores
        /\ \A c \in 1..Cores : \A k \in Load!Kinds : end.loads[c][k] = Load!ToInt(ticks[c][k])
    BY <2>1, LoadsOfSample
  <2> QED BY <2>2, <2>3
<1>2. Cores \in Nat \ {0}
  BY DEF Load!Assumption
<1>3. Load!SampleDiff.usage = usage
  BY <1>1 DEF Load!SampleDiff, Load!LoadDiff
<1>4. ASSUME NEW c \in 1..Cores, NEW k \in Load!Kinds
      PROVE  loads[c][k] = SpentBy(c)[k] /\ SpentBy(c)[k] \in Nat
  <2> DEFINE m == was.ticks[c][k]
             n == ticks[c][k]
  <2>1. m \in Nat /\ n \in Nat /\ m <= n /\ n - m < 2 * Half
    BY DEF LoadTypes, Counters, WindowIsShort
  <2>2. loads[c][k] = Load!Delta(Load!ToInt(m), Load!ToInt(n))
    BY <1>1
  <2>3. SpentBy(c)[k] = IF Load!ToInt(m) > Load!ToInt(n) THEN 0 ELSE n - m
    BY DEF SpentBy, Load!Crossed
  <2> HIDE DEF m, n, loads
  <2>4. loads[c][k] = SpentBy(c)[k]
    BY <2>1, <2>2, <2>3, DeltaOfCounter
  <2>5. n - m \in Nat
    BY <2>1
  <2> QED BY <2>3, <2>4, <2>5
<1>5. DOMAIN loads = 1..Cores
  BY <1>1
<1> HIDE DEF loads
<1>6. ASSUME NEW c \in 1..Cores
      PROVE  LET s == SpentBy(c)
             IN /\ usage[c] = << s["user"] + s["system"], s["user"] + s["system"] + s["idle"] + s["nice"] >>
                /\ usage[c][1] <= usage[c][2] /\ usage[c] \in Shares
  <2> DEFINE s == SpentBy(c)
             u == s["user"]
             y == s["system"]
             i == s["idle"]
             n == s["nice"]
  <2>1. u \in Nat /\ y \in Nat /\ i \in Nat /\ n \in Nat
    BY <1>4 DEF Load!Kinds
  <2>2. /\ loads[c]["user"] = u /\ loads[c]["system"] = y
        /\ loads[c]["idle"] = i /\ loads[c]["nice"] = n
    BY <1>4 DEF Load!Kinds
  <2>3. usage[c] = << u + y, u + y + i + n >>
    BY <1>5, <2>2 DEF Load!Usage
  <2> HIDE DEF u, y, i, n
  <2>4. u + y \in Nat /\ u + y + i + n \in Nat /\ u + y <= u + y + i + n
    BY <2>1
  <2>5. usage[c] \in Shares /\ usage[c][1] <= usage[c][2]
    BY <2>3, <2>4 DEF Shares
  <2> QED BY <2>3, <2>5 DEF u, y, i, n
<1>7. usage \in Seq(Shares) /\ Len(usage) = Cores /\ usage # <<>>
  <2>1. usage = [c \in 1..Cores |-> usage[c]] /\ \A c \in 1..Cores : usage[c] \in Shares
    BY <1>5, <1>6
  <2> HIDE DEF usage
  <2> QED BY <1>2, <2>1
<1> HIDE DEF usage
<1> QED BY <1>3, <1>6, <1>7

\* The report of a window of which an end was not read.
LEMMA UsageOfNothing ==
    ASSUME Load!Assumption, LoadTypes,
           SampleIsOf(start, was.ticks, was.memory), SampleIsOf(end, ticks, memory),
           Load!Failed(start) \/ Load!Failed(end)
    PROVE  Load!SampleDiff.usage = <<>> /\ Load!LoadDiff.errors \in Seq(Errors) /\ Load!LoadDiff.errors # <<>>
<1>1. Cores \in Nat \ {0}
  BY DEF Load!Assumption
<1>2. start.load_errors \in Seq(Errors) /\ end.load_errors \in Seq(Errors)
  BY DEF SampleIsOf
<1>3. was.ticks \in Counters /\ ticks \in Counters
  BY DEF LoadTypes
<1>4. IF Load!Failed(start) THEN start.loads = <<>> /\ Len(start.loads) = 0 ELSE Len(start.loads) = Cores
  BY <1>3, LoadsOfSample
<1>5. IF Load!Failed(end) THEN end.loads = <<>> /\ Len(end.loads) = 0 ELSE Len(end.loads) = Cores
  BY <1>3, LoadsOfSample
<1>6. CASE Load!Failed(start) /\ Load!Failed(end)
  <2>1. start.loads = <<>> /\ Len(start.loads) = Len(end.loads)
    BY <1>4, <1>5, <1>6
  <2>2. Load!LoadDiff.errors = start.load_errors \o end.load_errors
    BY <2>1 DEF Load!LoadDiff
  <2>3. Load!SampleDiff.usage = <<>>
    BY <2>1 DEF Load!SampleDiff, Load!LoadDiff
  <2> QED BY <1>2, <1>6, <2>2, <2>3, NoErrors DEF Load!Failed
<1>7. CASE ~ (Load!Failed(start) /\ Load!Failed(end))
  <2>1. Len(start.loads) # Len(end.loads)
    BY <1>1, <1>4, <1>5, <1>7
  <2>2. Load!LoadDiff = [loads |-> <<>>, errors |-> <<Load!InvalidArgument>>]
    BY <2>1 DEF Load!LoadDiff
  <2>3. Load!SampleDiff.usage = <<>>
    BY <2>2 DEF Load!SampleDiff
  <2>4. Load!InvalidArgument \in Errors
    BY DEF Load!InvalidArgument, Errors
  <2> QED BY <2>2, <2>3, <2>4
<1> QED BY <1>6, <1>7

\* A report is right if its window is.
LEMMA ReportIsRight ==
    ASSUME Load!Assumption, LoadTypes, WindowIsShort,
           SampleIsOf(start, was.ticks, was.memory), SampleIsOf(end, ticks, memory),
           load_report' = Load!SampleDiff, UNCHANGED <<ticks, memory, start, end, was>>
    PROVE  Load!UsageIsExact' /\ Load!MemoryIsOfTheEnd' /\ Load!ErrorsMatchFailures'
<1> DEFINE usage == load_report'.usage
<1>1. Load!UsageIsExact'
  <2>1. CASE ~ Load!Failed(start) /\ ~ Load!Failed(end)
    <3>1. /\ usage \in Seq(Shares) /\ Len(usage) = Cores /\ usage # <<>>
          /\ \A c \in 1..Cores :
                LET s == SpentBy(c)
                IN /\ usage[c] = << s["user"] + s["system"],
                                    s["user"] + s["system"] + s["idle"] + s["nice"] >>
                   /\ usage[c][1] <= usage[c][2]
      BY <2>1, UsageOfWindow
    <3>2. load_report'.cpu_usage = Load!CpuUsage(usage)
      BY DEF Load!SampleDiff
    <3> HIDE DEF usage
    <3>3. LET mean == load_report'.cpu_usage
          IN Load!NotANumber(mean) \/ (0 <= mean[1] /\ mean[1] <= mean[2])
      BY <3>1, <3>2, CpuUsageIsShare
    <3> QED BY <3>1, <3>3 DEF Load!UsageIsExact, Load!Crossed, Load!ToInt, Load!NotANumber, SpentBy, usage
  <2>2. CASE Load!Failed(start) \/ Load!Failed(end)
    BY <2>2 DEF Load!UsageIsExact, Load!Failed
  <2> QED BY <2>1, <2>2
<1>2. Load!MemoryIsOfTheEnd'
  <2> DEFINE s == end.stats
             total == s.wire + s.active + s.inactive + s.free + s.compressor
  <2>1. /\ load_report'.total = total
        /\ load_report'.used = IF total > 0 THEN s.wire + s.active ELSE 0
        /\ load_report'.available = IF total > 0 THEN s.free + s.inactive + s.compressor ELSE 0
        /\ load_report'.free = IF total > 0 THEN s.free ELSE 0
    BY DEF Load!SampleDiff, Load!MemDiff
  <2>2. CASE end.mem_errors # <<>>
    <3>1. s = Load!NoSample.stats
      BY <2>2 DEF SampleIsOf
    <3>2. s.wire = 0 /\ s.active = 0 /\ s.inactive = 0 /\ s.free = 0 /\ s.compressor = 0
      BY <3>1 DEF Load!NoSample, Load!Pages
    <3>3. total = 0
      BY <3>2
    <3> QED BY <2>1, <2>2, <3>3 DEF Load!MemoryIsOfTheEnd
  <2>3. CASE end.mem_errors = <<>>
    <3>1. s = memory
      BY <2>3 DEF SampleIsOf
    <3>2. /\ memory.wire \in Nat /\ memory.active \in Nat /\ memory.inactive \in Nat
          /\ memory.free \in Nat /\ memory.compressor \in Nat
      BY DEF LoadTypes, Load!Pages
    <3>3. /\ load_report'.used + load_report'.available = load_report'.total
          /\ load_report'.used = memory.wire + memory.active
          /\ load_report'.free = memory.free
          /\ load_report'.free <= load_report'.available
      <4> DEFINE w == memory.wire
                 a == memory.active
                 i == memory.inactive
                 f == memory.free
                 c == memory.compressor
                 r == load_report'
      <4>1. w \in Nat /\ a \in Nat /\ i \in Nat /\ f \in Nat /\ c \in Nat
        BY <3>2
      <4>2. /\ r.total = w + a + i + f + c
            /\ r.used = IF w + a + i + f + c > 0 THEN w + a ELSE 0
            /\ r.available = IF w + a + i + f + c > 0 THEN f + i + c ELSE 0
            /\ r.free = IF w + a + i + f + c > 0 THEN f ELSE 0
        BY <2>1, <3>1
      <4> HIDE DEF w, a, i, f, c, r
      <4>3. CASE w + a + i + f + c > 0
        <5>1. r.used + r.available = r.total /\ r.used = w + a /\ r.free = f /\ r.free <= r.available
          BY <4>1, <4>2, <4>3
        <5> QED BY <5>1 DEF w, a, f, r
      <4>4. CASE ~ (w + a + i + f + c > 0)
        <5>1. w = 0 /\ a = 0 /\ i = 0 /\ f = 0 /\ c = 0
          BY <4>1, <4>4
        <5>2. r.used + r.available = r.total /\ r.used = w + a /\ r.free = f /\ r.free <= r.available
          BY <4>2, <5>1
        <5> QED BY <5>2 DEF w, a, f, r
      <4> QED BY <4>3, <4>4
    <3> QED BY <2>3, <3>3 DEF Load!MemoryIsOfTheEnd
  <2> QED BY <2>2, <2>3
<1>3. Load!ErrorsMatchFailures'
  <2> DEFINE load == Load!LoadDiff.errors
             mem == start.mem_errors \o end.mem_errors
  <2>1. load_report'.errors = load \o mem
    BY DEF Load!SampleDiff, Load!MemDiff
  <2>2. /\ start.load_errors \in Seq(Errors) /\ end.load_errors \in Seq(Errors)
        /\ start.mem_errors \in Seq(Errors) /\ end.mem_errors \in Seq(Errors)
    BY DEF SampleIsOf
  <2>3. mem \in Seq(Errors)
    BY <2>2, NoErrors
  <2>4. CASE ~ Load!Failed(start) /\ ~ Load!Failed(end)
    <3>1. usage # <<>>
      BY <2>4, UsageOfWindow
    <3>2. Len(start.loads) = Len(end.loads)
      <4>1. was.ticks \in Counters /\ ticks \in Counters
        BY DEF LoadTypes
      <4>2. Len(start.loads) = Cores
        BY <2>4, <4>1, LoadsOfSample
      <4>3. Len(end.loads) = Cores
        BY <2>4, <4>1, LoadsOfSample
      <4> QED BY <4>2, <4>3
    <3>3. load = start.load_errors \o end.load_errors
      BY <3>2 DEF Load!LoadDiff
    <3>4. load \in Seq(Errors)
      BY <2>2, <3>3, NoErrors
    <3> HIDE DEF load, mem
    <3>5. load \o mem = <<>> <=> load = <<>> /\ mem = <<>>
      BY <2>3, <3>4, NoErrors
    <3> QED BY <2>1, <2>4, <3>1, <3>3, <3>5 DEF Load!ErrorsMatchFailures, Load!Failed, mem
  <2>5. CASE Load!Failed(start) \/ Load!Failed(end)
    <3>1. usage = <<>> /\ load \in Seq(Errors) /\ load # <<>>
      BY <2>5, UsageOfNothing
    <3>2. start.load_errors \o end.load_errors # <<>>
      BY <2>2, <2>5, NoErrors DEF Load!Failed
    <3> HIDE DEF load, mem
    <3>3. load \o mem # <<>>
      BY <2>3, <3>1, NoErrors
    <3> QED BY <2>1, <2>5, <3>1, <3>2, <3>3 DEF Load!ErrorsMatchFailures, Load!Failed
  <2> QED BY <2>4, <2>5
<1> QED BY <1>1, <1>2, <1>3

\* Nothing is reported at the other steps.
LEMMA NothingReported ==
    ASSUME ~ (load_pc' = "next" /\ taken' > 1)
    PROVE  Load!UsageIsExact' /\ Load!MemoryIsOfTheEnd' /\ Load!ErrorsMatchFailures'
  BY DEF Load!UsageIsExact, Load!MemoryIsOfTheEnd, Load!ErrorsMatchFailures, Load!Reported

LEMMA InitLoadInv == Load!Assumption /\ Load!Init => LoadInv
<1> SUFFICES ASSUME Load!Assumption, Load!Init PROVE LoadInv
  OBVIOUS
<1>1. PICK n \in Uptimes : ticks = [c \in 1..Cores |-> [k \in Load!Kinds |-> n]]
  BY DEF Load!Init
<1>2. n \in Nat
  BY DEF Load!Assumption
<1>3. ticks \in Counters
  BY <1>1, <1>2 DEF Counters
<1>4. /\ memory \in [Load!Pages -> Nat] /\ taken = 0 /\ load_pc = "sample" /\ was.ticks = ticks
  BY DEF Load!Init, Load!Assumption
<1>5. LoadTypes
  BY <1>3, <1>4 DEF LoadTypes
<1>6. WindowIsShort
  BY <1>3, <1>4 DEF WindowIsShort, Counters, Load!Assumption
<1>7. Ends
  BY <1>4 DEF Ends
<1>8. Load!UsageIsExact /\ Load!MemoryIsOfTheEnd /\ Load!ErrorsMatchFailures
  BY <1>4 DEF Load!UsageIsExact, Load!MemoryIsOfTheEnd, Load!ErrorsMatchFailures, Load!Reported
<1> QED BY <1>5, <1>6, <1>7, <1>8 DEF LoadInv

LEMMA LoadKeepsInv == Load!Assumption /\ LoadInv /\ Load!Next => LoadInv'
<1> SUFFICES ASSUME Load!Assumption, LoadInv, Load!Next PROVE LoadInv'
  OBVIOUS
<1>1. LoadTypes /\ WindowIsShort /\ Ends
  BY DEF LoadInv
<1>2. CASE Load!Work
  <2>1. load_pc = "work" /\ load_pc' = "sample" /\ UNCHANGED <<taken, start, end, load_report, was>>
    BY <1>2 DEF Load!Work
  <2>2. PICK load \in [1..Cores -> Loads] :
           ticks' = [c \in 1..Cores |-> [k \in Load!Kinds |-> ticks[c][k] + load[c][k]]]
    BY <1>2 DEF Load!Work
  <2>3. ASSUME NEW c \in 1..Cores, NEW k \in Load!Kinds
        PROVE  /\ ticks'[c][k] = ticks[c][k] + load[c][k]
               /\ ticks[c][k] \in Nat /\ load[c][k] \in Nat /\ load[c][k] < 2 * Half
    <3>1. load[c] \in Loads
      OBVIOUS
    <3>2. load[c][k] \in Nat /\ load[c][k] < 2 * Half
      BY <3>1 DEF Load!Assumption
    <3>3. ticks[c][k] \in Nat
      BY <1>1 DEF LoadTypes, Counters
    <3> QED BY <2>2, <3>2, <3>3
  <2>4. ticks' \in Counters
    <3>1. \A c \in 1..Cores : \A k \in Load!Kinds : ticks[c][k] + load[c][k] \in Nat
      BY <2>3
    <3> QED BY <2>2, <3>1 DEF Counters
  <2>5. memory' \in [Load!Pages -> Nat]
    BY <1>2 DEF Load!Work, Load!Assumption
  <2>6. LoadTypes'
    BY <1>1, <2>1, <2>4, <2>5 DEF LoadTypes
  <2>7. WindowIsShort'
    <3>1. was.ticks = ticks /\ was' = was
      BY <1>1, <2>1 DEF Ends
    <3>2. Half \in Nat
      BY DEF Load!Assumption
    <3> SUFFICES ASSUME NEW c \in 1..Cores, NEW k \in Load!Kinds
                 PROVE  was.ticks[c][k] <= ticks'[c][k] /\ ticks'[c][k] - was.ticks[c][k] < 2 * Half
      BY <3>1 DEF WindowIsShort
    <3> DEFINE m == ticks[c][k]
               n == load[c][k]
    <3>3. m \in Nat /\ n \in Nat /\ n < 2 * Half /\ was.ticks[c][k] = m /\ ticks'[c][k] = m + n
      BY <2>3, <3>1
    <3> HIDE DEF m, n
    <3>4. m <= m + n /\ (m + n) - m < 2 * Half
      BY <3>2, <3>3
    <3> QED BY <3>3, <3>4
  <2>8. Ends'
    BY <1>1, <2>1 DEF Ends, SampleIsOf
  <2> QED BY <2>1, <2>6, <2>7, <2>8, NothingReported DEF LoadInv
<1>3. CASE Load!Sample
  <2>1. /\ load_pc = "sample" /\ taken' = taken + 1
        /\ load_pc' = (IF taken = 0 THEN "next" ELSE "diff")
        /\ UNCHANGED <<ticks, memory, start, load_report, was>>
    BY <1>3 DEF Load!Sample
  <2>2. PICK load_error \in {<<>>, << << "load", taken + 1 >> >>},
             mem_error \in {<<>>, << << "memory", taken + 1 >> >>} :
           end' = [loads |-> Load!LoadSample(load_error), load_errors |-> load_error,
                   stats |-> Load!MemSample(mem_error), mem_errors |-> mem_error]
    BY <1>3 DEF Load!Sample
  <2>3. taken \in Nat
    BY <1>1 DEF LoadTypes
  <2>4. load_error \in Seq(Errors) /\ mem_error \in Seq(Errors)
    <3>1. << "load", taken + 1 >> \in Errors /\ << "memory", taken + 1 >> \in Errors
      BY <2>3 DEF Errors
    <3> DEFINE l == << "load", taken + 1 >>
               m == << "memory", taken + 1 >>
    <3>2. l \in Errors /\ m \in Errors
      BY <3>1
    <3>3. load_error \in {<<>>, << l >>} /\ mem_error \in {<<>>, << m >>}
      BY <2>2
    <3> HIDE DEF l, m
    <3>4. << l >> \in Seq(Errors) /\ << m >> \in Seq(Errors) /\ <<>> \in Seq(Errors)
      BY <3>2, ErrorsOfOne
    <3> QED BY <3>3, <3>4
  <2>5. SampleIsOf(end', ticks', memory')
    BY <2>1, <2>2, <2>4 DEF SampleIsOf, Load!LoadSample, Load!MemSample
  <2>6. LoadTypes' /\ WindowIsShort'
    BY <1>1, <2>1, <2>3 DEF LoadTypes, WindowIsShort
  <2>7. taken > 0 => SampleIsOf(start, was.ticks, was.memory)
    BY <1>1, <2>1 DEF Ends
  <2>8. SampleIsOf(start, was.ticks, was.memory) => SampleIsOf(start', was.ticks', was.memory')
    BY <2>1 DEF SampleIsOf
  <2>9. Ends'
    BY <2>1, <2>3, <2>5, <2>7, <2>8 DEF Ends
  <2>10. ~ (load_pc' = "next" /\ taken' > 1)
    BY <2>1, <2>3
  <2> QED BY <2>6, <2>9, <2>10, NothingReported DEF LoadInv
<1>4. CASE Load!Diff
  <2>1. /\ load_pc = "diff" /\ load_pc' = "next" /\ load_report' = Load!SampleDiff
        /\ UNCHANGED <<ticks, memory, taken, start, end, was>>
    BY <1>4 DEF Load!Diff
  <2>2. SampleIsOf(start, was.ticks, was.memory) /\ SampleIsOf(end, ticks, memory) /\ taken > 1
    BY <1>1, <2>1 DEF Ends
  <2>3. LoadTypes' /\ WindowIsShort'
    BY <1>1, <2>1 DEF LoadTypes, WindowIsShort
  <2>4. SampleIsOf(start', was.ticks', was.memory') /\ SampleIsOf(end', ticks', memory')
    BY <2>1, <2>2 DEF SampleIsOf
  <2>5. Ends'
    BY <1>1, <2>1, <2>4 DEF Ends, LoadTypes
  <2>6. Load!UsageIsExact' /\ Load!MemoryIsOfTheEnd' /\ Load!ErrorsMatchFailures'
    BY <1>1, <2>1, <2>2, ReportIsRight
  <2> QED BY <2>3, <2>5, <2>6 DEF LoadInv
<1>5. CASE Load!NextWindow
  <2>1. /\ load_pc = "next" /\ load_pc' = "work" /\ start' = end
        /\ was' = [ticks |-> ticks, memory |-> memory]
        /\ UNCHANGED <<ticks, memory, taken, end>>
    BY <1>5 DEF Load!NextWindow
  <2>2. LoadTypes'
    BY <1>1, <2>1 DEF LoadTypes
  <2>3. WindowIsShort'
    BY <1>1, <2>1 DEF WindowIsShort, LoadTypes, Counters, Load!Assumption
  <2>4. SampleIsOf(end, ticks, memory) /\ taken > 0
    BY <1>1, <2>1 DEF Ends
  <2>5. SampleIsOf(start', was.ticks', was.memory') /\ was'.ticks = ticks'
    BY <2>1, <2>4 DEF SampleIsOf
  <2>6. Ends'
    BY <2>1, <2>4, <2>5 DEF Ends
  <2> QED BY <2>1, <2>2, <2>3, <2>6, NothingReported DEF LoadInv
<1>6. CASE Load!Done
  <2>1. load_pc' = "work" /\ UNCHANGED <<ticks, memory, taken, start, end, load_report, was, load_pc>>
    BY <1>6 DEF Load!Done, Load!vars
  <2>2. LoadTypes' /\ WindowIsShort' /\ Ends'
    BY <1>1, <2>1 DEF LoadTypes, WindowIsShort, Ends, SampleIsOf
  <2> QED BY <2>1, <2>2, NothingReported DEF LoadInv
<1> QED BY <1>2, <1>3, <1>4, <1>5, <1>6 DEF Load!Next

LEMMA OthersKeepLoadInv == LoadInv /\ UNCHANGED load_vars => LoadInv'
<1> SUFFICES ASSUME LoadInv, UNCHANGED load_vars PROVE LoadInv'
  OBVIOUS
<1>1. UNCHANGED <<ticks, memory, taken, start, end, load_report, was, load_pc>>
  BY DEF load_vars
<1>2. LoadTypes' /\ WindowIsShort' /\ Ends'
  BY <1>1 DEF LoadInv, LoadTypes, WindowIsShort, Ends, SampleIsOf
<1>3. Load!UsageIsExact'
  BY <1>1 DEF LoadInv, Load!UsageIsExact, Load!Reported, Load!Failed, Load!Crossed, Load!ToInt, Load!NotANumber
<1>4. Load!MemoryIsOfTheEnd' /\ Load!ErrorsMatchFailures'
  BY <1>1 DEF LoadInv, Load!MemoryIsOfTheEnd, Load!ErrorsMatchFailures, Load!Reported, Load!Failed
<1> QED BY <1>2, <1>3, <1>4 DEF LoadInv

LEMMA LoadInvariance == MCSpec => []LoadInv
<1>1. MCInit => LoadInv
  BY InitLoadInv, ReadersAssumption DEF MCInit, LoadRests
<1>2. LoadInv /\ [MCNext]_<<at_work, vars, smc_vars, load_vars, io_vars>> => LoadInv'
  BY LoadKeepsInv, OthersKeepLoadInv, ReadersAssumption DEF MCNext
<1> QED BY <1>1, <1>2, PTL DEF MCSpec

\* The usage of each core is the share of the ticks it spent in the window, but
\* for the kinds whose counter changed its sign, the mean of the cores is a share
\* or not a number, and the memory is that of the window's end: for any number
\* of cores, any counters and any windows shorter than a wrap.
THEOREM LoadAndMemoryStayExact == MCSpec => []LoadAndMemoryAreExact
<1>1. LoadInv => LoadAndMemoryAreExact
  BY DEF LoadInv, LoadAndMemoryAreExact, Load!LoadAndMemoryAreExact
<1> QED BY <1>1, LoadInvariance, PTL

\* A report has no usage exactly if the load was not read at an end of its
\* window, and errors exactly if a call failed there, whichever calls fail and
\* in whichever windows.
THEOREM ErrorsMatchTheFailures == MCSpec => []ErrorsMatchFailures
<1>1. LoadInv => ErrorsMatchFailures
  BY DEF LoadInv, ErrorsMatchFailures
<1> QED BY <1>1, LoadInvariance, PTL

-----------------------------------------------------------------------------
(***************************************************************************)
(* The frequencies.  Both the code's loop over the states of a channel and *)
(* the mean it is compared with are folds.                                 *)
(***************************************************************************)
States == [name : {Io!Idle, Io!Down, Io!Off} \cup Nat, ticks : Nat]
Fractions == Nat \X Nat

\* What the loop of calculate_freq keeps.
Weights == [sum : Nat, ticks : Nat, next : Nat \ {0}]
NoWeight == [sum |-> 0, ticks |-> 0, next |-> 1]

LEMMA WeightedSum ==
    ASSUME NEW a \in Nat, NEW b \in Nat, NEW c \in Nat
    PROVE  a + b * c \in Nat
OBVIOUS

LEMMA WeighKeepsWeights ==
    ASSUME NEW list \in Seq(Nat), NEW f \in Weights, NEW st \in States
    PROVE  Io!WeighState(list, f, st) \in Weights
<1> DEFINE k == f.next
           t == st.ticks
<1>1. k \in Nat \ {0} /\ t \in Nat /\ f.sum \in Nat /\ f.ticks \in Nat /\ Len(list) \in Nat
  BY DEF Weights, States
<1>2. ASSUME k <= Len(list) PROVE list[k] \in Nat
  BY <1>1, <1>2
<1>3. ASSUME ~ (~ Io!Active(st) \/ k > Len(list))
      PROVE  [sum |-> f.sum + t * list[k], ticks |-> f.ticks + t, next |-> k + 1] \in Weights
  <2>1. list[k] \in Nat
    BY <1>1, <1>2, <1>3
  <2> DEFINE x == list[k]
             a == f.sum + t * x
  <2>2. a \in Nat
    <3>1. f.sum \in Nat /\ t \in Nat /\ x \in Nat
      BY <1>1, <2>1
    <3> HIDE DEF x, t
    <3> QED BY <3>1, WeightedSum
  <2> HIDE DEF a, k, t
  <2>3. [sum |-> a, ticks |-> f.ticks + t, next |-> k + 1] \in Weights
    BY <1>1, <2>2 DEF Weights
  <2> QED BY <2>3 DEF a
<1> QED BY <1>3 DEF Io!WeighState

LEMMA AddKeepsFractions ==
    ASSUME NEW clock \in Seq(Nat), NEW f \in Fractions, NEW st \in States
    PROVE  Io!AddState(clock, f, st) \in Fractions
<1> DEFINE k == st.name + 1
           t == st.ticks
<1>1. t \in Nat /\ f[1] \in Nat /\ f[2] \in Nat /\ Len(clock) \in Nat
  BY DEF Fractions, States
<1>2. ASSUME st.name \in 0..(Len(clock) - 1)
      PROVE  << f[1] + t * clock[k], f[2] + t >> \in Fractions
  <2>1. clock[k] \in Nat
    BY <1>1, <1>2
  <2> DEFINE x == clock[k]
  <2>2. x \in Nat
    BY <2>1
  <2> DEFINE a == f[1]
             b == f[2]
  <2>3. a + t * x \in Nat /\ b + t \in Nat
    <3>1. a \in Nat /\ b \in Nat /\ t \in Nat
      BY <1>1
    <3> HIDE DEF a, b, x, t
    <3>2. a + t * x \in Nat
      BY <2>2, <3>1, WeightedSum
    <3> QED BY <3>1, <3>2
  <2> QED BY <2>3 DEF x, Fractions
<1> QED BY <1>2 DEF Io!AddState

\* What the loop of calculate_freq comes to, given what each prefix comes to.
LEMMA CalculateFreqIs ==
    ASSUME NEW item, item.states \in Seq(States), NEW list \in Seq(Nat), NEW acc,
           acc[0] = NoWeight, \A i \in 1..Len(item.states) : acc[i] = Io!WeighState(list, acc[i - 1], item.states[i])
    PROVE  Io!CalculateFreq(item, list) = << acc[Len(item.states)].sum, acc[Len(item.states)].ticks >>
<1> DEFINE n == Len(item.states)
           none == NoWeight
           step == [i \in 1..n |-> [v \in Weights |-> Io!WeighState(list, v, item.states[i])]]
           Body(f) == [t \in SUBSET DOMAIN item.states |->
                          IF t = {} THEN none ELSE Io!WeighState(list, f[t \ {Max(t)}], item.states[Max(t)])]
           fold == CHOOSE f : f = Body(f)
<1>1. n \in Nat /\ DOMAIN item.states = 1..n /\ none \in Weights
  BY DEF Weights, NoWeight
<1>2. step \in [1..n -> [Weights -> Weights]]
  BY WeighKeepsWeights
<1>3. PICK iter \in [SUBSET (1..n) -> Weights] : Iterates(iter, n, none, step)
  <2> HIDE DEF step, none
  <2> QED BY <1>1, <1>2, IterationExists
<1> HIDE DEF none
<1>4. iter = Body(iter)
  <2>1. ASSUME NEW t \in SUBSET (1..n)
        PROVE  iter[t] = IF t = {} THEN none ELSE Io!WeighState(list, iter[t \ {Max(t)}], item.states[Max(t)])
    <3>1. CASE t = {}
      BY <1>3, <3>1 DEF Iterates
    <3>2. CASE t # {}
      <4>1. Max(t) \in 1..n
        BY <1>1, <3>2, MaxOfIndices
      <4>2. iter[t \ {Max(t)}] \in Weights
        OBVIOUS
      <4>3. iter[t] = step[Max(t)][iter[t \ {Max(t)}]]
        BY <1>3, <3>2 DEF Iterates
      <4> QED BY <3>2, <4>1, <4>2, <4>3
    <3> QED BY <3>1, <3>2
  <2> QED BY <1>1, <2>1
<1>5. fold = Body(fold)
  <2> HIDE DEF Body
  <2> QED BY <1>4
<1>6. fold[{}] = none
  BY <1>5
<1>7. \A i \in 1..n : fold[1..i] = Io!WeighState(list, fold[1..(i - 1)], item.states[i])
  <2> SUFFICES ASSUME NEW i \in 1..n PROVE fold[1..i] = Io!WeighState(list, fold[1..(i - 1)], item.states[i])
    OBVIOUS
  <2>1. 1..i # {} /\ 1..i \in SUBSET (1..n) /\ Max(1..i) = i /\ (1..i) \ {i} = 1..(i - 1)
    BY <1>1, MaxOfPrefix
  <2>2. fold[1..i] = Body(fold)[1..i]
    BY <1>5
  <2> HIDE DEF fold
  <2> QED BY <1>1, <2>1, <2>2
<1>8. Io!CalculateFreq(item, list) = << fold[DOMAIN item.states].sum, fold[DOMAIN item.states].ticks >>
  BY DEF Io!CalculateFreq, NoWeight, none, Io!FoldLeft, Io!MapThenFoldSet, Io!Max, Max
<1>9. fold[1..n] = acc[n]
  <2>1. fold[{}] = acc[0]
    BY <1>6 DEF none
  <2>2. \A i \in 1..n : fold[1..(i - 1)] = acc[i - 1] => fold[1..i] = acc[i]
    BY <1>7
  <2>3. Follows(fold, acc, n)
    <3> HIDE DEF fold
    <3> QED BY <2>1, <2>2 DEF Follows
  <2> HIDE DEF fold, n, step, Body
  <2> QED BY <1>1, <2>3, PrefixInduction
<1> QED BY <1>1, <1>8, <1>9

\* What the mean clock comes to.
LEMMA MeanClockIs ==
    ASSUME NEW item, item.states \in Seq(States), Io!ClockOf(item) \in Seq(Nat), NEW acc,
           acc[0] = << 0, 0 >>, \A i \in 1..Len(item.states) : acc[i] = Io!AddState(Io!ClockOf(item), acc[i - 1], item.states[i])
    PROVE  Io!MeanClock(item) = acc[Len(item.states)]
<1> DEFINE n == Len(item.states)
           none == << 0, 0 >>
           step == [i \in 1..n |-> [v \in Fractions |-> Io!AddState(Io!ClockOf(item), v, item.states[i])]]
           Body(f) == [t \in SUBSET DOMAIN item.states |->
                          IF t = {} THEN none ELSE Io!AddState(Io!ClockOf(item), f[t \ {Max(t)}], item.states[Max(t)])]
           fold == CHOOSE f : f = Body(f)
<1>1. n \in Nat /\ DOMAIN item.states = 1..n /\ none \in Fractions
  BY DEF Fractions
<1>2. step \in [1..n -> [Fractions -> Fractions]]
  BY AddKeepsFractions
<1>3. PICK iter \in [SUBSET (1..n) -> Fractions] : Iterates(iter, n, none, step)
  <2> HIDE DEF step, none
  <2> QED BY <1>1, <1>2, IterationExists
<1> HIDE DEF none
<1>4. iter = Body(iter)
  <2>1. ASSUME NEW t \in SUBSET (1..n)
        PROVE  iter[t] = IF t = {} THEN none ELSE Io!AddState(Io!ClockOf(item), iter[t \ {Max(t)}], item.states[Max(t)])
    <3>1. CASE t = {}
      BY <1>3, <3>1 DEF Iterates
    <3>2. CASE t # {}
      <4>1. Max(t) \in 1..n
        BY <1>1, <3>2, MaxOfIndices
      <4>2. iter[t \ {Max(t)}] \in Fractions
        OBVIOUS
      <4>3. iter[t] = step[Max(t)][iter[t \ {Max(t)}]]
        BY <1>3, <3>2 DEF Iterates
      <4> QED BY <3>2, <4>1, <4>2, <4>3
    <3> QED BY <3>1, <3>2
  <2> QED BY <1>1, <2>1
<1>5. fold = Body(fold)
  <2> HIDE DEF Body
  <2> QED BY <1>4
<1>6. fold[{}] = none
  BY <1>5
<1>7. \A i \in 1..n : fold[1..i] = Io!AddState(Io!ClockOf(item), fold[1..(i - 1)], item.states[i])
  <2> SUFFICES ASSUME NEW i \in 1..n PROVE fold[1..i] = Io!AddState(Io!ClockOf(item), fold[1..(i - 1)], item.states[i])
    OBVIOUS
  <2>1. 1..i # {} /\ 1..i \in SUBSET (1..n) /\ Max(1..i) = i /\ (1..i) \ {i} = 1..(i - 1)
    BY <1>1, MaxOfPrefix
  <2>2. fold[1..i] = Body(fold)[1..i]
    BY <1>5
  <2> HIDE DEF fold
  <2> QED BY <1>1, <2>1, <2>2
<1>8. Io!MeanClock(item) = fold[DOMAIN item.states]
  BY DEF Io!MeanClock, none, Io!FoldLeft, Io!MapThenFoldSet, Io!Max, Max
<1>9. fold[1..n] = acc[n]
  <2>1. fold[{}] = acc[0]
    BY <1>6 DEF none
  <2>2. \A i \in 1..n : fold[1..(i - 1)] = acc[i - 1] => fold[1..i] = acc[i]
    BY <1>7
  <2>3. Follows(fold, acc, n)
    <3> HIDE DEF fold
    <3> QED BY <2>1, <2>2 DEF Follows
  <2> HIDE DEF fold, n, step, Body
  <2> QED BY <1>1, <2>3, PrefixInduction
<1> QED BY <1>1, <1>8, <1>9

\* The active states among the first i, and how many they are.
Runs(s, i) == {j \in 1..i : s[j].name >= 0}
RunsOf(s, i) == Cardinality(Runs(s, i))

\* The states of a channel, numbered in the order of their clocks.
LEMMA StatesOf ==
    ASSUME Io!Assumption, NEW item \in Channels
    PROVE  /\ item.states \in Seq(States)
           /\ \A i \in 1..Len(item.states) :
                 item.states[i].name >= 0 => item.states[i].name = RunsOf(item.states, i - 1)
<1> DEFINE s == item.states
           Numbered(i) == s[i].name >= 0 => s[i].name = RunsOf(s, i - 1)
<1>1. s \in Seq(States)
  BY DEF Io!Assumption, States
<1>2. DOMAIN s = 1..Len(s)
  BY <1>1
<1>3. \A i \in DOMAIN s : Numbered(i)
  BY DEF Io!Assumption, RunsOf, Runs, Io!Cardinality, Cardinality
<1> HIDE DEF Numbered
<1>4. \A i \in 1..Len(s) : Numbered(i)
  BY <1>2, <1>3
<1> QED BY <1>1, <1>4 DEF Numbered

\* One more state is one more active one or none.
LEMMA RunsGrow ==
    ASSUME NEW s, NEW i \in Nat
    PROVE  /\ RunsOf(s, 0) = 0 /\ RunsOf(s, i) \in Nat
           /\ RunsOf(s, i + 1) = IF s[i + 1].name >= 0 THEN RunsOf(s, i) + 1 ELSE RunsOf(s, i)
<1>1. RunsOf(s, 0) = 0
  <2>1. Runs(s, 0) = {}
    BY DEF Runs
  <2> QED BY <2>1, FS_EmptySet DEF RunsOf
<1>2. IsFiniteSet(Runs(s, i)) /\ RunsOf(s, i) \in Nat
  <2>1. IsFiniteSet(1..i) /\ Runs(s, i) \in SUBSET (1..i)
    BY FS_Interval DEF Runs
  <2>2. IsFiniteSet(Runs(s, i))
    BY <2>1, FS_Subset
  <2> QED BY <2>2, FS_CardinalityType DEF RunsOf
<1>3. CASE s[i + 1].name >= 0
  <2>1. Runs(s, i + 1) = Runs(s, i) \cup {i + 1} /\ i + 1 \notin Runs(s, i)
    BY <1>3 DEF Runs
  <2>2. Cardinality(Runs(s, i) \cup {i + 1}) = Cardinality(Runs(s, i)) + 1
    BY <1>2, <2>1, FS_AddElement
  <2> QED BY <1>1, <1>2, <1>3, <2>1, <2>2 DEF RunsOf
<1>4. CASE ~ (s[i + 1].name >= 0)
  <2>1. Runs(s, i + 1) = Runs(s, i)
    BY <1>4 DEF Runs
  <2> QED BY <1>1, <1>2, <1>4, <2>1 DEF RunsOf
<1> QED BY <1>3, <1>4

\* The place in the list after k active states.
Place(list, k) == IF k <= Len(list) THEN k + 1 ELSE Len(list) + 1

\* The loop and the mean take a state alike if k is the number of the active ones
\* before it.
LEMMA TurnsAgree ==
    ASSUME NEW list \in Seq(Nat), NEW st \in States, NEW w \in Weights, NEW m \in Fractions, NEW k \in Nat,
           w.sum = m[1], w.ticks = m[2], w.next = Place(list, k), st.name >= 0 => st.name = k
    PROVE  /\ Io!WeighState(list, w, st).sum = Io!AddState(list, m, st)[1]
           /\ Io!WeighState(list, w, st).ticks = Io!AddState(list, m, st)[2]
           /\ Io!WeighState(list, w, st).next = Place(list, IF st.name >= 0 THEN k + 1 ELSE k)
<1>1. Len(list) \in Nat /\ st.name \in {-1, -2, -3} \cup Nat
  BY DEF States, Io!Idle, Io!Down, Io!Off
<1>2. Io!Active(st) <=> st.name >= 0
  BY <1>1 DEF Io!Active, Io!Idle, Io!Down, Io!Off
<1>3. CASE ~ (st.name >= 0)
  <2>1. st.name \notin 0..(Len(list) - 1)
    BY <1>1, <1>3
  <2>2. Io!WeighState(list, w, st) = w /\ Io!AddState(list, m, st) = m
    BY <1>2, <1>3, <2>1 DEF Io!WeighState, Io!AddState
  <2> QED BY <1>3, <2>2
<1>4. CASE st.name >= 0 /\ k < Len(list)
  <2>1. st.name = k /\ w.next = k + 1 /\ ~ (k + 1 > Len(list)) /\ k \in 0..(Len(list) - 1)
    BY <1>1, <1>4 DEF Place
  <2>2. Io!WeighState(list, w, st) =
           [sum |-> w.sum + st.ticks * list[k + 1], ticks |-> w.ticks + st.ticks, next |-> (k + 1) + 1]
    BY <1>2, <1>4, <2>1 DEF Io!WeighState
  <2>3. Io!AddState(list, m, st) = << m[1] + st.ticks * list[k + 1], m[2] + st.ticks >>
    BY <2>1 DEF Io!AddState
  <2>4. Place(list, k + 1) = (k + 1) + 1
    BY <1>1, <1>4 DEF Place
  <2> QED BY <1>4, <2>2, <2>3, <2>4
<1>5. CASE st.name >= 0 /\ ~ (k < Len(list))
  <2>1. st.name = k /\ w.next = Len(list) + 1 /\ Len(list) + 1 > Len(list) /\ k \notin 0..(Len(list) - 1)
    BY <1>1, <1>5 DEF Place
  <2>2. Io!WeighState(list, w, st) = w /\ Io!AddState(list, m, st) = m
    BY <1>2, <1>5, <2>1 DEF Io!WeighState, Io!AddState
  <2>3. Place(list, k + 1) = Len(list) + 1
    BY <1>1, <1>5 DEF Place
  <2> QED BY <1>5, <2>1, <2>2, <2>3
<1> QED BY <1>3, <1>4, <1>5

LEMMA ClockOfChannel ==
    ASSUME Io!Assumption, NEW item \in Channels, item.group \in {"cpu_stats", "gpu_stats"}
    PROVE  Io!ClockOf(item) \in Seq(Nat)
<1>1. item.device \in {"e_cpu_core", "p_cpu_core", "gpu"}
  BY DEF Io!Assumption
<1>2. Clocks.e \in Seq(Nat) /\ Clocks.p \in Seq(Nat) /\ Clocks.gpu \in Seq(Nat)
  BY DEF Io!Assumption
<1> QED BY <1>1, <1>2 DEF Io!ClockOf

\* What calculate_freq makes of a channel and its clocks is their mean.
LEMMA FreqIsMean ==
    ASSUME Io!Assumption, NEW item \in Channels, item.group \in {"cpu_stats", "gpu_stats"}
    PROVE  /\ Io!CalculateFreq(item, Io!ClockOf(item)) = Io!MeanClock(item)
           /\ Io!MeanClock(item) \in Fractions
<1> DEFINE s == item.states
           n == Len(s)
           list == Io!ClockOf(item)
           zero == << 0, 0 >>
           weigh == [i \in 1..n |-> [v \in Weights |-> Io!WeighState(list, v, s[i])]]
           add == [i \in 1..n |-> [v \in Fractions |-> Io!AddState(list, v, s[i])]]
           k(i) == RunsOf(s, i)
<1>1. /\ s \in Seq(States) /\ n \in Nat /\ list \in Seq(Nat)
      /\ \A i \in 1..n : s[i].name >= 0 => s[i].name = k(i - 1)
  BY StatesOf, ClockOfChannel
<1>2. \A i \in 1..n : s[i] \in States
  BY <1>1
<1>3. NoWeight \in Weights /\ zero \in Fractions
  BY DEF NoWeight, Weights, Fractions
<1>4. weigh \in [1..n -> [Weights -> Weights]]
  <2> HIDE DEF list, s
  <2> QED BY <1>1, <1>2, WeighKeepsWeights
<1>5. add \in [1..n -> [Fractions -> Fractions]]
  <2> HIDE DEF list, s
  <2> QED BY <1>1, <1>2, AddKeepsFractions
<1>6. PICK w \in [0..n -> Weights] : Accumulates(w, n, NoWeight, weigh)
  <2> HIDE DEF weigh
  <2> QED BY <1>1, <1>3, <1>4, AccumulationExists
<1>7. PICK m \in [0..n -> Fractions] : Accumulates(m, n, zero, add)
  <2> HIDE DEF add, zero
  <2> QED BY <1>1, <1>3, <1>5, AccumulationExists
<1>8. \A i \in 1..n : i - 1 \in 0..n /\ w[i - 1] \in Weights /\ m[i - 1] \in Fractions
  <2>1. \A i \in 1..n : i - 1 \in 0..n
    BY <1>1
  <2> QED BY <2>1
<1>9. w[0] = NoWeight /\ \A i \in 1..n : w[i] = Io!WeighState(list, w[i - 1], s[i])
  <2> HIDE DEF s, list
  <2> QED BY <1>6, <1>8 DEF Accumulates
<1>10. m[0] = zero /\ \A i \in 1..n : m[i] = Io!AddState(list, m[i - 1], s[i])
  <2> HIDE DEF s, list, zero
  <2> QED BY <1>7, <1>8 DEF Accumulates
<1> HIDE DEF weigh, add
<1>11. Io!CalculateFreq(item, list) = << w[n].sum, w[n].ticks >>
  BY <1>1, <1>9, CalculateFreqIs
<1>12. Io!MeanClock(item) = m[n]
  BY <1>1, <1>10, MeanClockIs
<1> DEFINE P(i) == w[i].sum = m[i][1] /\ w[i].ticks = m[i][2] /\ w[i].next = Place(list, k(i))
           S == {i \in Nat : i <= n => P(i)}
<1>13. P(0)
  <2>2. k(0) = 0
    BY RunsGrow
  <2> HIDE DEF k
  <2>3. Place(list, 0) = 1
    BY <1>1 DEF Place
  <2> QED BY <1>9, <1>10, <2>2, <2>3 DEF NoWeight
<1>14. ASSUME NEW i \in Nat, i + 1 <= n, P(i) PROVE P(i + 1)
  <2> DEFINE st == s[i + 1]
  <2>1. i + 1 \in 1..n /\ i \in 0..n /\ (i + 1) - 1 = i
    BY <1>1, <1>14
  <2>2. w[i + 1] = Io!WeighState(list, w[i], st) /\ m[i + 1] = Io!AddState(list, m[i], st)
    <3> HIDE DEF s, list
    <3> QED BY <1>9, <1>10, <2>1
  <2>3. st \in States /\ w[i] \in Weights /\ m[i] \in Fractions /\ (st.name >= 0 => st.name = k(i))
    <3> HIDE DEF k, s
    <3> QED BY <1>1, <1>2, <2>1
  <2>4. k(i) \in Nat
    BY RunsGrow
  <2>5. k(i + 1) = IF st.name >= 0 THEN k(i) + 1 ELSE k(i)
    BY RunsGrow
  <2> HIDE DEF k, st, list
  <2>6. /\ Io!WeighState(list, w[i], st).sum = Io!AddState(list, m[i], st)[1]
        /\ Io!WeighState(list, w[i], st).ticks = Io!AddState(list, m[i], st)[2]
        /\ Io!WeighState(list, w[i], st).next = Place(list, IF st.name >= 0 THEN k(i) + 1 ELSE k(i))
    BY <1>1, <1>14, <2>3, <2>4, TurnsAgree
  <2> QED BY <2>2, <2>5, <2>6
<1>15. P(n)
  <2> HIDE DEF P, n
  <2>1. 0 \in S
    BY <1>13
  <2>2. \A i \in Nat : i \in S => i + 1 \in S
    BY <1>1, <1>14
  <2>3. n \in S
    <3> HIDE DEF S
    <3> QED BY <1>1, <2>1, <2>2, SetInduction
  <2> QED BY <1>1, <2>3
<1>16. m[n] \in Fractions
  <2>1. n \in 0..n
    BY <1>1
  <2> HIDE DEF n
  <2> QED BY <2>1
<1>17. << w[n].sum, w[n].ticks >> = m[n]
  <2> DEFINE f == m[n]
  <2>1. f = << f[1], f[2] >>
    <3> HIDE DEF f
    <3> QED BY <1>16 DEF Fractions, f
  <2>2. w[n].sum = f[1] /\ w[n].ticks = f[2]
    BY <1>15
  <2> HIDE DEF f
  <2>3. << w[n].sum, w[n].ticks >> = f
    BY <2>1, <2>2
  <2> QED BY <2>3 DEF f
<1> QED BY <1>11, <1>12, <1>16, <1>17

-----------------------------------------------------------------------------
(***************************************************************************)
(* The energy of the channels and the extremes of the frequencies.         *)
(***************************************************************************)
LEMMA NanojoulesAreNat ==
    ASSUME Io!Assumption, NEW item \in Channels
    PROVE  Io!Nanojoules(item) \in Nat
<1>1. item.value \in Nat
  BY DEF Io!Assumption
<1> QED BY <1>1 DEF Io!Nanojoules

LEMMA EnergyInIsNat ==
    ASSUME Io!Assumption, NEW d, NEW item \in Channels
    PROVE  Io!EnergyIn(d, item) \in Nat
<1>1. Io!Nanojoules(item) \in Nat
  BY NanojoulesAreNat
<1> QED BY <1>1 DEF Io!EnergyIn

\* The quotient by the divisor of a unit is what its prefix says.
LEMMA WattsAreNanojoules ==
    ASSUME Io!Assumption, NEW item \in Channels
    PROVE  Io!CalculateWatts(item) = << Io!Nanojoules(item), duration \div 1000 >>
<1> DEFINE v == item.value
           watts == IF item.unit \in DOMAIN Io!PerJoule THEN v * (1000000000 \div Io!PerJoule[item.unit]) ELSE 0
<1>1. v \in Nat
  BY DEF Io!Assumption
<1>2. /\ DOMAIN Io!PerJoule = {"mJ", "uJ", "nJ"} /\ Io!PerJoule["mJ"] = 1000
      /\ Io!PerJoule["uJ"] = 1000000 /\ Io!PerJoule["nJ"] = 1000000000
  BY DEF Io!PerJoule
<1>3. /\ 1000000000 \div 1000 = 1000000 /\ 1000000000 \div 1000000 = 1000
      /\ 1000000000 \div 1000000000 = 1
  OBVIOUS
<1>4. watts = CASE item.unit = "mJ" -> v * 1000 * 1000 [] item.unit = "uJ" -> v * 1000
                [] item.unit = "nJ" -> v [] OTHER -> 0
  <2>1. v * 1000000 = v * 1000 * 1000 /\ v * 1 = v
    <3> HIDE DEF v
    <3> QED BY <1>1
  <2> HIDE DEF v
  <2>2. CASE item.unit = "mJ"
    <3>1. watts = v * 1000000
      BY <1>2, <1>3, <2>2
    <3> HIDE DEF watts
    <3> QED BY <2>1, <2>2, <3>1
  <2>3. CASE item.unit = "uJ"
    <3>1. watts = v * 1000
      BY <1>2, <1>3, <2>3
    <3> HIDE DEF watts
    <3> QED BY <2>3, <3>1
  <2>4. CASE item.unit = "nJ"
    <3>1. watts = v * 1
      BY <1>2, <1>3, <2>4
    <3> HIDE DEF watts
    <3> QED BY <2>1, <2>4, <3>1
  <2>5. CASE item.unit \notin {"mJ", "uJ", "nJ"}
    BY <1>2, <2>5
  <2> QED BY <2>2, <2>3, <2>4, <2>5
<1>5. watts = Io!Nanojoules(item)
  BY <1>4 DEF Io!Nanojoules
<1> HIDE DEF watts
<1>6. Io!CalculateWatts(item) = << watts, duration \div 1000 >>
  BY DEF Io!CalculateWatts, watts
<1> QED BY <1>5, <1>6

\* What the energy of a series comes to, given what each prefix comes to.
LEMMA EnergyIs ==
    ASSUME Io!Assumption, NEW d, NEW items \in Seq(Channels), NEW acc,
           acc[0] = 0, \A i \in 1..Len(items) : acc[i] = acc[i - 1] + Io!EnergyIn(d, items[i])
    PROVE  Io!EnergyOf(d, items) = acc[Len(items)]
<1> DEFINE n == Len(items)
           none == 0
           step == [i \in 1..n |-> [v \in Nat |-> v + Io!EnergyIn(d, items[i])]]
           Body(f) == [t \in SUBSET DOMAIN items |->
                          IF t = {} THEN none ELSE f[t \ {Max(t)}] + Io!EnergyIn(d, items[Max(t)])]
           fold == CHOOSE f : f = Body(f)
<1>1. n \in Nat /\ DOMAIN items = 1..n /\ none \in Nat
  OBVIOUS
<1>2. step \in [1..n -> [Nat -> Nat]]
  BY EnergyInIsNat
<1>3. PICK iter \in [SUBSET (1..n) -> Nat] : Iterates(iter, n, none, step)
  <2> HIDE DEF step, none
  <2> QED BY <1>1, <1>2, IterationExists
<1> HIDE DEF none
<1>4. iter = Body(iter)
  <2>1. ASSUME NEW t \in SUBSET (1..n)
        PROVE  iter[t] = IF t = {} THEN none ELSE iter[t \ {Max(t)}] + Io!EnergyIn(d, items[Max(t)])
    <3>1. CASE t = {}
      BY <1>3, <3>1 DEF Iterates
    <3>2. CASE t # {}
      <4>1. Max(t) \in 1..n
        BY <1>1, <3>2, MaxOfIndices
      <4>2. iter[t \ {Max(t)}] \in Nat
        OBVIOUS
      <4>3. iter[t] = step[Max(t)][iter[t \ {Max(t)}]]
        BY <1>3, <3>2 DEF Iterates
      <4> QED BY <3>2, <4>1, <4>2, <4>3
    <3> QED BY <3>1, <3>2
  <2> QED BY <1>1, <2>1
<1>5. fold = Body(fold)
  <2> HIDE DEF Body
  <2> QED BY <1>4
<1>6. fold[{}] = none
  BY <1>5
<1>7. \A i \in 1..n : fold[1..i] = fold[1..(i - 1)] + Io!EnergyIn(d, items[i])
  <2> SUFFICES ASSUME NEW i \in 1..n PROVE fold[1..i] = fold[1..(i - 1)] + Io!EnergyIn(d, items[i])
    OBVIOUS
  <2>1. 1..i # {} /\ 1..i \in SUBSET (1..n) /\ Max(1..i) = i /\ (1..i) \ {i} = 1..(i - 1)
    BY <1>1, MaxOfPrefix
  <2>2. fold[1..i] = Body(fold)[1..i]
    BY <1>5
  <2> HIDE DEF fold
  <2> QED BY <1>1, <2>1, <2>2
<1>8. Io!EnergyOf(d, items) = fold[DOMAIN items]
  BY DEF Io!EnergyOf, none, Io!FoldLeft, Io!MapThenFoldSet, Io!Max, Max
<1>9. fold[1..n] = acc[n]
  <2>1. fold[{}] = acc[0]
    BY <1>6 DEF none
  <2>2. \A i \in 1..n : fold[1..(i - 1)] = acc[i - 1] => fold[1..i] = acc[i]
    BY <1>7
  <2>3. Follows(fold, acc, n)
    <3> HIDE DEF fold
    <3> QED BY <2>1, <2>2 DEF Follows
  <2> HIDE DEF fold, n, step, Body
  <2> QED BY <1>1, <2>3, PrefixInduction
<1> QED BY <1>1, <1>8, <1>9

\* One more channel adds its energy.
LEMMA EnergyGrows ==
    ASSUME Io!Assumption, NEW d, NEW items \in Seq(Channels), NEW item \in Channels
    PROVE  /\ Io!EnergyOf(d, items) \in Nat
           /\ Io!EnergyOf(d, Append(items, item)) = Io!EnergyOf(d, items) + Io!EnergyIn(d, item)
<1> DEFINE q == Append(items, item)
           n == Len(items)
           m == Len(q)
           step == [i \in 1..m |-> [v \in Nat |-> v + Io!EnergyIn(d, q[i])]]
<1>1. /\ n \in Nat /\ m \in Nat /\ m = n + 1 /\ q \in Seq(Channels) /\ q[m] = item
      /\ \A i \in 1..n : q[i] = items[i]
  OBVIOUS
<1> HIDE DEF m
<1>2. \A i \in 1..m : q[i] \in Channels
  BY <1>1 DEF m
<1>3. step \in [1..m -> [Nat -> Nat]]
  <2> HIDE DEF q
  <2> QED BY <1>2, EnergyInIsNat
<1>4. PICK acc \in [0..m -> Nat] : Accumulates(acc, m, 0, step)
  <2> DEFINE zero == 0
  <2>1. zero \in Nat /\ m \in Nat
    BY <1>1
  <2> HIDE DEF step, q, n, zero
  <2>2. \E acc \in [0..m -> Nat] : Accumulates(acc, m, zero, step)
    BY <1>3, <2>1, AccumulationExists
  <2> QED BY <2>2 DEF zero
<1>5. acc[0] = 0 /\ \A i \in 1..m : acc[i] = acc[i - 1] + Io!EnergyIn(d, q[i])
  <2>1. \A i \in 1..m : i - 1 \in 0..m /\ acc[i - 1] \in Nat
    BY <1>1
  <2> HIDE DEF q
  <2> QED BY <1>4, <2>1 DEF Accumulates
<1> HIDE DEF step, q, n
<1>6. Io!EnergyOf(d, q) = acc[m]
  BY <1>1, <1>5, EnergyIs DEF m
<1>7. Io!EnergyOf(d, items) = acc[n]
  <2>1. \A i \in 1..n : i \in 1..m
    BY <1>1
  <2>2. \A i \in 1..n : acc[i] = acc[i - 1] + Io!EnergyIn(d, items[i])
    BY <1>1, <1>5, <2>1
  <2> QED BY <1>5, <2>2, EnergyIs DEF n
<1>8. acc[m] = acc[n] + Io!EnergyIn(d, item) /\ acc[n] \in Nat
  BY <1>1, <1>5
<1> QED BY <1>6, <1>7, <1>8 DEF q

-----------------------------------------------------------------------------
LEMMA PickKeepsFractions ==
    ASSUME NEW f \in Fractions, NEW g \in Fractions
    PROVE  Io!Greater(f, g) \in Fractions /\ Io!Less(f, g) \in Fractions
  BY DEF Io!Greater, Io!Less

\* What the greatest of a series comes to, given what each prefix comes to.
LEMMA GreatestIs ==
    ASSUME NEW q \in Seq(Fractions), q # <<>>, NEW acc,
           acc[0] = q[1], \A i \in 1..Len(q) : acc[i] = Io!Greater(acc[i - 1], q[i])
    PROVE  Io!StatValues(q).max = acc[Len(q)]
<1> DEFINE n == Len(q)
           none == q[1]
           step == [i \in 1..n |-> [v \in Fractions |-> Io!Greater(v, q[i])]]
           Body(f) == [t \in SUBSET DOMAIN q |->
                          IF t = {} THEN none ELSE Io!Greater(f[t \ {Max(t)}], q[Max(t)])]
           fold == CHOOSE f : f = Body(f)
<1>1. n \in Nat /\ DOMAIN q = 1..n /\ none \in Fractions
  OBVIOUS
<1>2. step \in [1..n -> [Fractions -> Fractions]]
  BY PickKeepsFractions
<1>3. PICK iter \in [SUBSET (1..n) -> Fractions] : Iterates(iter, n, none, step)
  <2> HIDE DEF step, none
  <2> QED BY <1>1, <1>2, IterationExists
<1> HIDE DEF none
<1>4. iter = Body(iter)
  <2>1. ASSUME NEW t \in SUBSET (1..n)
        PROVE  iter[t] = IF t = {} THEN none ELSE Io!Greater(iter[t \ {Max(t)}], q[Max(t)])
    <3>1. CASE t = {}
      BY <1>3, <3>1 DEF Iterates
    <3>2. CASE t # {}
      <4>1. Max(t) \in 1..n
        BY <1>1, <3>2, MaxOfIndices
      <4>2. iter[t \ {Max(t)}] \in Fractions
        OBVIOUS
      <4>3. iter[t] = step[Max(t)][iter[t \ {Max(t)}]]
        BY <1>3, <3>2 DEF Iterates
      <4> QED BY <3>2, <4>1, <4>2, <4>3
    <3> QED BY <3>1, <3>2
  <2> QED BY <1>1, <2>1
<1>5. fold = Body(fold)
  <2> HIDE DEF Body
  <2> QED BY <1>4
<1>6. fold[{}] = none
  BY <1>5
<1>7. \A i \in 1..n : fold[1..i] = Io!Greater(fold[1..(i - 1)], q[i])
  <2> SUFFICES ASSUME NEW i \in 1..n PROVE fold[1..i] = Io!Greater(fold[1..(i - 1)], q[i])
    OBVIOUS
  <2>1. 1..i # {} /\ 1..i \in SUBSET (1..n) /\ Max(1..i) = i /\ (1..i) \ {i} = 1..(i - 1)
    BY <1>1, MaxOfPrefix
  <2>2. fold[1..i] = Body(fold)[1..i]
    BY <1>5
  <2> HIDE DEF fold
  <2> QED BY <1>1, <2>1, <2>2
<1>8. Io!StatValues(q).max = fold[DOMAIN q]
  BY DEF Io!StatValues, none, Io!FoldLeft, Io!MapThenFoldSet, Io!Max, Max
<1>9. fold[1..n] = acc[n]
  <2>1. fold[{}] = acc[0]
    BY <1>6 DEF none
  <2>2. \A i \in 1..n : fold[1..(i - 1)] = acc[i - 1] => fold[1..i] = acc[i]
    BY <1>7
  <2>3. Follows(fold, acc, n)
    <3> HIDE DEF fold
    <3> QED BY <2>1, <2>2 DEF Follows
  <2> HIDE DEF fold, n, step, Body
  <2> QED BY <1>1, <2>3, PrefixInduction
<1> QED BY <1>1, <1>8, <1>9

\* What the least of a series comes to, given what each prefix comes to.
LEMMA LeastIs ==
    ASSUME NEW q \in Seq(Fractions), q # <<>>, NEW acc,
           acc[0] = q[1], \A i \in 1..Len(q) : acc[i] = Io!Less(acc[i - 1], q[i])
    PROVE  Io!StatValues(q).min = acc[Len(q)]
<1> DEFINE n == Len(q)
           none == q[1]
           step == [i \in 1..n |-> [v \in Fractions |-> Io!Less(v, q[i])]]
           Body(f) == [t \in SUBSET DOMAIN q |->
                          IF t = {} THEN none ELSE Io!Less(f[t \ {Max(t)}], q[Max(t)])]
           fold == CHOOSE f : f = Body(f)
<1>1. n \in Nat /\ DOMAIN q = 1..n /\ none \in Fractions
  OBVIOUS
<1>2. step \in [1..n -> [Fractions -> Fractions]]
  BY PickKeepsFractions
<1>3. PICK iter \in [SUBSET (1..n) -> Fractions] : Iterates(iter, n, none, step)
  <2> HIDE DEF step, none
  <2> QED BY <1>1, <1>2, IterationExists
<1> HIDE DEF none
<1>4. iter = Body(iter)
  <2>1. ASSUME NEW t \in SUBSET (1..n)
        PROVE  iter[t] = IF t = {} THEN none ELSE Io!Less(iter[t \ {Max(t)}], q[Max(t)])
    <3>1. CASE t = {}
      BY <1>3, <3>1 DEF Iterates
    <3>2. CASE t # {}
      <4>1. Max(t) \in 1..n
        BY <1>1, <3>2, MaxOfIndices
      <4>2. iter[t \ {Max(t)}] \in Fractions
        OBVIOUS
      <4>3. iter[t] = step[Max(t)][iter[t \ {Max(t)}]]
        BY <1>3, <3>2 DEF Iterates
      <4> QED BY <3>2, <4>1, <4>2, <4>3
    <3> QED BY <3>1, <3>2
  <2> QED BY <1>1, <2>1
<1>5. fold = Body(fold)
  <2> HIDE DEF Body
  <2> QED BY <1>4
<1>6. fold[{}] = none
  BY <1>5
<1>7. \A i \in 1..n : fold[1..i] = Io!Less(fold[1..(i - 1)], q[i])
  <2> SUFFICES ASSUME NEW i \in 1..n PROVE fold[1..i] = Io!Less(fold[1..(i - 1)], q[i])
    OBVIOUS
  <2>1. 1..i # {} /\ 1..i \in SUBSET (1..n) /\ Max(1..i) = i /\ (1..i) \ {i} = 1..(i - 1)
    BY <1>1, MaxOfPrefix
  <2>2. fold[1..i] = Body(fold)[1..i]
    BY <1>5
  <2> HIDE DEF fold
  <2> QED BY <1>1, <2>1, <2>2
<1>8. Io!StatValues(q).min = fold[DOMAIN q]
  BY DEF Io!StatValues, none, Io!FoldLeft, Io!MapThenFoldSet, Io!Max, Max
<1>9. fold[1..n] = acc[n]
  <2>1. fold[{}] = acc[0]
    BY <1>6 DEF none
  <2>2. \A i \in 1..n : fold[1..(i - 1)] = acc[i - 1] => fold[1..i] = acc[i]
    BY <1>7
  <2>3. Follows(fold, acc, n)
    <3> HIDE DEF fold
    <3> QED BY <2>1, <2>2 DEF Follows
  <2> HIDE DEF fold, n, step, Body
  <2> QED BY <1>1, <2>3, PrefixInduction
<1> QED BY <1>1, <1>8, <1>9


\* Fractions that are numbers are in order.
LEMMA ExceedsIsOrder ==
    ASSUME NEW f \in Fractions, NEW g \in Fractions, NEW h \in Fractions
    PROVE  /\ Io!Exceeds(f, g) => ~ Io!Exceeds(g, f)
           /\ ~ Io!Exceeds(f, f)
           /\ ~ Io!Exceeds(f, g) /\ ~ Io!Exceeds(g, h) /\ ~ Io!NotANumber(g) => ~ Io!Exceeds(f, h)
<1> DEFINE a == f[1]
           b == f[2]
           c == g[1]
           d == g[2]
           x == h[1]
           y == h[2]
<1>1. a \in Nat /\ b \in Nat /\ c \in Nat /\ d \in Nat /\ x \in Nat /\ y \in Nat
  BY DEF Fractions
<1>2. Io!Exceeds(f, g) <=> b # 0 /\ d # 0 /\ a * d > c * b
  BY DEF Io!Exceeds, Io!NotANumber
<1>3. Io!Exceeds(g, f) <=> d # 0 /\ b # 0 /\ c * b > a * d
  BY DEF Io!Exceeds, Io!NotANumber
<1>4. Io!Exceeds(f, f) <=> b # 0 /\ b # 0 /\ a * b > a * b
  BY DEF Io!Exceeds, Io!NotANumber
<1>5. Io!Exceeds(g, h) <=> d # 0 /\ y # 0 /\ c * y > x * d
  BY DEF Io!Exceeds, Io!NotANumber
<1>6. Io!Exceeds(f, h) <=> b # 0 /\ y # 0 /\ a * y > x * b
  BY DEF Io!Exceeds, Io!NotANumber
<1>7. Io!NotANumber(g) <=> d = 0
  BY DEF Io!NotANumber
<1> HIDE DEF a, b, c, d, x, y
<1>8. a * d \in Nat /\ c * b \in Nat /\ a * b \in Nat /\ c * y \in Nat /\ x * d \in Nat /\ a * y \in Nat /\ x * b \in Nat
  BY <1>1
<1>9. ASSUME d # 0, b # 0, y # 0, ~ (a * d > c * b), ~ (c * y > x * d) PROVE ~ (a * y > x * b)
  <2>1. (a * d) * y <= (c * b) * y
    <3>1. a * d <= c * b
      BY <1>8, <1>9
    <3> QED BY <1>1, <1>8, <3>1, TimesMono
  <2>2. (c * y) * b <= (x * d) * b
    <3>1. c * y <= x * d
      BY <1>8, <1>9
    <3> QED BY <1>1, <1>8, <3>1, TimesMono
  <2>3. (c * b) * y = (c * y) * b /\ (a * d) * y = (a * y) * d /\ (x * d) * b = (x * b) * d
    BY <1>1
  <2>4. SUFFICES ASSUME a * y > x * b PROVE FALSE
    OBVIOUS
  <2>5. (x * b + 1) * d <= (a * y) * d
    <3>1. x * b + 1 <= a * y
      BY <1>8, <2>4
    <3> QED BY <1>1, <1>8, <3>1, TimesMono
  <2>6. (x * b + 1) * d = (x * b) * d + d
    BY <1>1, <1>8
  <2>7. (x * b) * d \in Int /\ (a * y) * d \in Int /\ (c * y) * b \in Int
    BY <1>1, <1>8
  <2> QED BY <1>1, <1>9, <2>1, <2>2, <2>3, <2>5, <2>6, <2>7
<1>10. ~ (a * d > c * b /\ c * b > a * d) /\ ~ (a * b > a * b)
  BY <1>8
<1> QED BY <1>2, <1>3, <1>4, <1>5, <1>6, <1>7, <1>9, <1>10

\* The maximum of stat_values is one of the numbers, and none exceeds it.
LEMMA MaxIsGreatest ==
    ASSUME NEW q \in Seq(Fractions), q # <<>>, ~ Io!NotANumber(q[1])
    PROVE  LET stat == Io!StatValues(q).max
           IN /\ ~ Io!NotANumber(stat) /\ \E j \in 1..Len(q) : stat = q[j]
              /\ \A j \in 1..Len(q) : ~ Io!Exceeds(q[j], stat)
<1> DEFINE n == Len(q)
           first == q[1]
           step == [i \in 1..n |-> [v \in Fractions |-> Io!Greater(v, q[i])]]
<1>1. n \in Nat /\ first \in Fractions /\ 1 \in 1..n /\ \A i \in 1..n : q[i] \in Fractions
  OBVIOUS
<1>2. step \in [1..n -> [Fractions -> Fractions]]
  BY <1>1, PickKeepsFractions
<1>3. PICK acc \in [0..n -> Fractions] : Accumulates(acc, n, first, step)
  <2> HIDE DEF step, n, first
  <2> QED BY <1>1, <1>2, AccumulationExists
<1>4. acc[0] = first /\ \A i \in 1..n : acc[i] = Io!Greater(acc[i - 1], q[i])
  <2>1. \A i \in 1..n : i - 1 \in 0..n /\ acc[i - 1] \in Fractions
    BY <1>1
  <2> QED BY <1>3, <2>1 DEF Accumulates
<1> HIDE DEF step
<1>5. Io!StatValues(q).max = acc[n]
  BY <1>4, GreatestIs
<1> DEFINE P(i) == /\ ~ Io!NotANumber(acc[i]) /\ \E j \in 1..n : acc[i] = q[j]
                   /\ \A j \in 1..i : ~ Io!Exceeds(q[j], acc[i])
           S == {i \in Nat : i <= n => P(i)}
<1>6. P(0)
  BY <1>1, <1>4
<1>7. ASSUME NEW i \in Nat, i + 1 <= n, P(i) PROVE P(i + 1)
  <2> DEFINE best == acc[i]
             f == q[i + 1]
             new == acc[i + 1]
  <2>1. i + 1 \in 1..n /\ i \in 0..n /\ (i + 1) - 1 = i /\ \A j \in 1..(i + 1) : j \in 1..n /\ (j \in 1..i \/ j = i + 1)
    BY <1>1, <1>7
  <2>2. best \in Fractions /\ f \in Fractions /\ new = Io!Greater(best, f)
    BY <1>1, <1>4, <2>1
  <2>3. ~ Io!NotANumber(best) /\ (\E j \in 1..n : best = q[j]) /\ \A j \in 1..i : ~ Io!Exceeds(q[j], best)
    BY <1>7
  <2> HIDE DEF best, f, new, n
  <2>4. CASE Io!Exceeds(f, best)
    <3>1. new = f /\ ~ Io!NotANumber(f)
      BY <2>2, <2>4 DEF Io!Greater, Io!Exceeds
    <3>2. ~ Io!Exceeds(best, f) /\ ~ Io!Exceeds(f, f)
      BY <2>2, <2>4, ExceedsIsOrder
    <3>3. \A j \in 1..i : ~ Io!Exceeds(q[j], f)
      <4> SUFFICES ASSUME NEW j \in 1..i PROVE ~ Io!Exceeds(q[j], f)
        OBVIOUS
      <4>1. q[j] \in Fractions
        <5>1. j \in 1..(i + 1)
          OBVIOUS
        <5> QED BY <1>1, <2>1, <5>1
      <4> QED BY <2>2, <2>3, <3>2, <4>1, ExceedsIsOrder
    <3>4. \A j \in 1..(i + 1) : ~ Io!Exceeds(q[j], f)
      BY <2>1, <3>2, <3>3 DEF f
    <3>5. \E j \in 1..n : f = q[j]
      BY <2>1 DEF f
    <3> QED BY <3>1, <3>4, <3>5 DEF new
  <2>5. CASE ~ Io!Exceeds(f, best)
    <3>1. new = best
      BY <2>2, <2>5 DEF Io!Greater
    <3>2. \A j \in 1..(i + 1) : ~ Io!Exceeds(q[j], best)
      BY <2>1, <2>3, <2>5 DEF f
    <3> QED BY <2>3, <3>1, <3>2 DEF new
  <2> QED BY <2>4, <2>5
<1>8. P(n)
  <2> HIDE DEF P, n
  <2>1. 0 \in S
    BY <1>6
  <2>2. \A i \in Nat : i \in S => i + 1 \in S
    BY <1>1, <1>7
  <2>3. n \in S
    <3> HIDE DEF S
    <3> QED BY <1>1, <2>1, <2>2, SetInduction
  <2> QED BY <1>1, <2>3
<1> QED BY <1>5, <1>8

\* The minimum is one of the numbers, and exceeds none.
LEMMA MinIsLeast ==
    ASSUME NEW q \in Seq(Fractions), q # <<>>, ~ Io!NotANumber(q[1])
    PROVE  LET stat == Io!StatValues(q).min
           IN /\ ~ Io!NotANumber(stat) /\ \E j \in 1..Len(q) : stat = q[j]
              /\ \A j \in 1..Len(q) : ~ Io!Exceeds(stat, q[j])
<1> DEFINE n == Len(q)
           first == q[1]
           step == [i \in 1..n |-> [v \in Fractions |-> Io!Less(v, q[i])]]
<1>1. n \in Nat /\ first \in Fractions /\ 1 \in 1..n /\ \A i \in 1..n : q[i] \in Fractions
  OBVIOUS
<1>2. step \in [1..n -> [Fractions -> Fractions]]
  BY <1>1, PickKeepsFractions
<1>3. PICK acc \in [0..n -> Fractions] : Accumulates(acc, n, first, step)
  <2> HIDE DEF step, n, first
  <2> QED BY <1>1, <1>2, AccumulationExists
<1>4. acc[0] = first /\ \A i \in 1..n : acc[i] = Io!Less(acc[i - 1], q[i])
  <2>1. \A i \in 1..n : i - 1 \in 0..n /\ acc[i - 1] \in Fractions
    BY <1>1
  <2> QED BY <1>3, <2>1 DEF Accumulates
<1> HIDE DEF step
<1>5. Io!StatValues(q).min = acc[n]
  BY <1>4, LeastIs
<1> DEFINE P(i) == /\ ~ Io!NotANumber(acc[i]) /\ \E j \in 1..n : acc[i] = q[j]
                   /\ \A j \in 1..i : ~ Io!Exceeds(acc[i], q[j])
           S == {i \in Nat : i <= n => P(i)}
<1>6. P(0)
  BY <1>1, <1>4
<1>7. ASSUME NEW i \in Nat, i + 1 <= n, P(i) PROVE P(i + 1)
  <2> DEFINE best == acc[i]
             f == q[i + 1]
             new == acc[i + 1]
  <2>1. i + 1 \in 1..n /\ i \in 0..n /\ (i + 1) - 1 = i /\ \A j \in 1..(i + 1) : j \in 1..n /\ (j \in 1..i \/ j = i + 1)
    BY <1>1, <1>7
  <2>2. best \in Fractions /\ f \in Fractions /\ new = Io!Less(best, f)
    BY <1>1, <1>4, <2>1
  <2>3. ~ Io!NotANumber(best) /\ (\E j \in 1..n : best = q[j]) /\ \A j \in 1..i : ~ Io!Exceeds(best, q[j])
    BY <1>7
  <2> HIDE DEF best, f, new, n
  <2>4. CASE Io!Exceeds(best, f)
    <3>1. new = f /\ ~ Io!NotANumber(f)
      BY <2>2, <2>4 DEF Io!Less, Io!Exceeds
    <3>2. ~ Io!Exceeds(f, best) /\ ~ Io!Exceeds(f, f)
      BY <2>2, <2>4, ExceedsIsOrder
    <3>3. \A j \in 1..i : ~ Io!Exceeds(f, q[j])
      <4> SUFFICES ASSUME NEW j \in 1..i PROVE ~ Io!Exceeds(f, q[j])
        OBVIOUS
      <4>1. q[j] \in Fractions
        <5>1. j \in 1..(i + 1)
          OBVIOUS
        <5> QED BY <1>1, <2>1, <5>1
      <4> QED BY <2>2, <2>3, <3>2, <4>1, ExceedsIsOrder
    <3>4. \A j \in 1..(i + 1) : ~ Io!Exceeds(f, q[j])
      BY <2>1, <3>2, <3>3 DEF f
    <3>5. \E j \in 1..n : f = q[j]
      BY <2>1 DEF f
    <3> QED BY <3>1, <3>4, <3>5 DEF new
  <2>5. CASE ~ Io!Exceeds(best, f)
    <3>1. new = best
      BY <2>2, <2>5 DEF Io!Less
    <3>2. \A j \in 1..(i + 1) : ~ Io!Exceeds(best, q[j])
      BY <2>1, <2>3, <2>5 DEF f
    <3> QED BY <2>3, <3>1, <3>2 DEF new
  <2> QED BY <2>4, <2>5
<1>8. P(n)
  <2> HIDE DEF P, n
  <2>1. 0 \in S
    BY <1>6
  <2>2. \A i \in Nat : i \in S => i + 1 \in S
    BY <1>1, <1>7
  <2>3. n \in S
    <3> HIDE DEF S
    <3> QED BY <1>1, <2>1, <2>2, SetInduction
  <2> QED BY <1>1, <2>3
<1> QED BY <1>5, <1>8

-----------------------------------------------------------------------------
(***************************************************************************)
(* The invariant of the frequencies and the power.                         *)
(***************************************************************************)
Rows == [device : {c.device : c \in Channels}, core : {c.core : c \in Channels}, freq : Fractions]
Powered == {"gpu", "cpu", "npu", "dram", "gpu_sram"}

CoreRows == [device : {c.device : c \in Channels}, core : {c.core : c \in Channels}, watts : Nat \X Int]
CorePowered == {"e_cpu_core", "p_cpu_core", "e_cpu_core_sram", "p_cpu_core_sram"}

IoTypes ==
    /\ brand \in Io!Brands /\ duration \in Durations /\ walked \in Seq(Channels)
    /\ DOMAIN diff = {"gpu_freq", "freqs", "power", "core_power"}
    /\ diff.freqs \in Seq(Rows) /\ DOMAIN diff.power \in SUBSET Powered

\* A list has the clocks of its table or none; before it is read nothing is walked.
ListsAreClocks ==
    /\ \E flaws \in Flaws : pmgr = Io!Pmgr(brand, flaws)
    /\ lists.e \in {<<>>, Clocks.e} /\ lists.p \in {<<>>, Clocks.p} /\ lists.gpu \in {<<>>, Clocks.gpu}
    /\ io_pc = "init" => walked = <<>> /\ diff = Io!NoDiff

WalkedOnce == \A i, j \in DOMAIN walked : walked[i].name = walked[j].name => i = j

\* A device without power has no energy either.
PowerIsOfTheWalk ==
    \A d \in Powered :
        IF d \in DOMAIN diff.power THEN diff.power[d] = << Io!EnergyOf(d, walked), duration \div 1000 >>
        ELSE Io!EnergyOf(d, walked) = 0

CorePowerIsOfTheWalk ==
    /\ diff.core_power \in Seq(CoreRows)
    /\ Io!ToSet(diff.core_power) = Io!CoresIn(Io!ToSet(walked))

IoInv ==
    /\ IoTypes /\ ListsAreClocks /\ WalkedOnce
    /\ Io!FrequenciesAreMeans /\ PowerIsOfTheWalk /\ CorePowerIsOfTheWalk
    /\ io_pc = "done" => io_report.cpu_freq = Io!StatValues(Io!Freqs(diff.freqs))

\* One more element of a series.
LEMMA OneMore ==
    ASSUME NEW S, NEW q \in Seq(S), NEW x \in S
    PROVE  /\ Append(q, x) \in Seq(S) /\ Io!ToSet(Append(q, x)) = Io!ToSet(q) \cup {x}
           /\ DOMAIN Append(q, x) = DOMAIN q \cup {Len(q) + 1}
           /\ Append(q, x)[Len(q) + 1] = x /\ Len(q) + 1 \notin DOMAIN q
           /\ \A i \in DOMAIN q : Append(q, x)[i] = q[i]
<1> DEFINE r == Append(q, x)
           n == Len(q)
<1>1. n \in Nat /\ DOMAIN q = 1..n /\ r \in Seq(S) /\ DOMAIN r = 1..(n + 1) /\ r[n + 1] = x
      /\ \A i \in 1..n : r[i] = q[i]
  OBVIOUS
<1>2. 1..(n + 1) = 1..n \cup {n + 1} /\ n + 1 \notin 1..n
  BY <1>1
<1> HIDE DEF r, n
<1>3. {r[i] : i \in DOMAIN r} = {q[i] : i \in DOMAIN q} \cup {x}
  BY <1>1, <1>2
<1> QED BY <1>1, <1>2, <1>3 DEF r, n, Io!ToSet

-----------------------------------------------------------------------------
(***************************************************************************)
(* The lists that get_xpu_dynamic_freq_list reads.                         *)
(***************************************************************************)
Unit == IF brand >= 4 THEN Kilo ELSE Mega

LEMMA MegahertzIs ==
    ASSUME NEW clock \in Nat, NEW i \in Nat, NEW unit \in Nat, i < unit
    PROVE  (clock * unit + i) \div unit = clock
<1> DEFINE a == clock * unit + i
<1>1. clock * unit \in Nat /\ unit * clock = clock * unit
  OBVIOUS
<1>2. a \in Int /\ unit \in Nat \ {0} /\ clock \in Int /\ unit * clock <= a /\ a < unit * clock + unit
  BY <1>1
<1> HIDE DEF a
<1>3. a \div unit = clock
  BY <1>2, DivUnique
<1> QED BY <1>3 DEF a

\* The clocks of a table without its first ones.
From(clock, skip) == [i \in 1..(Len(clock) - skip) |-> clock[i + skip]]

\* A list has the clocks of its table but for those it skips, or none.
LEMMA GetFreqIs ==
    ASSUME Io!Assumption, NEW key, NEW clock \in Seq(Nat), NEW skip \in Nat, Len(clock) < Unit, Unit \in Nat,
           key \in DOMAIN pmgr => pmgr[key] = Io!Table(clock, Unit)
    PROVE  Io!GetFreq(key, skip) \in {<<>>, From(clock, skip)}
<1> DEFINE n == Len(clock)
           freqs == Io!Table(clock, Unit).freqs
<1>1. n \in Nat /\ DOMAIN clock = 1..n /\ \A i \in 1..n : clock[i] \in Nat
  OBVIOUS
<1>2. freqs = [i \in 1..n |-> clock[i] * Unit + i]
  BY <1>1 DEF Io!Table
<1>3. Len(freqs) = n
  BY <1>1, <1>2
<1>4. \A i \in 1..n : freqs[i] = clock[i] * Unit + i /\ Io!Megahertz(freqs[i]) = clock[i]
  <2> SUFFICES ASSUME NEW i \in 1..n
               PROVE  freqs[i] = clock[i] * Unit + i /\ Io!Megahertz(freqs[i]) = clock[i]
    OBVIOUS
  <2>1. freqs[i] = clock[i] * Unit + i
    BY <1>2
  <2>2. i < Unit /\ i \in Nat /\ clock[i] \in Nat
    BY <1>1
  <2> DEFINE c == clock[i]
             u == Unit
  <2>3. c \in Nat /\ u \in Nat /\ i < u /\ i \in Nat
    BY <2>2
  <2> HIDE DEF c, u
  <2>4. (c * u + i) \div u = c
    BY <2>3, MegahertzIs
  <2>5. (clock[i] * Unit + i) \div Unit = clock[i]
    BY <2>4 DEF c, u
  <2> QED BY <2>1, <2>5 DEF Io!Megahertz, Unit
<1> HIDE DEF freqs
<1>5. [i \in 1..(Len(freqs) - skip) |-> Io!Megahertz(freqs[i + skip])]
        = [i \in 1..(n - skip) |-> clock[i + skip]]
  <2>1. \A i \in 1..(n - skip) : i + skip \in 1..n
    BY <1>1
  <2> QED BY <1>3, <1>4, <2>1
<1> QED BY <1>5 DEF Io!GetFreq, freqs, From

LEMMA UnitIs ==
    ASSUME Io!Assumption
    PROVE  /\ Unit \in Nat /\ Clocks.e \in Seq(Nat) /\ Clocks.p \in Seq(Nat) /\ Clocks.gpu \in Seq(Nat)
           /\ Len(Clocks.e) < Unit /\ Len(Clocks.p) < Unit /\ Len(Clocks.gpu) + 1 < Unit
<1>1. Clocks \in [e : Seq(Nat), p : Seq(Nat), s : Seq(Nat), gpu : Seq(Nat)] /\ Kilo \in Nat /\ Mega \in Nat
  BY DEF Io!Assumption
<1>2. \A k \in {"e", "p", "gpu"} : Len(Clocks[k]) + 1 < Kilo /\ Len(Clocks[k]) + 1 < Mega
  <2>1. {"e", "p", "gpu"} \in SUBSET DOMAIN Clocks
    BY <1>1
  <2> QED BY <2>1 DEF Io!Assumption
<1>3. Unit \in Nat /\ (Unit = Kilo \/ Unit = Mega)
  BY <1>1 DEF Unit
<1>4. \A k \in {"e", "p", "gpu"} : Len(Clocks[k]) \in Nat /\ Len(Clocks[k]) + 1 < Unit
  BY <1>1, <1>2, <1>3
<1>5. Len(Clocks.e) \in Nat /\ Len(Clocks.e) + 1 < Unit /\ Len(Clocks.p) \in Nat /\ Len(Clocks.p) + 1 < Unit
      /\ Len(Clocks.gpu) + 1 < Unit
  BY <1>4
<1> QED BY <1>1, <1>3, <1>5

LEMMA ListsAreRead ==
    ASSUME Io!Assumption, NEW flaws, pmgr = Io!Pmgr(brand, flaws), Io!ReadPmgr, brand \in Io!Brands
    PROVE  /\ lists'.e \in {<<>>, Clocks.e} /\ lists'.p \in {<<>>, Clocks.p}
           /\ lists'.gpu \in {<<>>, Clocks.gpu}
<1>1. /\ Unit \in Nat /\ Clocks.e \in Seq(Nat) /\ Clocks.p \in Seq(Nat) /\ Clocks.gpu \in Seq(Nat)
      /\ Len(Clocks.e) < Unit /\ Len(Clocks.p) < Unit /\ Len(Clocks.gpu) + 1 < Unit
  BY UnitIs
<1>2. /\ lists'.e = (IF brand >= 5 THEN <<>> ELSE Io!GetFreq("states1", 0))
      /\ lists'.p = Io!GetFreq(IF brand >= 5 THEN "states22" ELSE "states5", 0)
      /\ lists'.gpu = Io!GetFreq("states9", 1)
  BY DEF Io!ReadPmgr
<1>3. ASSUME NEW clock \in Seq(Nat) PROVE From(clock, 0) = clock
  <2>1. Len(clock) \in Nat /\ clock = [i \in 1..Len(clock) |-> clock[i]]
    OBVIOUS
  <2> QED BY <2>1 DEF From
<1>4. lists'.e \in {<<>>, Clocks.e}
  <2>1. CASE brand >= 5
    BY <1>2, <2>1
  <2>2. CASE ~ (brand >= 5)
    <3>1. "states1" \in DOMAIN pmgr => pmgr["states1"] = Io!Table(Clocks.e, Unit)
      BY DEF Io!Pmgr, Io!Keys, Unit
    <3>2. Io!GetFreq("states1", 0) \in {<<>>, From(Clocks.e, 0)}
      BY <1>1, <3>1, GetFreqIs
    <3> QED BY <1>1, <1>2, <1>3, <2>2, <3>2
  <2> QED BY <2>1, <2>2
<1>5. lists'.p \in {<<>>, Clocks.p}
  <2> DEFINE key == IF brand >= 5 THEN "states22" ELSE "states5"
  <2>1. key \in DOMAIN pmgr => pmgr[key] = Io!Table(Clocks.p, Unit)
    <3>1. CASE brand >= 5
      BY <3>1 DEF Io!Pmgr, Io!Keys, Unit
    <3>2. CASE ~ (brand >= 5)
      BY <3>2 DEF Io!Pmgr, Io!Keys, Unit
    <3> QED BY <3>1, <3>2
  <2>2. lists'.p = Io!GetFreq(key, 0)
    BY <1>2
  <2> HIDE DEF key
  <2>3. Io!GetFreq(key, 0) \in {<<>>, From(Clocks.p, 0)}
    BY <1>1, <2>1, GetFreqIs
  <2> QED BY <1>1, <1>3, <2>2, <2>3
<1>6. lists'.gpu \in {<<>>, Clocks.gpu}
  <2> DEFINE clock == << 0 >> \o Clocks.gpu
             n == Len(Clocks.gpu)
  <2>1. n \in Nat /\ clock \in Seq(Nat) /\ Len(clock) = n + 1 /\ \A i \in 1..n : clock[i + 1] = Clocks.gpu[i]
    BY <1>1
  <2>2. "states9" \in DOMAIN pmgr => pmgr["states9"] = Io!Table(clock, Unit)
    BY DEF Io!Pmgr, Io!Keys, Unit
  <2>3. Len(clock) < Unit
    BY <1>1, <2>1
  <2>4. Clocks.gpu = [i \in 1..n |-> Clocks.gpu[i]]
    BY <1>1
  <2> HIDE DEF clock
  <2>5. Io!GetFreq("states9", 1) \in {<<>>, From(clock, 1)}
    BY <1>1, <2>1, <2>2, <2>3, GetFreqIs
  <2>6. Len(clock) - 1 = n
    BY <2>1
  <2>7. From(clock, 1) = [i \in 1..n |-> Clocks.gpu[i]]
    <3> HIDE DEF n
    <3> QED BY <2>1, <2>6 DEF From
  <2> QED BY <1>2, <2>4, <2>5, <2>7
<1> QED BY <1>4, <1>5, <1>6

-----------------------------------------------------------------------------
(***************************************************************************)
(* The turns of the loop over the channels.                                *)
(***************************************************************************)
LEMMA NoEnergy ==
    ASSUME Io!Assumption, NEW d
    PROVE  Io!EnergyOf(d, <<>>) = 0
<1> DEFINE none == <<>>
           acc == [i \in 0..0 |-> 0]
<1>1. none \in Seq(Channels) /\ Len(none) = 0
  OBVIOUS
<1>2. acc[0] = 0 /\ \A i \in 1..0 : acc[i] = acc[i - 1] + Io!EnergyIn(d, none[i])
  OBVIOUS
<1> HIDE DEF none, acc
<1>3. Io!EnergyOf(d, none) = acc[Len(none)]
  BY <1>1, <1>2, EnergyIs
<1> QED BY <1>1, <1>2, <1>3 DEF none

\* A turn touches the power of no device but that of an energy channel.
LEMMA TurnOfPower ==
    ASSUME Io!Assumption, IoTypes, NEW item \in Channels,
           Io!WalkEnergy(item) \/ Io!WalkCpu(item) \/ Io!WalkGpu(item)
    PROVE  \/ /\ item.device \in Powered
              /\ item.group = "energy_model"
              /\ diff'.power = Io!AddPower(diff.power, item.device, Io!CalculateWatts(item))
           \/ diff'.power = diff.power /\ \A d \in Powered : Io!EnergyIn(d, item) = 0
<1>1. {"gpu_freq", "freqs", "power", "core_power"} = DOMAIN diff
  BY DEF IoTypes
<1>2. CASE Io!WalkEnergy(item)
  <2>1. item.group = "energy_model"
    BY <1>2 DEF Io!WalkEnergy
  <2>2. CASE item.device \in Powered
    <3>1. diff' = [diff EXCEPT !.power = Io!AddPower(@, item.device, Io!CalculateWatts(item))]
      BY <1>2, <2>2 DEF Io!WalkEnergy, Powered
    <3> QED BY <1>1, <2>1, <2>2, <3>1
  <2>3. CASE item.device \notin Powered
    <3>1. \A d \in Powered : Io!EnergyIn(d, item) = 0
      BY <2>3 DEF Io!EnergyIn
    <3>2. diff'.power = diff.power
      <4> DEFINE row == [device |-> item.device, core |-> item.core, watts |-> Io!CalculateWatts(item)]
                 core == /\ item.device \in {"e_cpu_core", "p_cpu_core", "e_cpu_core_sram", "p_cpu_core_sram"}
                         /\ item.core # 0
      <4>1. CASE core
        <5>1. diff' = [diff EXCEPT !.core_power = Append(@, row)]
          BY <1>2, <2>3, <4>1 DEF Io!WalkEnergy, Powered
        <5> HIDE DEF row
        <5> QED BY <1>1, <5>1
      <4>2. CASE ~ core
        BY <1>2, <2>3, <4>2 DEF Io!WalkEnergy, Powered
      <4> QED BY <4>1, <4>2
    <3> QED BY <3>1, <3>2
  <2> QED BY <2>2, <2>3
<1>3. CASE Io!WalkCpu(item) \/ Io!WalkGpu(item)
  <2>1. item.group # "energy_model"
    BY <1>3 DEF Io!WalkCpu, Io!WalkGpu
  <2>2. \A d \in Powered : Io!EnergyIn(d, item) = 0
    BY <2>1 DEF Io!EnergyIn
  <2>3. diff'.power = diff.power
    <3>1. CASE Io!WalkCpu(item)
      <4> DEFINE row == [device |-> item.device, core |-> item.core,
                         freq |-> Io!CalculateFreq(item, Io!ListOf(item))]
      <4>1. diff' = [diff EXCEPT !.freqs = Append(@, row)] \/ diff' = diff
        BY <3>1 DEF Io!WalkCpu
      <4> HIDE DEF row
      <4> QED BY <1>1, <4>1
    <3>2. CASE Io!WalkGpu(item)
      BY <1>1, <3>2 DEF Io!WalkGpu
    <3> QED BY <1>3, <3>1, <3>2
  <2> QED BY <2>2, <2>3
<1> QED BY <1>2, <1>3

LEMMA WalkKeepsPower ==
    ASSUME Io!Assumption, IoTypes, PowerIsOfTheWalk, NEW item \in Channels,
           Io!WalkEnergy(item) \/ Io!WalkCpu(item) \/ Io!WalkGpu(item),
           walked' = Append(walked, item), duration' = duration
    PROVE  PowerIsOfTheWalk' /\ DOMAIN diff'.power \in SUBSET Powered
<1>1. walked \in Seq(Channels) /\ DOMAIN diff.power \in SUBSET Powered
  BY DEF IoTypes
<1>2. \A d \in Powered : /\ Io!EnergyOf(d, walked) \in Nat
                         /\ Io!EnergyOf(d, walked') = Io!EnergyOf(d, walked) + Io!EnergyIn(d, item)
  BY <1>1, EnergyGrows
<1> DEFINE whole == duration \div 1000
<1>3. \A d \in Powered : IF d \in DOMAIN diff.power THEN diff.power[d] = << Io!EnergyOf(d, walked), whole >>
                         ELSE Io!EnergyOf(d, walked) = 0
  BY DEF PowerIsOfTheWalk
<1> HIDE DEF whole
<1>4. SUFFICES /\ DOMAIN diff'.power \in SUBSET Powered
               /\ \A d \in Powered :
                     IF d \in DOMAIN diff'.power THEN diff'.power[d] = << Io!EnergyOf(d, walked'), whole >>
                     ELSE Io!EnergyOf(d, walked') = 0
  BY DEF PowerIsOfTheWalk, whole
<1>5. CASE diff'.power = diff.power /\ \A d \in Powered : Io!EnergyIn(d, item) = 0
  <2>1. \A d \in Powered : Io!EnergyOf(d, walked') = Io!EnergyOf(d, walked)
    BY <1>2, <1>5
  <2> QED BY <1>1, <1>3, <1>5, <2>1
<1>6. CASE /\ item.device \in Powered
           /\ item.group = "energy_model"
           /\ diff'.power = Io!AddPower(diff.power, item.device, Io!CalculateWatts(item))
  <2> DEFINE device == item.device
             energy == Io!EnergyIn(device, item)
  <2>1. Io!CalculateWatts(item) = << energy, whole >>
    <3>1. energy = Io!Nanojoules(item)
      BY <1>6 DEF Io!EnergyIn
    <3> HIDE DEF energy
    <3> QED BY <3>1, WattsAreNanojoules DEF whole
  <2>2. energy \in Nat
    BY EnergyInIsNat
  <2>3. \A d \in Powered \ {device} : Io!EnergyOf(d, walked') = Io!EnergyOf(d, walked)
    <3>1. \A d \in Powered \ {device} : Io!EnergyIn(d, item) = 0
      BY DEF Io!EnergyIn
    <3> QED BY <1>2, <3>1
  <2>4. device \in Powered
    BY <1>6
  <2>5. Io!EnergyOf(device, walked') = Io!EnergyOf(device, walked) + energy
    BY <1>2, <2>4
  <2> HIDE DEF energy, device
  <2>6. diff'.power = [d \in DOMAIN diff.power \cup {device} |->
                          IF d # device THEN diff.power[d]
                          ELSE IF d \in DOMAIN diff.power THEN << diff.power[d][1] + energy, whole >>
                          ELSE << energy, whole >>]
    BY <1>6, <2>1 DEF Io!AddPower, device
  <2>7. DOMAIN diff'.power \in SUBSET Powered
    BY <1>1, <2>4, <2>6
  <2>8. ASSUME NEW d \in Powered
        PROVE  IF d \in DOMAIN diff'.power THEN diff'.power[d] = << Io!EnergyOf(d, walked'), whole >>
               ELSE Io!EnergyOf(d, walked') = 0
    <3>1. CASE d # device
      BY <1>3, <2>3, <2>6, <3>1
    <3>2. CASE d = device /\ d \in DOMAIN diff.power
      <4>1. diff.power[d] = << Io!EnergyOf(d, walked), whole >>
        BY <1>3, <3>2
      <4>2. diff'.power[d] = << diff.power[d][1] + energy, whole >>
        BY <2>6, <3>2
      <4>3. diff.power[d][1] = Io!EnergyOf(d, walked)
        BY <4>1
      <4> QED BY <2>5, <2>6, <3>2, <4>2, <4>3
    <3>3. CASE d = device /\ d \notin DOMAIN diff.power
      <4>1. Io!EnergyOf(d, walked) = 0
        BY <1>3, <3>3
      <4>2. Io!EnergyOf(d, walked') = energy
        BY <2>2, <2>5, <3>3, <4>1
      <4>3. diff'.power[d] = << energy, whole >>
        BY <2>6, <3>3
      <4> QED BY <2>6, <3>3, <4>2, <4>3
    <3> QED BY <3>1, <3>2, <3>3
  <2> QED BY <2>7, <2>8
<1> QED BY <1>5, <1>6, TurnOfPower

IsOfACore(item) == item.group = "energy_model" /\ item.core # 0 /\ item.device \in CorePowered

\* A turn adds the power of a channel of a core.
LEMMA TurnOfCorePower ==
    ASSUME Io!Assumption, IoTypes, NEW item \in Channels,
           Io!WalkEnergy(item) \/ Io!WalkCpu(item) \/ Io!WalkGpu(item)
    PROVE  diff'.core_power =
              IF IsOfACore(item)
              THEN Append(diff.core_power, [device |-> item.device, core |-> item.core,
                                            watts |-> << Io!Nanojoules(item), duration \div 1000 >>])
              ELSE diff.core_power
<1>1. {"gpu_freq", "freqs", "power", "core_power"} = DOMAIN diff
  BY DEF IoTypes
<1>2. CASE Io!WalkEnergy(item)
  <2>1. item.group = "energy_model"
    BY <1>2 DEF Io!WalkEnergy
  <2>2. CASE item.device \in Powered
    <3> DEFINE power == Io!AddPower(diff.power, item.device, Io!CalculateWatts(item))
    <3>1. diff' = [diff EXCEPT !.power = power]
      BY <1>2, <2>2 DEF Io!WalkEnergy, Powered
    <3>2. ~ IsOfACore(item)
      BY <2>2 DEF IsOfACore, Powered, CorePowered
    <3> HIDE DEF power
    <3> QED BY <1>1, <3>1, <3>2
  <2>3. CASE item.device \notin Powered /\ IsOfACore(item)
    <3> DEFINE row == [device |-> item.device, core |-> item.core, watts |-> Io!CalculateWatts(item)]
    <3>1. diff' = [diff EXCEPT !.core_power = Append(@, row)]
      BY <1>2, <2>3 DEF Io!WalkEnergy, Powered, IsOfACore, CorePowered
    <3>2. row = [device |-> item.device, core |-> item.core,
                 watts |-> << Io!Nanojoules(item), duration \div 1000 >>]
      BY WattsAreNanojoules
    <3>3. diff'.core_power = Append(diff.core_power, row)
      <4> HIDE DEF row
      <4> QED BY <1>1, <3>1
    <3> QED BY <2>3, <3>2, <3>3
  <2>4. CASE item.device \notin Powered /\ ~ IsOfACore(item)
    <3>1. diff' = diff
      BY <1>2, <2>1, <2>4 DEF Io!WalkEnergy, Powered, IsOfACore, CorePowered
    <3> QED BY <2>4, <3>1
  <2> QED BY <2>2, <2>3, <2>4
<1>3. CASE Io!WalkCpu(item) \/ Io!WalkGpu(item)
  <2>1. ~ IsOfACore(item)
    BY <1>3 DEF Io!WalkCpu, Io!WalkGpu, IsOfACore
  <2>2. diff'.core_power = diff.core_power
    <3>1. CASE Io!WalkCpu(item)
      <4> DEFINE row == [device |-> item.device, core |-> item.core,
                         freq |-> Io!CalculateFreq(item, Io!ListOf(item))]
      <4>1. diff' = [diff EXCEPT !.freqs = Append(@, row)] \/ diff' = diff
        BY <3>1 DEF Io!WalkCpu
      <4> HIDE DEF row
      <4> QED BY <1>1, <4>1
    <3>2. CASE Io!WalkGpu(item)
      BY <1>1, <3>2 DEF Io!WalkGpu
    <3> QED BY <1>3, <3>1, <3>2
  <2> QED BY <2>1, <2>2
<1> QED BY <1>2, <1>3

LEMMA WalkKeepsCorePower ==
    ASSUME Io!Assumption, IoTypes, CorePowerIsOfTheWalk, NEW item \in Channels,
           Io!WalkEnergy(item) \/ Io!WalkCpu(item) \/ Io!WalkGpu(item),
           walked' = Append(walked, item), duration' = duration
    PROVE  CorePowerIsOfTheWalk'
<1> DEFINE Row(c) == [device |-> c.device, core |-> c.core,
                      watts |-> << Io!Nanojoules(c), duration \div 1000 >>]
           old == diff.core_power
           new == diff'.core_power
           before == Io!ToSet(walked)
           after == Io!ToSet(walked')
<1>1. after = before \cup {item}
  BY OneMore DEF IoTypes
<1>2. old \in Seq(CoreRows) /\ Io!ToSet(old) = {Row(c) : c \in {i \in before : IsOfACore(i)}}
  BY DEF CorePowerIsOfTheWalk, Io!CoresIn, IsOfACore, CorePowered
<1>3. Io!CoresIn(Io!ToSet(walked))' = {Row(c) : c \in {i \in after : IsOfACore(i)}}
  BY DEF Io!CoresIn, IsOfACore, CorePowered, Io!Nanojoules
<1>4. new = IF IsOfACore(item) THEN Append(old, Row(item)) ELSE old
  BY TurnOfCorePower
<1>5. Row(item) \in CoreRows
  <2>1. Io!Nanojoules(item) \in Nat
    BY NanojoulesAreNat
  <2>2. duration \div 1000 \in Int
    BY DEF IoTypes, Io!Assumption
  <2> QED BY <2>1, <2>2 DEF CoreRows
<1> HIDE DEF Row, old, new, before, after
<1>6. new \in Seq(CoreRows) /\ Io!ToSet(new) = {Row(c) : c \in {i \in after : IsOfACore(i)}}
  <2>1. CASE IsOfACore(item)
    <3>1. new \in Seq(CoreRows) /\ Io!ToSet(new) = Io!ToSet(old) \cup {Row(item)}
      BY <1>2, <1>4, <1>5, <2>1, OneMore
    <3>2. {Row(c) : c \in {i \in after : IsOfACore(i)}}
             = {Row(c) : c \in {i \in before : IsOfACore(i)}} \cup {Row(item)}
      BY <1>1, <2>1
    <3> QED BY <1>2, <3>1, <3>2
  <2>2. CASE ~ IsOfACore(item)
    <3>1. {i \in after : IsOfACore(i)} = {i \in before : IsOfACore(i)}
      BY <1>1, <2>2
    <3> QED BY <1>2, <1>4, <2>2, <3>1
  <2> QED BY <2>1, <2>2
<1> QED BY <1>3, <1>6 DEF CorePowerIsOfTheWalk, new

\* A turn adds at most the mean of a channel of a core.
LEMMA TurnOfFrequencies ==
    ASSUME Io!Assumption, IoTypes, ListsAreClocks, NEW item \in Channels,
           Io!WalkEnergy(item) \/ Io!WalkCpu(item) \/ Io!WalkGpu(item)
    PROVE  /\ DOMAIN diff' = DOMAIN diff
           /\ \/ diff'.freqs = diff.freqs
              \/ /\ item.group = "cpu_stats"
                 /\ diff'.freqs = Append(diff.freqs, [device |-> item.device, core |-> item.core,
                                                      freq |-> Io!MeanClock(item)])
           /\ item.group # "gpu_stats" => diff'.gpu_freq = diff.gpu_freq
           /\ item.group = "gpu_stats" /\ lists.gpu # <<>> => diff'.gpu_freq = Io!MeanClock(item)
<1>1. {"gpu_freq", "freqs", "power", "core_power"} = DOMAIN diff
  BY DEF IoTypes
<1>2. CASE Io!WalkEnergy(item)
  <2> DEFINE power == Io!AddPower(diff.power, item.device, Io!CalculateWatts(item))
             cores == Append(diff.core_power,
                             [device |-> item.device, core |-> item.core, watts |-> Io!CalculateWatts(item)])
             known == item.device \in {"gpu", "cpu", "npu", "dram", "gpu_sram"}
             core == /\ item.device \in {"e_cpu_core", "p_cpu_core", "e_cpu_core_sram", "p_cpu_core_sram"}
                     /\ item.core # 0
  <2>1. item.group = "energy_model"
    BY <1>2 DEF Io!WalkEnergy
  <2>2. \/ diff' = [diff EXCEPT !.power = power] \/ diff' = [diff EXCEPT !.core_power = cores]
        \/ diff' = diff
    <3>1. CASE known
      BY <1>2, <3>1 DEF Io!WalkEnergy
    <3>2. CASE ~ known /\ core
      BY <1>2, <3>2 DEF Io!WalkEnergy
    <3>3. CASE ~ known /\ ~ core
      BY <1>2, <3>3 DEF Io!WalkEnergy
    <3> QED BY <3>1, <3>2, <3>3
  <2> HIDE DEF power, cores
  <2> QED BY <1>1, <2>1, <2>2
<1>3. CASE Io!WalkCpu(item)
  <2>1. item.group = "cpu_stats" /\ item.device \in {"e_cpu_core", "p_cpu_core"}
    BY <1>3 DEF Io!WalkCpu, Io!Assumption
  <2> DEFINE row == [device |-> item.device, core |-> item.core, freq |-> Io!MeanClock(item)]
  <2>2. diff' = diff \/ diff' = [diff EXCEPT !.freqs = Append(@, row)]
    <3>1. CASE Io!ListOf(item) # <<>>
      <4>1. Io!ListOf(item) = Io!ClockOf(item)
        <5>1. CASE item.device = "e_cpu_core"
          BY <3>1, <5>1 DEF Io!ListOf, Io!ClockOf, ListsAreClocks
        <5>2. CASE item.device = "p_cpu_core"
          BY <3>1, <5>2 DEF Io!ListOf, Io!ClockOf, ListsAreClocks
        <5> QED BY <2>1, <5>1, <5>2
      <4>2. Io!CalculateFreq(item, Io!ListOf(item)) = Io!MeanClock(item)
        BY <2>1, <4>1, FreqIsMean
      <4> QED BY <1>3, <4>2 DEF Io!WalkCpu
    <3>2. CASE Io!ListOf(item) = <<>>
      BY <1>3, <3>2 DEF Io!WalkCpu
    <3> QED BY <3>1, <3>2
  <2>3. CASE diff' = diff
    BY <2>1, <2>3
  <2>4. CASE diff' = [diff EXCEPT !.freqs = Append(@, row)]
    <3>1. DOMAIN diff' = DOMAIN diff /\ diff'.freqs = Append(diff.freqs, row) /\ diff'.gpu_freq = diff.gpu_freq
      <4> HIDE DEF row
      <4> QED BY <1>1, <2>4
    <3> QED BY <2>1, <3>1
  <2> QED BY <2>2, <2>3, <2>4
<1>4. CASE Io!WalkGpu(item)
  <2>1. item.group = "gpu_stats" /\ item.device = "gpu"
    BY <1>4 DEF Io!WalkGpu, Io!Assumption
  <2>2. CASE lists.gpu # <<>>
    <3>1. lists.gpu = Io!ClockOf(item)
      BY <2>1, <2>2 DEF Io!ClockOf, ListsAreClocks
    <3>2. Io!CalculateFreq(item, lists.gpu) = Io!MeanClock(item)
      BY <2>1, <3>1, FreqIsMean
    <3>3. diff' = [diff EXCEPT !.gpu_freq = Io!MeanClock(item)]
      BY <1>4, <2>2, <3>2 DEF Io!WalkGpu
    <3> QED BY <1>1, <2>1, <3>3
  <2>3. CASE lists.gpu = <<>>
    BY <1>4, <2>1, <2>3 DEF Io!WalkGpu
  <2> QED BY <2>2, <2>3
<1> QED BY <1>2, <1>3, <1>4

LEMMA WalkKeepsMeans ==
    ASSUME Io!Assumption, IoTypes, ListsAreClocks, Io!FrequenciesAreMeans, NEW item \in Channels,
           Io!WalkEnergy(item) \/ Io!WalkCpu(item) \/ Io!WalkGpu(item),
           \A i \in DOMAIN walked : walked[i].name # item.name,
           walked' = Append(walked, item), lists' = lists
    PROVE  Io!FrequenciesAreMeans' /\ diff'.freqs \in Seq(Rows)
<1>1. walked \in Seq(Channels) /\ diff.freqs \in Seq(Rows)
  BY DEF IoTypes
<1>2. Io!ToSet(walked') = Io!ToSet(walked) \cup {item}
  BY <1>1, OneMore
<1> DEFINE row == [device |-> item.device, core |-> item.core, freq |-> Io!MeanClock(item)]
           IsMean(r, c) == c.group = "cpu_stats" /\ c.device = r.device /\ c.core = r.core
                           /\ r.freq = Io!MeanClock(c)
<1>3. /\ \A r \in Io!ToSet(diff.freqs) : \E c \in Io!ToSet(walked) : IsMean(r, c)
      /\ \A c \in Io!ToSet(walked) : c.group = "gpu_stats" /\ lists.gpu # <<>> => diff.gpu_freq = Io!MeanClock(c)
  BY DEF Io!FrequenciesAreMeans
<1>4. /\ diff'.freqs = diff.freqs \/ (item.group = "cpu_stats" /\ diff'.freqs = Append(diff.freqs, row))
      /\ item.group # "gpu_stats" => diff'.gpu_freq = diff.gpu_freq
      /\ item.group = "gpu_stats" /\ lists.gpu # <<>> => diff'.gpu_freq = Io!MeanClock(item)
  BY TurnOfFrequencies
<1>5. diff'.freqs \in Seq(Rows) /\ \A r \in Io!ToSet(diff'.freqs) : \E c \in Io!ToSet(walked') : IsMean(r, c)
  <2>1. CASE diff'.freqs = diff.freqs
    BY <1>1, <1>2, <1>3, <2>1
  <2>2. CASE item.group = "cpu_stats" /\ diff'.freqs = Append(diff.freqs, row)
    <3>1. row \in Rows
      <4>1. Io!MeanClock(item) \in Fractions
        BY <2>2, FreqIsMean
      <4> QED BY <4>1 DEF Rows
    <3>2. IsMean(row, item)
      BY <2>2
    <3> HIDE DEF row, IsMean
    <3>3. diff'.freqs \in Seq(Rows) /\ Io!ToSet(diff'.freqs) = Io!ToSet(diff.freqs) \cup {row}
      BY <1>1, <2>2, <3>1, OneMore
    <3> QED BY <1>2, <1>3, <3>2, <3>3
  <2> QED BY <1>4, <2>1, <2>2
<1>6. ASSUME NEW c \in Io!ToSet(walked'), c.group = "gpu_stats", lists'.gpu # <<>>
      PROVE  diff'.gpu_freq = Io!MeanClock(c)
  <2>1. CASE item.group = "gpu_stats"
    <3>1. c = item
      <4> SUFFICES ASSUME c \in Io!ToSet(walked) PROVE FALSE
        BY <1>2
      <4>1. PICK i \in DOMAIN walked : c = walked[i]
        BY DEF Io!ToSet
      <4>2. c \in Channels /\ c.name # item.name
        BY <1>1, <4>1
      <4> QED BY <1>6, <2>1, <4>2 DEF Io!Assumption
    <3> QED BY <1>4, <1>6, <2>1, <3>1
  <2>2. CASE item.group # "gpu_stats"
    BY <1>2, <1>3, <1>4, <1>6, <2>2
  <2> QED BY <2>1, <2>2
<1> QED BY <1>5, <1>6 DEF Io!FrequenciesAreMeans

-----------------------------------------------------------------------------
LEMMA InitIoInv == Io!Assumption /\ Io!Init => IoInv
<1> SUFFICES ASSUME Io!Assumption, Io!Init PROVE IoInv
  OBVIOUS
<1>1. /\ brand \in Io!Brands /\ duration \in Durations /\ io_pc = "init"
      /\ \E flaws \in Flaws : pmgr = Io!Pmgr(brand, flaws)
      /\ lists.e = <<>> /\ lists.p = <<>> /\ lists.gpu = <<>> /\ walked = <<>> /\ diff = Io!NoDiff
  BY DEF Io!Init, Io!NoLists
<1>2. /\ DOMAIN diff = {"gpu_freq", "freqs", "power", "core_power"} /\ diff.freqs = <<>>
      /\ DOMAIN diff.power = {}
  BY <1>1 DEF Io!NoDiff
<1>3. IoTypes
  BY <1>1, <1>2 DEF IoTypes
<1>4. ListsAreClocks /\ WalkedOnce
  BY <1>1 DEF ListsAreClocks, WalkedOnce
<1>5. Io!FrequenciesAreMeans
  BY <1>1, <1>2 DEF Io!FrequenciesAreMeans, Io!ToSet
<1>6. PowerIsOfTheWalk
  <2>1. \A d \in Powered : Io!EnergyOf(d, walked) = 0
    BY <1>1, NoEnergy
  <2> QED BY <1>2, <2>1 DEF PowerIsOfTheWalk
<1>7. CorePowerIsOfTheWalk
  <2>1. diff.core_power = <<>>
    BY <1>1 DEF Io!NoDiff
  <2>2. Io!ToSet(walked) = {} /\ Io!ToSet(diff.core_power) = {}
    BY <1>1, <2>1 DEF Io!ToSet
  <2> QED BY <2>1, <2>2 DEF CorePowerIsOfTheWalk, Io!CoresIn
<1> QED BY <1>1, <1>3, <1>4, <1>5, <1>6, <1>7 DEF IoInv

\* The lists stay what they are.
LEMMA ListsRemain ==
    ASSUME ListsAreClocks, UNCHANGED <<brand, pmgr, lists>>,
           io_pc' = "init" => io_pc = "init" /\ UNCHANGED <<walked, diff>>
    PROVE  ListsAreClocks'
<1>1. PICK flaws \in Flaws : pmgr = Io!Pmgr(brand, flaws)
  BY DEF ListsAreClocks
<1>2. pmgr' = Io!Pmgr(brand, flaws)'
  BY <1>1 DEF Io!Pmgr
<1>3. /\ lists'.e \in {<<>>, Clocks.e} /\ lists'.p \in {<<>>, Clocks.p}
      /\ lists'.gpu \in {<<>>, Clocks.gpu}
      /\ io_pc' = "init" => walked' = <<>> /\ diff' = Io!NoDiff
  BY DEF ListsAreClocks
<1> QED BY <1>2, <1>3 DEF ListsAreClocks

\* The power of the cores stays what it is while nothing is walked.
LEMMA CorePowerRemains ==
    ASSUME CorePowerIsOfTheWalk, UNCHANGED <<duration, walked, diff>>
    PROVE  CorePowerIsOfTheWalk'
<1>1. diff'.core_power = diff.core_power /\ walked' = walked
  OBVIOUS
<1>2. Io!CoresIn(Io!ToSet(walked))' = Io!CoresIn(Io!ToSet(walked))
  BY <1>1 DEF Io!CoresIn
<1> QED BY <1>1, <1>2 DEF CorePowerIsOfTheWalk

LEMMA WalkKeepsIoInv == Io!Assumption /\ IoInv /\ Io!Walk => IoInv'
<1> SUFFICES ASSUME Io!Assumption, IoInv, Io!Walk PROVE IoInv'
  OBVIOUS
<1>1. /\ IoTypes /\ ListsAreClocks /\ WalkedOnce
      /\ Io!FrequenciesAreMeans /\ PowerIsOfTheWalk /\ CorePowerIsOfTheWalk
  BY DEF IoInv
<1>2. PICK item \in Channels :
         /\ \A i \in DOMAIN walked : walked[i].name # item.name
         /\ Io!WalkEnergy(item) \/ Io!WalkCpu(item) \/ Io!WalkGpu(item)
         /\ walked' = Append(walked, item)
  BY DEF Io!Walk
<1>3. io_pc = "walk" /\ UNCHANGED <<brand, pmgr, lists, duration, io_report, io_pc>>
  BY DEF Io!Walk
<1>4. Io!FrequenciesAreMeans' /\ diff'.freqs \in Seq(Rows)
  BY <1>1, <1>2, <1>3, WalkKeepsMeans
<1>5. PowerIsOfTheWalk' /\ DOMAIN diff'.power \in SUBSET Powered
  BY <1>1, <1>2, <1>3, WalkKeepsPower
<1>6. DOMAIN diff' = DOMAIN diff
  BY <1>1, <1>2, TurnOfFrequencies
<1>7. IoTypes'
  <2>1. walked' \in Seq(Channels)
    BY <1>1, <1>2 DEF IoTypes
  <2> QED BY <1>1, <1>3, <1>4, <1>5, <1>6, <2>1 DEF IoTypes
<1>8. ListsAreClocks'
  BY <1>1, <1>3, ListsRemain
<1>9. WalkedOnce'
  <2>1. /\ DOMAIN walked' = DOMAIN walked \cup {Len(walked) + 1}
        /\ walked'[Len(walked) + 1] = item /\ Len(walked) + 1 \notin DOMAIN walked
        /\ \A i \in DOMAIN walked : walked'[i] = walked[i]
    BY <1>1, <1>2, OneMore DEF IoTypes
  <2> QED BY <1>1, <1>2, <2>1 DEF WalkedOnce
<1>10. CorePowerIsOfTheWalk'
  BY <1>1, <1>2, <1>3, WalkKeepsCorePower
<1> QED BY <1>3, <1>4, <1>5, <1>7, <1>8, <1>9, <1>10 DEF IoInv

LEMMA IoKeepsInv == Io!Assumption /\ IoInv /\ Io!Next => IoInv'
<1> SUFFICES ASSUME Io!Assumption, IoInv, Io!Next PROVE IoInv'
  OBVIOUS
<1>1. /\ IoTypes /\ ListsAreClocks /\ WalkedOnce
      /\ Io!FrequenciesAreMeans /\ PowerIsOfTheWalk /\ CorePowerIsOfTheWalk
  BY DEF IoInv
<1>2. CASE Io!NoPmgr
  <2>1. io_pc' = "walk" /\ UNCHANGED <<brand, pmgr, lists, duration, walked, diff, io_report>>
    BY <1>2 DEF Io!NoPmgr
  <2>2. IoTypes' /\ ListsAreClocks' /\ WalkedOnce'
    BY <1>1, <2>1, ListsRemain DEF IoTypes, WalkedOnce
  <2>3. Io!FrequenciesAreMeans' /\ PowerIsOfTheWalk'
    BY <1>1, <2>1 DEF Io!FrequenciesAreMeans, PowerIsOfTheWalk
  <2>4. CorePowerIsOfTheWalk'
    BY <1>1, <2>1, CorePowerRemains
  <2> QED BY <2>1, <2>2, <2>3, <2>4 DEF IoInv
<1>3. CASE Io!ReadPmgr
  <2>1. io_pc = "init" /\ io_pc' = "walk" /\ UNCHANGED <<brand, pmgr, duration, walked, diff, io_report>>
    BY <1>3 DEF Io!ReadPmgr
  <2>2. walked = <<>> /\ diff = Io!NoDiff
    BY <1>1, <2>1 DEF ListsAreClocks
  <2>3. ListsAreClocks'
    <3>1. PICK flaws \in Flaws : pmgr = Io!Pmgr(brand, flaws)
      BY <1>1 DEF ListsAreClocks
    <3>2. /\ lists'.e \in {<<>>, Clocks.e} /\ lists'.p \in {<<>>, Clocks.p}
          /\ lists'.gpu \in {<<>>, Clocks.gpu}
      BY <1>1, <1>3, <3>1, ListsAreRead DEF IoTypes
    <3>3. pmgr' = Io!Pmgr(brand, flaws)'
      BY <2>1, <3>1 DEF Io!Pmgr
    <3> QED BY <2>1, <3>2, <3>3 DEF ListsAreClocks
  <2>4. IoTypes' /\ WalkedOnce' /\ PowerIsOfTheWalk'
    BY <1>1, <2>1 DEF IoTypes, WalkedOnce, PowerIsOfTheWalk
  <2>5. Io!FrequenciesAreMeans'
    BY <2>1, <2>2 DEF Io!FrequenciesAreMeans, Io!NoDiff, Io!ToSet
  <2>6. CorePowerIsOfTheWalk'
    BY <1>1, <2>1, CorePowerRemains
  <2> QED BY <2>1, <2>3, <2>4, <2>5, <2>6 DEF IoInv
<1>4. CASE Io!Walk
  BY <1>4, WalkKeepsIoInv
<1>5. CASE Io!Summarise
  <2>1. io_pc' = "done" /\ UNCHANGED <<brand, pmgr, lists, duration, walked, diff>>
    BY <1>5 DEF Io!Summarise
  <2>2. io_report'.cpu_freq = Io!StatValues(Io!Freqs(diff.freqs))
    BY <1>5 DEF Io!Summarise
  <2>3. IoTypes' /\ ListsAreClocks' /\ WalkedOnce'
    BY <1>1, <2>1, ListsRemain DEF IoTypes, WalkedOnce
  <2>4. Io!FrequenciesAreMeans' /\ PowerIsOfTheWalk'
    BY <1>1, <2>1 DEF Io!FrequenciesAreMeans, PowerIsOfTheWalk
  <2>5. CorePowerIsOfTheWalk'
    BY <1>1, <2>1, CorePowerRemains
  <2> QED BY <2>1, <2>2, <2>3, <2>4, <2>5 DEF IoInv
<1> QED BY <1>2, <1>3, <1>4, <1>5 DEF Io!Next

LEMMA OthersKeepIoInv == IoInv /\ UNCHANGED io_vars => IoInv'
<1> SUFFICES ASSUME IoInv, UNCHANGED io_vars PROVE IoInv'
  OBVIOUS
<1>1. UNCHANGED <<brand, pmgr, lists, duration, walked, diff, io_report, io_pc>>
  BY DEF io_vars
<1>2. IoTypes' /\ ListsAreClocks' /\ WalkedOnce'
  BY <1>1, ListsRemain DEF IoInv, IoTypes, WalkedOnce
<1>3. Io!FrequenciesAreMeans' /\ PowerIsOfTheWalk'
  BY <1>1 DEF IoInv, Io!FrequenciesAreMeans, PowerIsOfTheWalk
<1>4. CorePowerIsOfTheWalk'
  BY <1>1, CorePowerRemains DEF IoInv
<1> QED BY <1>1, <1>2, <1>3, <1>4 DEF IoInv

LEMMA IoInvariance == MCSpec => []IoInv
<1>1. MCInit => IoInv
  BY InitIoInv, ReadersAssumption DEF MCInit, IoRests
<1>2. IoInv /\ [MCNext]_<<at_work, vars, smc_vars, load_vars, io_vars>> => IoInv'
  BY IoKeepsInv, OthersKeepIoInv, ReadersAssumption DEF MCNext
<1> QED BY <1>1, <1>2, PTL DEF MCSpec

\* Every frequency of a core, and that of the GPU, is the mean of the clocks of its
\* table weighted with the time in the state of each, the power of a device is the
\* energy of all its channels, each in its own unit, and that of a core the energy
\* of its channel: for any tables, any channels with their states in order, and any
\* number and order of them.
THEOREM FrequencyAndPowerStayExact == MCSpec => []FrequencyAndPowerAreExact
<1>1. ASSUME IoInv PROVE Io!PowerAddsUp
  BY <1>1 DEF IoInv, PowerIsOfTheWalk, CorePowerIsOfTheWalk, Powered, Io!PowerAddsUp
<1>2. IoInv => FrequencyAndPowerAreExact
  BY <1>1 DEF IoInv, FrequencyAndPowerAreExact, Io!FrequencyAndPowerAreExact
<1> QED BY <1>2, IoInvariance, PTL

\* If the first core ran, the extremes of the frequencies are those of cores that
\* ran and no such core is beyond them, and the mean is a number exactly if all
\* cores ran: for any number of cores and any frequencies.
THEOREM ExtremesStayOfCores == MCSpec => []ExtremesAreOfCores
<1>1. ASSUME IoInv PROVE Io!ExtremesAreOfCores
  <2> DEFINE q == Io!Freqs(diff.freqs)
  <2>1. SUFFICES ASSUME io_pc = "done", diff.freqs # <<>>, ~ Io!NotANumber(diff.freqs[1].freq)
                 PROVE  LET ran == {f \in Io!ToSet(q) : ~ Io!NotANumber(f)}
                            stats == io_report.cpu_freq
                        IN /\ stats.max \in ran /\ stats.min \in ran
                           /\ \A f \in ran : ~ Io!Exceeds(f, stats.max) /\ ~ Io!Exceeds(stats.min, f)
                           /\ stats.nan <=> Io!ToSet(q) # ran
    BY DEF Io!ExtremesAreOfCores
  <2>2. diff.freqs \in Seq(Rows) /\ io_report.cpu_freq = Io!StatValues(q)
    BY <1>1, <2>1 DEF IoInv, IoTypes
  <2>3. q \in Seq(Fractions) /\ q # <<>> /\ ~ Io!NotANumber(q[1])
    <3> DEFINE n == Len(diff.freqs)
    <3>1. n \in Nat \ {0} /\ DOMAIN diff.freqs = 1..n /\ \A i \in 1..n : diff.freqs[i].freq \in Fractions
      <4>1. diff.freqs \in Seq(Rows) /\ diff.freqs # <<>>
        BY <2>1, <2>2
      <4>2. n \in Nat \ {0} /\ DOMAIN diff.freqs = 1..n /\ \A i \in 1..n : diff.freqs[i] \in Rows
        <5> HIDE DEF q
        <5> QED BY <4>1
      <4>3. \A r \in Rows : r.freq \in Fractions
        BY DEF Rows
      <4> QED BY <4>2, <4>3
    <3>2. q = [i \in 1..n |-> diff.freqs[i].freq]
      BY <3>1 DEF Io!Freqs
    <3> HIDE DEF n, q
    <3>3. q \in Seq(Fractions) /\ Len(q) = n /\ q[1] = diff.freqs[1].freq
      BY <3>1, <3>2
    <3> QED BY <2>1, <3>1, <3>3
  <2> HIDE DEF q
  <2> DEFINE high == Io!StatValues(q).max
             low == Io!StatValues(q).min
             ran == {f \in Io!ToSet(q) : ~ Io!NotANumber(f)}
  <2>4. ~ Io!NotANumber(high) /\ (\E j \in 1..Len(q) : high = q[j])
        /\ \A j \in 1..Len(q) : ~ Io!Exceeds(q[j], high)
    BY <2>3, MaxIsGreatest
  <2>5. ~ Io!NotANumber(low) /\ (\E j \in 1..Len(q) : low = q[j])
        /\ \A j \in 1..Len(q) : ~ Io!Exceeds(low, q[j])
    BY <2>3, MinIsLeast
  <2>6. Io!StatValues(q).nan <=> \E i \in DOMAIN q : Io!NotANumber(q[i])
    BY <2>3 DEF Io!StatValues
  <2>7. Io!ToSet(q) = {q[i] : i \in 1..Len(q)} /\ DOMAIN q = 1..Len(q)
    BY <2>3 DEF Io!ToSet
  <2> HIDE DEF high, low
  <2>8. high \in ran /\ low \in ran
    BY <2>4, <2>5, <2>7
  <2>9. \A f \in ran : ~ Io!Exceeds(f, high) /\ ~ Io!Exceeds(low, f)
    BY <2>4, <2>5, <2>7
  <2>10. Io!StatValues(q).nan <=> Io!ToSet(q) # ran
    BY <2>6, <2>7
  <2> QED BY <2>2, <2>8, <2>9, <2>10 DEF high, low
<1>2. IoInv => ExtremesAreOfCores
  BY <1>1 DEF ExtremesAreOfCores
<1> QED BY <1>2, IoInvariance, PTL
-----------------------------------------------------------------------------
(***************************************************************************)
(* The sensors: the rows of the tables, and their places among the valid   *)
(* ones.                                                                   *)
(***************************************************************************)
TemperatureDevices == {"e_cpu_core", "p_cpu_core", "s_cpu_core", "gpu_core", "dram", "nand",
                       "battery", "unknown"}
DevicesIn(t) == IF t = 6 THEN {"fan"} ELSE TemperatureDevices
RowsFor(devices) == [device : devices, num : Nat]

\* A row has a device and a number.
LEMMA RowsAreSeqs ==
    ASSUME NEW devices, NEW device \in devices, NEW n \in Nat
    PROVE  /\ Smc!Rows(device, Smc!Nums(n)) \in Seq(RowsFor(devices))
           /\ Len(Smc!Rows(device, Smc!Nums(n))) = n
<1> DEFINE rows == [i \in 1..n |-> [device |-> device, num |-> i]]
<1>1. rows \in Seq(RowsFor(devices)) /\ Len(rows) = n
  BY DEF RowsFor
<1>2. Smc!Rows(device, Smc!Nums(n)) = rows
  BY DEF Smc!Rows, Smc!Nums
<1> HIDE DEF rows
<1> QED BY <1>1, <1>2

LEMMA RowsOfSeq ==
    ASSUME NEW devices, NEW device \in devices, NEW nums \in Seq(Nat)
    PROVE  Smc!Rows(device, nums) \in Seq(RowsFor(devices)) /\ Len(Smc!Rows(device, nums)) = Len(nums)
<1> DEFINE n == Len(nums)
           rows == [i \in 1..n |-> [device |-> device, num |-> nums[i]]]
<1>1. n \in Nat /\ DOMAIN nums = 1..n /\ \A i \in 1..n : nums[i] \in Nat
  OBVIOUS
<1> HIDE DEF n
<1>2. rows \in Seq(RowsFor(devices)) /\ Len(rows) = n
  <2>1. \A i \in 1..n : [device |-> device, num |-> nums[i]] \in RowsFor(devices)
    BY <1>1 DEF RowsFor
  <2> QED BY <1>1, <2>1
<1>3. Smc!Rows(device, nums) = rows
  BY <1>1 DEF Smc!Rows
<1> HIDE DEF rows
<1> QED BY <1>2, <1>3 DEF n

\* The tables have up to 18 rows, of devices that no other report has.
LEMMA TableFacts ==
    ASSUME NEW b, NEW t \in 1..6
    PROVE  /\ Smc!KnownKeys(b, Smc!Tables[t]) \in Seq(RowsFor(DevicesIn(t)))
           /\ Len(Smc!KnownKeys(b, Smc!Tables[t])) \in 0..18
<1> DEFINE D == TemperatureDevices
           S == Seq(RowsFor(D))
           R(device, n) == Smc!Rows(device, Smc!Nums(n))
<1>1. ASSUME NEW device \in D, NEW n \in Nat PROVE R(device, n) \in S /\ Len(R(device, n)) = n
  BY RowsAreSeqs
<1>2. Smc!Padding \in RowsFor(D)
  BY DEF Smc!Padding, RowsFor, TemperatureDevices
<1> DEFINE two == << Smc!Padding, Smc!Padding >>
           four == << Smc!Padding, Smc!Padding, Smc!Padding, Smc!Padding >>
<1>3. two \in S /\ Len(two) = 2 /\ four \in S /\ Len(four) = 4 /\ <<>> \in S /\ Len(<<>>) \in 0..18
  <2> HIDE DEF D
  <2> QED BY <1>2
<1> HIDE DEF two, four
<1>4. ASSUME NEW x \in S, NEW y \in S PROVE x \o y \in S /\ Len(x \o y) = Len(x) + Len(y)
  OBVIOUS
<1>5. Smc!CpuCoreRows(b) \in S /\ Len(Smc!CpuCoreRows(b)) \in 0..18
  <2>1. "e_cpu_core" \in D /\ "p_cpu_core" \in D /\ "s_cpu_core" \in D
    BY DEF TemperatureDevices
  <2>2. \A n \in Nat : /\ R("e_cpu_core", n) \in S /\ Len(R("e_cpu_core", n)) = n
                       /\ R("p_cpu_core", n) \in S /\ Len(R("p_cpu_core", n)) = n
                       /\ R("s_cpu_core", n) \in S /\ Len(R("s_cpu_core", n)) = n
    BY <1>1, <2>1
  <2> HIDE DEF R, S
  <2>3. \A m, n \in Nat : /\ R("e_cpu_core", m) \o R("p_cpu_core", n) \in S
                          /\ R("s_cpu_core", m) \o R("p_cpu_core", n) \in S
                          /\ Len(R("e_cpu_core", m) \o R("p_cpu_core", n)) = m + n
                          /\ Len(R("s_cpu_core", m) \o R("p_cpu_core", n)) = m + n
    <3>1. ASSUME NEW m \in Nat, NEW n \in Nat, NEW x \in S, NEW y \in S, Len(x) = m, Len(y) = n
          PROVE  x \o y \in S /\ Len(x \o y) = m + n
      <4>1. Len(x \o y) = Len(x) + Len(y)
        BY <1>4
      <4> QED BY <1>4, <3>1, <4>1
    <3>2. ASSUME NEW m \in Nat, NEW n \in Nat
          PROVE  /\ R("e_cpu_core", m) \o R("p_cpu_core", n) \in S
                 /\ R("s_cpu_core", m) \o R("p_cpu_core", n) \in S
                 /\ Len(R("e_cpu_core", m) \o R("p_cpu_core", n)) = m + n
                 /\ Len(R("s_cpu_core", m) \o R("p_cpu_core", n)) = m + n
      <4> DEFINE x == R("e_cpu_core", m)
                 y == R("p_cpu_core", n)
                 z == R("s_cpu_core", m)
      <4>1. x \in S /\ y \in S /\ z \in S /\ Len(x) = m /\ Len(y) = n /\ Len(z) = m
        BY <2>2
      <4> HIDE DEF x, y, z
      <4>2. x \o y \in S /\ Len(x \o y) = m + n /\ z \o y \in S /\ Len(z \o y) = m + n
        BY <3>1, <4>1
      <4> QED BY <4>2 DEF x, y, z
    <3> QED BY <3>2
  <2> DEFINE rows == R("e_cpu_core", 4) \o R("p_cpu_core", 8)
  <2>4. rows \in S /\ Len(rows) = 12
    <3>1. Len(rows) = 4 + 8
      BY <2>3
    <3> QED BY <2>3, <3>1
  <2> HIDE DEF rows
  <2>5. rows \o two \in S /\ Len(rows \o two) = 14 /\ rows \o four \in S /\ Len(rows \o four) = 16
    <3>1. Len(rows \o two) = Len(rows) + Len(two)
      BY <1>3, <1>4, <2>4
    <3>2. Len(rows \o four) = Len(rows) + Len(four)
      BY <1>3, <1>4, <2>4
    <3> QED BY <1>3, <1>4, <2>4, <3>1, <3>2
  <2>6. /\ R("e_cpu_core", 2) \o R("p_cpu_core", 8) \in S
        /\ R("e_cpu_core", 4) \o R("p_cpu_core", 12) \in S
        /\ R("s_cpu_core", 6) \o R("p_cpu_core", 12) \in S
        /\ Len(R("e_cpu_core", 2) \o R("p_cpu_core", 8)) = 2 + 8
        /\ Len(R("e_cpu_core", 4) \o R("p_cpu_core", 12)) = 4 + 12
        /\ Len(R("s_cpu_core", 6) \o R("p_cpu_core", 12)) = 6 + 12
    BY <2>3
  <2> QED BY <1>3, <2>5, <2>6 DEF Smc!CpuCoreRows, R, rows, two, four
<1> HIDE DEF R
<1>6. ASSUME NEW n \in 0..18, NEW device \in D
      PROVE  R(device, n) \in S /\ Len(R(device, n)) \in 0..18
  <2>1. n \in Nat
    OBVIOUS
  <2>2. R(device, n) \in S /\ Len(R(device, n)) = n
    BY <1>1, <2>1
  <2> HIDE DEF S, D
  <2> QED BY <2>2
<1>7. \A n \in 0..18 : /\ R("gpu_core", n) \in S /\ Len(R("gpu_core", n)) \in 0..18
                       /\ R("dram", n) \in S /\ Len(R("dram", n)) \in 0..18
                       /\ R("nand", n) \in S /\ Len(R("nand", n)) \in 0..18
                       /\ R("battery", n) \in S /\ Len(R("battery", n)) \in 0..18
  <2>1. "gpu_core" \in D /\ "dram" \in D /\ "nand" \in D /\ "battery" \in D
    BY DEF TemperatureDevices
  <2> HIDE DEF S, D
  <2> QED BY <1>6, <2>1
<1>8. /\ Smc!Rows("gpu_core", Smc!Nums(2) \o Smc!Nums(8)) \in S
      /\ Len(Smc!Rows("gpu_core", Smc!Nums(2) \o Smc!Nums(8))) \in 0..18
  <2> DEFINE nums == Smc!Nums(2) \o Smc!Nums(8)
  <2>1. nums \in Seq(Nat) /\ Len(nums) = 10
    BY DEF Smc!Nums
  <2>2. "gpu_core" \in D
    BY DEF TemperatureDevices
  <2> HIDE DEF nums
  <2> DEFINE rows == Smc!Rows("gpu_core", nums)
  <2>3. rows \in S /\ Len(rows) = Len(nums)
    BY <2>1, <2>2, RowsOfSeq
  <2> HIDE DEF rows, S
  <2>4. rows \in S /\ Len(rows) \in 0..18
    BY <2>1, <2>3
  <2> QED BY <2>4 DEF nums, rows
<1>9. Smc!GpuCoreRows(b) \in S /\ Len(Smc!GpuCoreRows(b)) \in 0..18
  <2>1. /\ R("gpu_core", 4) \in S /\ Len(R("gpu_core", 4)) \in 0..18
        /\ R("gpu_core", 2) \in S /\ Len(R("gpu_core", 2)) \in 0..18
        /\ R("gpu_core", 8) \in S /\ Len(R("gpu_core", 8)) \in 0..18
    BY <1>7
  <2> HIDE DEF S, D
  <2> QED BY <1>3, <1>8, <2>1 DEF Smc!GpuCoreRows, R
<1>10. Smc!DramRows(b) \in S /\ Len(Smc!DramRows(b)) \in 0..18
  <2>1. /\ R("dram", 4) \in S /\ Len(R("dram", 4)) \in 0..18
        /\ R("dram", 3) \in S /\ Len(R("dram", 3)) \in 0..18
    BY <1>7
  <2> HIDE DEF S, D
  <2> QED BY <1>3, <2>1 DEF Smc!DramRows, R
<1>11. /\ R("nand", 1) \in S /\ Len(R("nand", 1)) \in 0..18
       /\ R("battery", 10) \in S /\ Len(R("battery", 10)) \in 0..18
  BY <1>7
<1>12. /\ R("fan", 10) \in Seq(RowsFor({"fan"}))
       /\ Len(R("fan", 10)) \in 0..18
  <2> DEFINE devices == {"fan"}
             n == 10
  <2>1. "fan" \in devices /\ n \in Nat
    OBVIOUS
  <2> HIDE DEF devices, n
  <2>2. Smc!Rows("fan", Smc!Nums(n)) \in Seq(RowsFor(devices)) /\ Len(Smc!Rows("fan", Smc!Nums(n))) = n
    BY <2>1, RowsAreSeqs
  <2> QED BY <2>2 DEF R, devices, n
<1>13. CASE t = 6
  <2>1. Smc!Tables[t] = "fan"
    BY <1>13 DEF Smc!Tables
  <2> QED BY <1>12, <1>13, <2>1 DEF Smc!KnownKeys, DevicesIn, R
<1>14. CASE t # 6
  <2>1. Smc!Tables[t] \in {"cpu_core", "gpu_core", "dram", "storage", "battery"}
    BY <1>14 DEF Smc!Tables
  <2>2. DevicesIn(t) = D
    BY <1>14 DEF DevicesIn
  <2> HIDE DEF S, D
  <2> QED BY <1>5, <1>9, <1>10, <1>11, <2>1, <2>2 DEF Smc!KnownKeys, S, R
<1> QED BY <1>13, <1>14

RowsWith(b, devices) == {r \in Smc!RowsOf(b) : Smc!RowAt(b, r) \in RowsFor(devices)}

LEMMA TableRowsAreRows ==
    ASSUME NEW b, NEW t \in 1..6
    PROVE  Smc!RowsOfTable(b, t) \in Seq(RowsWith(b, DevicesIn(t)))
<1> DEFINE keys == Smc!KnownKeys(b, Smc!Tables[t])
           n == Len(keys)
           rows == [i \in 1..n |-> << t, i >>]
<1>1. keys \in Seq(RowsFor(DevicesIn(t))) /\ n \in 0..18
  BY TableFacts
<1> HIDE DEF keys
<1>2. DOMAIN keys = 1..n /\ \A i \in 1..n : keys[i] \in RowsFor(DevicesIn(t))
  BY <1>1
<1>3. ASSUME NEW i \in 1..n PROVE rows[i] \in RowsWith(b, DevicesIn(t))
  <2>1. i \in 1..18 /\ i <= n
    <3> HIDE DEF n
    <3> QED BY <1>1
  <2>2. << t, i >> \in Smc!RowsOf(b)
    BY <2>1 DEF Smc!RowsOf, keys
  <2>3. Smc!RowAt(b, << t, i >>) = keys[i]
    BY DEF Smc!RowAt, keys
  <2> QED BY <1>2, <2>2, <2>3 DEF RowsWith
<1>4. rows \in Seq(RowsWith(b, DevicesIn(t)))
  <2> HIDE DEF n
  <2>1. rows \in [1..n -> RowsWith(b, DevicesIn(t))]
    BY <1>3
  <2> HIDE DEF rows
  <2> QED BY <1>1, <2>1
<1>5. Smc!RowsOfTable(b, t) = rows
  BY <1>2 DEF Smc!RowsOfTable, keys
<1> QED BY <1>4, <1>5

\* What a sample reads are rows of the temperatures' devices, or of fans.
LEMMA ReportRows ==
    ASSUME NEW b
    PROVE  /\ Smc!TemperatureRows(b) \in Seq(RowsWith(b, TemperatureDevices))
           /\ Smc!FanRows(b) \in Seq(RowsWith(b, {"fan"}))
<1> DEFINE Q == Seq(RowsWith(b, TemperatureDevices))
           T(t) == Smc!RowsOfTable(b, t)
<1>1. T(1) \in Q /\ T(2) \in Q /\ T(3) \in Q /\ T(4) \in Q /\ T(5) \in Q
  <2>1. \A t \in 1..5 : DevicesIn(t) = TemperatureDevices
    BY DEF DevicesIn
  <2>2. \A t \in 1..5 : T(t) \in Seq(RowsWith(b, DevicesIn(t)))
    BY TableRowsAreRows
  <2> HIDE DEF T
  <2>3. \A t \in 1..5 : T(t) \in Q
    BY <2>1, <2>2
  <2> QED BY <2>3
<1>2. ASSUME NEW x \in Q, NEW y \in Q PROVE x \o y \in Q
  OBVIOUS
<1>3. Smc!TemperatureRows(b) = (((T(1) \o T(2)) \o T(3)) \o T(4)) \o T(5)
  BY DEF Smc!TemperatureRows
<1> HIDE DEF T, Q
<1>4. T(1) \o T(2) \in Q
  BY <1>1, <1>2
<1>5. (T(1) \o T(2)) \o T(3) \in Q
  BY <1>1, <1>2, <1>4
<1>6. ((T(1) \o T(2)) \o T(3)) \o T(4) \in Q
  BY <1>1, <1>2, <1>5
<1>7. (((T(1) \o T(2)) \o T(3)) \o T(4)) \o T(5) \in Q
  BY <1>1, <1>2, <1>6
<1>8. Smc!FanRows(b) \in Seq(RowsWith(b, {"fan"}))
  BY TableRowsAreRows DEF Smc!FanRows, DevicesIn
<1> QED BY <1>3, <1>7, <1>8 DEF Q

\* The place of a number among the members of a set.
PlaceIn(S, k) == Cardinality({i \in S : i <= k})

LEMMA PlaceIs == \A S, k : Smc!Place(S, k) = PlaceIn(S, k)
  BY DEF Smc!Place, PlaceIn, Smc!Cardinality, Cardinality

LEMMA PlaceGrows ==
    ASSUME NEW n \in Nat, NEW S \in SUBSET (1..n)
    PROVE  /\ \A k \in Int : PlaceIn(S, k) \in Nat
           /\ PlaceIn(S, 0) = 0 /\ PlaceIn(S, n) = Cardinality(S)
           /\ \A k \in 1..n : PlaceIn(S, k) = PlaceIn(S, k - 1) + (IF k \in S THEN 1 ELSE 0)
           /\ \A j, k \in Int : j <= k => PlaceIn(S, j) <= PlaceIn(S, k)
           /\ \A k \in S : PlaceIn(S, k) \in 1..Cardinality(S)
<1> DEFINE U(k) == {i \in S : i <= k}
<1>0. \A i \in S : i \in Int /\ 1 <= i /\ i <= n
  OBVIOUS
<1>1. IsFiniteSet(S) /\ \A k \in Int : IsFiniteSet(U(k)) /\ U(k) \in SUBSET S
  <2>1. IsFiniteSet(1..n)
    BY FS_Interval
  <2>2. IsFiniteSet(S)
    BY <2>1, FS_Subset
  <2>3. \A k \in Int : U(k) \in SUBSET S
    OBVIOUS
  <2> HIDE DEF U
  <2> QED BY <2>2, <2>3, FS_Subset
<1>2. \A k \in Int : Cardinality(U(k)) \in Nat
  <2> HIDE DEF U
  <2> QED BY <1>1, FS_CardinalityType
<1>3. U(0) = {} /\ U(n) = S
  <2>1. \A i \in S : ~ (i <= 0) /\ i <= n
    BY <1>0
  <2> QED BY <2>1
<1>4. Cardinality(U(0)) = 0
  BY <1>3, FS_EmptySet
<1>5. ASSUME NEW k \in 1..n
      PROVE  Cardinality(U(k)) = Cardinality(U(k - 1)) + (IF k \in S THEN 1 ELSE 0)
  <2>1. CASE k \in S
    <3>1. U(k) = U(k - 1) \cup {k} /\ k \notin U(k - 1)
      <4>1. \A i \in S : i <= k <=> i <= k - 1 \/ i = k
        BY <1>0
      <4>2. ~ (k <= k - 1)
        OBVIOUS
      <4> QED BY <2>1, <4>1, <4>2
    <3>2. k - 1 \in Int
      OBVIOUS
    <3> HIDE DEF U
    <3>3. IsFiniteSet(U(k - 1))
      BY <1>1, <3>2
    <3>4. Cardinality(U(k - 1) \cup {k}) = Cardinality(U(k - 1)) + 1
      BY <3>1, <3>3, FS_AddElement
    <3> QED BY <2>1, <3>1, <3>4
  <2>2. CASE k \notin S
    <3>1. U(k) = U(k - 1)
      <4>1. \A i \in S : i <= k <=> i <= k - 1
        BY <1>0, <2>2
      <4> QED BY <4>1
    <3>2. k - 1 \in Int
      OBVIOUS
    <3> HIDE DEF U
    <3>3. Cardinality(U(k - 1)) \in Nat
      BY <1>2, <3>2
    <3> QED BY <2>2, <3>1, <3>3
  <2> QED BY <2>1, <2>2
<1>6. ASSUME NEW j \in Int, NEW k \in Int, j <= k PROVE Cardinality(U(j)) <= Cardinality(U(k))
  <2>1. U(j) \in SUBSET U(k)
    <3>1. \A i \in S : i <= j => i <= k
      BY <1>0, <1>6
    <3> QED BY <3>1
  <2>2. IsFiniteSet(U(k))
    BY <1>1
  <2> HIDE DEF U
  <2> QED BY <2>1, <2>2, FS_Subset
<1>7. ASSUME NEW k \in S PROVE Cardinality(U(k)) \in 1..Cardinality(S)
  <2>1. k \in 1..n /\ k - 1 \in Int /\ n \in Int /\ k \in Int
    OBVIOUS
  <2> HIDE DEF U
  <2>2. Cardinality(U(k)) = Cardinality(U(k - 1)) + 1
    BY <1>5, <2>1
  <2>3. Cardinality(U(k - 1)) \in Nat /\ Cardinality(U(n)) \in Nat
    BY <1>2, <2>1
  <2>4. Cardinality(U(k)) <= Cardinality(U(n))
    BY <1>6, <2>1
  <2> QED BY <1>3, <2>2, <2>3, <2>4
<1> HIDE DEF U
<1>8. \A k : PlaceIn(S, k) = Cardinality(U(k))
  BY DEF PlaceIn, U
<1> QED BY <1>2, <1>3, <1>4, <1>5, <1>6, <1>7, <1>8

-----------------------------------------------------------------------------
\* What is read of a row, and the sample that reads a set of the rows.
Metrics(devices) == [device : devices, num : Nat, value : Nat]
Readings(b) == [Smc!RowsOf(b) -> Nat \cup {Smc!NoAnswer}]
MetricIn(b, r, reads) ==
    [device |-> Smc!RowAt(b, r).device, num |-> Smc!RowAt(b, r).num,
     value |-> IF Smc!RowAt(b, r) = Smc!Padding \/ reads[r] = Smc!NoAnswer THEN 0 ELSE reads[r]]
IsReading(b, metrics, rows, S, reads) ==
    /\ Len(metrics) = Cardinality(S)
    /\ \A k \in S : metrics[PlaceIn(S, k)] = MetricIn(b, rows[k], reads)

\* The rows that are valid, by their indices.
Among(rows, v) == {k \in DOMAIN rows : rows[k] \in v}

LEMMA MetricTypes ==
    ASSUME NEW b, NEW devices, NEW r \in RowsWith(b, devices), NEW reads \in Readings(b)
    PROVE  MetricIn(b, r, reads) \in Metrics(devices)
<1>1. Smc!RowAt(b, r) \in RowsFor(devices) /\ r \in Smc!RowsOf(b)
  BY DEF RowsWith
<1>2. Smc!RowAt(b, r).device \in devices /\ Smc!RowAt(b, r).num \in Nat
  BY <1>1 DEF RowsFor
<1>3. reads[r] \in Nat \cup {Smc!NoAnswer}
  BY <1>1 DEF Readings
<1>4. (IF Smc!RowAt(b, r) = Smc!Padding \/ reads[r] = Smc!NoAnswer THEN 0 ELSE reads[r]) \in Nat
  BY <1>3
<1> QED BY <1>2, <1>4 DEF MetricIn, Metrics

LEMMA ReadRowIs ==
    ASSUME NEW metrics, NEW r, NEW reads
    PROVE  Smc!ReadRow(metrics, r, reads)
              = IF r \in valid THEN Append(metrics, MetricIn(smc_brand, r, reads)) ELSE metrics
  BY DEF Smc!ReadRow, MetricIn

\* A sample has a metric of each valid row, in order.
LEMMA ReadingIs ==
    ASSUME NEW devices, NEW rows \in Seq(RowsWith(smc_brand, devices)),
           NEW reads \in Readings(smc_brand)
    PROVE  /\ Smc!ReadKnownKeys(rows, reads) \in Seq(Metrics(devices))
           /\ IsReading(smc_brand, Smc!ReadKnownKeys(rows, reads), rows, Among(rows, valid), reads)
<1> DEFINE n == Len(rows)
           V == Seq(Metrics(devices))
           M(k) == MetricIn(smc_brand, rows[k], reads)
           S == Among(rows, valid)
           step == [k \in 1..n |-> [v \in V |-> Smc!ReadRow(v, rows[k], reads)]]
           Body(f) == [k \in 0..n |-> IF k = 0 THEN <<>> ELSE Smc!ReadRow(f[k - 1], rows[k], reads)]
           fold == CHOOSE f : f = Body(f)
<1>1. n \in Nat /\ DOMAIN rows = 1..n /\ <<>> \in V
  OBVIOUS
<1>2. ASSUME NEW k \in 1..n
      PROVE  /\ M(k) \in Metrics(devices)
             /\ \A v \in V : Smc!ReadRow(v, rows[k], reads) = IF k \in S THEN Append(v, M(k)) ELSE v
  <2>1. rows[k] \in RowsWith(smc_brand, devices)
    OBVIOUS
  <2>2. M(k) \in Metrics(devices)
    <3> HIDE DEF n
    <3> QED BY <2>1, MetricTypes
  <2>3. k \in S <=> rows[k] \in valid
    BY <1>1 DEF Among
  <2> HIDE DEF S, M, V
  <2> QED BY <2>2, <2>3, ReadRowIs DEF M
<1>3. step \in [1..n -> [V -> V]]
  <2>1. ASSUME NEW k \in 1..n, NEW v \in V PROVE Smc!ReadRow(v, rows[k], reads) \in V
    <3>1. Smc!ReadRow(v, rows[k], reads) = IF k \in S THEN Append(v, M(k)) ELSE v
      BY <1>2
    <3>2. M(k) \in Metrics(devices)
      BY <1>2
    <3> HIDE DEF M, S, n
    <3>3. Append(v, M(k)) \in V
      BY <3>2
    <3> QED BY <3>1, <3>3
  <2> HIDE DEF V, n
  <2> QED BY <2>1
<1>4. PICK acc \in [0..n -> V] : Accumulates(acc, n, <<>>, step)
  <2> DEFINE none == <<>>
  <2>1. none \in V /\ n \in Nat
    BY <1>1
  <2> HIDE DEF step, none, V, n
  <2>2. \E acc \in [0..n -> V] : Accumulates(acc, n, none, step)
    BY <1>3, <2>1, AccumulationExists
  <2> QED BY <2>2 DEF none
<1>5. acc = Body(acc)
  <2>1. ASSUME NEW k \in 0..n
        PROVE  acc[k] = IF k = 0 THEN <<>> ELSE Smc!ReadRow(acc[k - 1], rows[k], reads)
    <3>1. CASE k = 0
      BY <1>4, <3>1 DEF Accumulates
    <3>2. CASE k # 0
      <4>1. k \in 1..n /\ k - 1 \in 0..n
        BY <1>1, <3>2
      <4>2. acc[k - 1] \in V
        BY <4>1
      <4>3. acc[k] = step[k][acc[k - 1]]
        BY <1>4, <4>1 DEF Accumulates
      <4> HIDE DEF V, n
      <4> QED BY <3>2, <4>1, <4>2, <4>3
    <3> QED BY <3>1, <3>2
  <2> HIDE DEF V, n, step
  <2> QED BY <2>1
<1>6. fold = Body(fold)
  <2> HIDE DEF Body
  <2> QED BY <1>5
<1>7. fold[0] = <<>> /\ \A k \in 1..n : fold[k] = Smc!ReadRow(fold[k - 1], rows[k], reads)
  <2>1. 0 \in 0..n /\ \A k \in 1..n : k \in 0..n /\ k # 0
    BY <1>1
  <2> HIDE DEF fold, n
  <2> QED BY <1>6, <2>1
<1>8. Smc!ReadKnownKeys(rows, reads) = fold[n]
  BY DEF Smc!ReadKnownKeys
<1> HIDE DEF fold, step, Body
<1>9. S \in SUBSET (1..n)
  BY <1>1 DEF Among
<1> DEFINE Right(k) == /\ fold[k] \in V
                       /\ Len(fold[k]) = PlaceIn(S, k)
                       /\ \A j \in S : j <= k => fold[k][PlaceIn(S, j)] = M(j)
           P == {k \in Nat : k <= n => Right(k)}
<1> HIDE DEF M, S, n, V
<1>10. \A j \in S : j \in Int /\ 1 <= j /\ j <= n
  BY <1>1, <1>9
<1>11. 0 \in P
  <2>1. \A j \in S : ~ (j <= 0)
    BY <1>10
  <2>2. PlaceIn(S, 0) = 0
    BY <1>1, <1>9, PlaceGrows
  <2> QED BY <1>1, <1>7, <2>1, <2>2
<1>12. ASSUME NEW k \in Nat, k \in P PROVE k + 1 \in P
  <2> SUFFICES ASSUME k + 1 <= n PROVE Right(k + 1)
    OBVIOUS
  <2> DEFINE l == k + 1
             q == fold[k]
  <2>1. l \in 1..n /\ l - 1 = k /\ k <= n /\ k \in Int
    BY <1>1
  <2>2. Right(k)
    BY <1>12, <2>1
  <2>3. fold[l] = IF l \in S THEN Append(q, M(l)) ELSE q
    <3>1. fold[l] = Smc!ReadRow(q, rows[l], reads)
      BY <1>7, <2>1
    <3> HIDE DEF l, q
    <3> QED BY <1>2, <2>1, <2>2, <3>1 DEF q
  <2>4. PlaceIn(S, l) = PlaceIn(S, k) + (IF l \in S THEN 1 ELSE 0) /\ PlaceIn(S, k) \in Nat
    <3> HIDE DEF l
    <3>1. PlaceIn(S, l) = PlaceIn(S, l - 1) + (IF l \in S THEN 1 ELSE 0)
      <4>1. \A i \in 1..n : PlaceIn(S, i) = PlaceIn(S, i - 1) + (IF i \in S THEN 1 ELSE 0)
        BY <1>1, <1>9, PlaceGrows
      <4> QED BY <2>1, <4>1
    <3>2. PlaceIn(S, k) \in Nat
      BY <1>1, <1>9, <2>1, PlaceGrows
    <3> QED BY <2>1, <3>1, <3>2
  <2>5. ASSUME NEW j \in S, j <= k PROVE PlaceIn(S, j) \in 1..Len(q)
    <3>1. PlaceIn(S, j) <= PlaceIn(S, k) /\ PlaceIn(S, j) \in 1..Cardinality(S)
      BY <1>1, <1>9, <1>10, <2>1, <2>5, PlaceGrows
    <3> QED BY <2>2, <2>4, <3>1
  <2>6. CASE l \in S
    <3> DEFINE m == M(l)
    <3>1. m \in Metrics(devices) /\ q \in Seq(Metrics(devices))
      BY <1>2, <2>1, <2>2 DEF V
    <3> HIDE DEF q, m, l
    <3>2. /\ Append(q, m) \in V /\ Len(Append(q, m)) = Len(q) + 1
          /\ Append(q, m)[Len(q) + 1] = m
          /\ \A i \in 1..Len(q) : Append(q, m)[i] = q[i]
      BY <3>1 DEF V
    <3>3. PlaceIn(S, l) = Len(q) + 1
      BY <2>2, <2>4, <2>6 DEF q
    <3>4. ASSUME NEW j \in S, j <= l PROVE Append(q, m)[PlaceIn(S, j)] = M(j)
      <4>1. CASE j = l
        BY <3>2, <3>3, <4>1 DEF m
      <4>2. CASE j # l
        <5>1. j <= k
          BY <1>10, <2>1, <3>4, <4>2 DEF l
        <5>2. PlaceIn(S, j) \in 1..Len(q) /\ q[PlaceIn(S, j)] = M(j)
          BY <2>2, <2>5, <5>1 DEF q
        <5> QED BY <3>2, <5>2
      <4> QED BY <4>1, <4>2
    <3>5. fold[l] = Append(q, m)
      BY <2>3, <2>6 DEF m
    <3>6. Right(l)
      BY <3>2, <3>3, <3>4, <3>5
    <3> QED BY <3>6 DEF l
  <2>7. CASE l \notin S
    <3>1. fold[l] = q /\ PlaceIn(S, l) = PlaceIn(S, k)
      BY <2>3, <2>4, <2>7
    <3>2. \A j \in S : j <= l => j <= k
      BY <1>10, <2>1, <2>7
    <3> QED BY <2>2, <3>1, <3>2
  <2> QED BY <2>6, <2>7
<1>13. n \in P
  <2> HIDE DEF P
  <2> QED BY <1>1, <1>11, <1>12, SetInduction
<1>14. Right(n)
  BY <1>1, <1>13
<1>15. PlaceIn(S, n) = Cardinality(S)
  BY <1>1, <1>9, PlaceGrows
<1> QED BY <1>8, <1>10, <1>14, <1>15 DEF IsReading, M, S, V

-----------------------------------------------------------------------------
\* What a total comes to, given what each prefix comes to.
LEMMA TotalIs ==
    ASSUME NEW q, Len(q) \in Nat, NEW acc,
           acc[0] = 0, \A i \in 1..Len(q) : acc[i] = acc[i - 1] + q[i]
    PROVE  Smc!Total(q) = acc[Len(q)]
<1> DEFINE n == Len(q)
           Body(f) == [i \in 0..n |-> IF i = 0 THEN 0 ELSE f[i - 1] + q[i]]
           fold == CHOOSE f : f = Body(f)
           a == [i \in 0..n |-> acc[i]]
<1>1. a = Body(a)
  <2>1. ASSUME NEW i \in 0..n PROVE a[i] = IF i = 0 THEN 0 ELSE a[i - 1] + q[i]
    <3>1. CASE i = 0
      BY <3>1
    <3>2. CASE i # 0
      <4>1. i \in 1..n /\ i - 1 \in 0..n
        BY <3>2
      <4>2. acc[i] = acc[i - 1] + q[i]
        BY <4>1
      <4> HIDE DEF n
      <4> QED BY <3>2, <4>1, <4>2
    <3> QED BY <3>1, <3>2
  <2> HIDE DEF n
  <2> QED BY <2>1
<1>2. fold = Body(fold)
  <2> HIDE DEF Body, a
  <2> QED BY <1>1
<1>3. fold[0] = 0 /\ \A i \in 1..n : fold[i] = fold[i - 1] + q[i]
  <2>1. 0 \in 0..n /\ \A i \in 1..n : i \in 0..n /\ i # 0
    OBVIOUS
  <2> HIDE DEF fold, n
  <2> QED BY <1>2, <2>1
<1>4. Smc!Total(q) = fold[n]
  BY DEF Smc!Total
<1> HIDE DEF fold, Body
<1> DEFINE P == {i \in Nat : i <= n => fold[i] = acc[i]}
<1>5. 0 \in P
  BY <1>3
<1>6. ASSUME NEW i \in Nat, i \in P PROVE i + 1 \in P
  <2> SUFFICES ASSUME i + 1 <= n PROVE fold[i + 1] = acc[i + 1]
    OBVIOUS
  <2>1. i + 1 \in 1..n /\ (i + 1) - 1 = i /\ i <= n
    OBVIOUS
  <2>2. fold[i] = acc[i]
    BY <1>6, <2>1
  <2>3. fold[i + 1] = fold[i] + q[i + 1] /\ acc[i + 1] = acc[i] + q[i + 1]
    BY <1>3, <2>1
  <2> QED BY <2>2, <2>3
<1>7. n \in P
  <2> HIDE DEF P
  <2> QED BY <1>5, <1>6, SetInduction
<1> QED BY <1>4, <1>7

-----------------------------------------------------------------------------
\* The samples of a window and what is merged of them.
SmcSamples == [temperatures : Seq(Metrics(TemperatureDevices)), fan_speeds : Seq(Metrics({"fan"}))]
Merges == [sample_num : Nat, temperatures : Seq(Metrics(TemperatureDevices)),
           fan_speeds : Seq(Metrics({"fan"}))]

\* The sums so far are of the same sensors, each one on top of its last value.
AddsUp(sums, before, metrics) ==
    /\ Len(sums) = Len(before)
    /\ \A i \in 1..Len(before) : /\ sums[i].device = before[i].device
                                 /\ sums[i].num = before[i].num
                                 /\ sums[i].value = before[i].value + metrics[i].value

LEMMA AddMetricsIs ==
    ASSUME NEW devices, NEW sums \in Seq(Metrics(devices)), NEW metrics \in Seq(Metrics(devices)),
           Len(metrics) = Len(sums)
    PROVE  /\ Smc!AddMetrics(sums, metrics) \in Seq(Metrics(devices))
           /\ AddsUp(Smc!AddMetrics(sums, metrics), sums, metrics)
<1> DEFINE n == Len(sums)
           m(i) == [sums[i] EXCEPT !.value = @ + metrics[i].value]
           q == [i \in 1..n |-> m(i)]
<1>1. n \in Nat /\ DOMAIN sums = 1..n
  OBVIOUS
<1>2. ASSUME NEW i \in 1..n
      PROVE  /\ m(i) \in Metrics(devices)
             /\ m(i).device = sums[i].device /\ m(i).num = sums[i].num
             /\ m(i).value = sums[i].value + metrics[i].value
  <2>1. sums[i] \in Metrics(devices) /\ metrics[i] \in Metrics(devices)
    OBVIOUS
  <2>2. sums[i].value \in Nat /\ metrics[i].value \in Nat
    BY <2>1 DEF Metrics
  <2>3. sums[i].value + metrics[i].value \in Nat
    BY <2>2
  <2> QED BY <2>1, <2>3 DEF Metrics
<1>3. q \in Seq(Metrics(devices)) /\ Len(q) = n /\ \A i \in 1..n : q[i] = m(i)
  <2> HIDE DEF n, m
  <2>1. q \in [1..n -> Metrics(devices)]
    BY <1>2
  <2> QED BY <1>1, <2>1
<1>4. Smc!AddMetrics(sums, metrics) = q
  BY <1>1 DEF Smc!AddMetrics
<1> HIDE DEF q, m
<1> QED BY <1>1, <1>2, <1>3, <1>4 DEF AddsUp

\* A sample of the same shape is counted and added up.
LEMMA MergeIs ==
    ASSUME NEW d \in Merges, NEW sample \in SmcSamples,
           Len(sample.temperatures) = Len(d.temperatures), Len(sample.fan_speeds) = Len(d.fan_speeds)
    PROVE  /\ Smc!MergeSample(d, sample) \in Merges
           /\ Smc!MergeSample(d, sample).sample_num = d.sample_num + 1
           /\ AddsUp(Smc!MergeSample(d, sample).temperatures, d.temperatures, sample.temperatures)
           /\ AddsUp(Smc!MergeSample(d, sample).fan_speeds, d.fan_speeds, sample.fan_speeds)
<1> DEFINE t == Smc!AddMetrics(d.temperatures, sample.temperatures)
           f == Smc!AddMetrics(d.fan_speeds, sample.fan_speeds)
           m == [sample_num |-> d.sample_num + 1, temperatures |-> t, fan_speeds |-> f]
<1>1. /\ d.temperatures \in Seq(Metrics(TemperatureDevices)) /\ d.fan_speeds \in Seq(Metrics({"fan"}))
      /\ sample.temperatures \in Seq(Metrics(TemperatureDevices))
      /\ sample.fan_speeds \in Seq(Metrics({"fan"})) /\ d.sample_num \in Nat
  BY DEF Merges, SmcSamples
<1>2. t \in Seq(Metrics(TemperatureDevices)) /\ AddsUp(t, d.temperatures, sample.temperatures)
  BY <1>1, AddMetricsIs
<1>3. f \in Seq(Metrics({"fan"})) /\ AddsUp(f, d.fan_speeds, sample.fan_speeds)
  BY <1>1, AddMetricsIs
<1>4. Smc!MergeSample(d, sample) = m
  BY DEF Smc!MergeSample
<1> HIDE DEF t, f
<1>5. m \in Merges
  <2>1. d.sample_num + 1 \in Nat
    BY <1>1
  <2> QED BY <1>2, <1>3, <2>1 DEF Merges
<1> QED BY <1>2, <1>3, <1>4, <1>5

LEMMA MergeKeepsType ==
    ASSUME NEW d \in Merges, NEW sample \in SmcSamples
    PROVE  Smc!MergeSample(d, sample) \in Merges
<1>1. CASE Len(sample.temperatures) = Len(d.temperatures) /\ Len(sample.fan_speeds) = Len(d.fan_speeds)
  BY <1>1, MergeIs
<1>2. CASE ~ (Len(sample.temperatures) = Len(d.temperatures)
              /\ Len(sample.fan_speeds) = Len(d.fan_speeds))
  BY <1>2 DEF Smc!MergeSample
<1> QED BY <1>1, <1>2

\* The samples merged up to each one.
Merging(merged) ==
    /\ merged[1] = Smc!FirstOf(samples[1])
    /\ \A j \in 2..Len(samples) : merged[j] = Smc!MergeSample(merged[j - 1], samples[j])

LEMMA MergedIs ==
    ASSUME samples \in Seq(SmcSamples), Len(samples) >= 1
    PROVE  \E merged : Merging(merged) /\ Smc!Merged = merged[Len(samples)]
<1> DEFINE n == Len(samples)
           first == Smc!FirstOf(samples[1])
           step == [j \in 1..n |-> [d \in Merges |->
                       IF j = 1 THEN first ELSE Smc!MergeSample(d, samples[j])]]
           Body(f) == [j \in 1..n |-> IF j = 1 THEN first ELSE Smc!MergeSample(f[j - 1], samples[j])]
           fold == CHOOSE f : f = Body(f)
<1>1. n \in Nat /\ n >= 1 /\ \A j \in 1..n : samples[j] \in SmcSamples
  OBVIOUS
<1>2. first \in Merges
  <2>1. samples[1] \in SmcSamples
    BY <1>1
  <2> QED BY <2>1 DEF Merges, SmcSamples, Smc!FirstOf
<1> HIDE DEF first, n
<1>3. step \in [1..n -> [Merges -> Merges]]
  <2>1. ASSUME NEW j \in 1..n, NEW d \in Merges
        PROVE  (IF j = 1 THEN first ELSE Smc!MergeSample(d, samples[j])) \in Merges
    BY <1>1, <1>2, MergeKeepsType
  <2> QED BY <2>1
<1>4. PICK acc \in [0..n -> Merges] : Accumulates(acc, n, first, step)
  <2> HIDE DEF step
  <2> QED BY <1>1, <1>2, <1>3, AccumulationExists
<1> DEFINE a == [j \in 1..n |-> acc[j]]
<1>5. a = Body(a)
  <2>1. ASSUME NEW j \in 1..n
        PROVE  a[j] = IF j = 1 THEN first ELSE Smc!MergeSample(a[j - 1], samples[j])
    <3>1. j - 1 \in 0..n /\ acc[j - 1] \in Merges
      BY <1>1
    <3>2. acc[j] = step[j][acc[j - 1]]
      BY <1>4 DEF Accumulates
    <3>3. acc[j] = IF j = 1 THEN first ELSE Smc!MergeSample(acc[j - 1], samples[j])
      BY <3>1, <3>2
    <3>4. j # 1 => j - 1 \in 1..n
      BY <1>1
    <3> HIDE DEF step
    <3> QED BY <3>3, <3>4
  <2> HIDE DEF step
  <2> QED BY <2>1
<1>6. fold = Body(fold)
  <2> HIDE DEF Body, a
  <2> QED BY <1>5
<1>7. Merging(fold)
  <2>1. 1 \in 1..n /\ \A j \in 2..n : j \in 1..n /\ j # 1
    BY <1>1
  <2> HIDE DEF fold
  <2>2. fold[1] = first /\ \A j \in 2..n : fold[j] = Smc!MergeSample(fold[j - 1], samples[j])
    BY <1>6, <2>1
  <2> QED BY <2>2 DEF Merging, n, first
<1>8. Smc!Merged = fold[Len(samples)]
  BY DEF Smc!Merged, n, first
<1> HIDE DEF fold
<1> QED BY <1>7, <1>8

\* Samples of one shape.
Alike(length, fans) ==
    \A j \in 1..Len(samples) : /\ Len(samples[j].temperatures) = length
                               /\ Len(samples[j].fan_speeds) = fans

\* All of them are counted, and each one adds up.
LEMMA MergesAddUp ==
    ASSUME samples \in Seq(SmcSamples), Len(samples) >= 1, NEW length \in Nat, NEW fans \in Nat,
           Alike(length, fans), NEW merged, Merging(merged), NEW j \in 1..Len(samples)
    PROVE  /\ merged[j] \in Merges /\ merged[j].sample_num = j
           /\ Len(merged[j].temperatures) = length /\ Len(merged[j].fan_speeds) = fans
           /\ j > 1 => /\ AddsUp(merged[j].temperatures, merged[j - 1].temperatures, samples[j].temperatures)
                       /\ AddsUp(merged[j].fan_speeds, merged[j - 1].fan_speeds, samples[j].fan_speeds)
<1> DEFINE n == Len(samples)
           Right(i) == /\ merged[i] \in Merges /\ merged[i].sample_num = i
                       /\ Len(merged[i].temperatures) = length /\ Len(merged[i].fan_speeds) = fans
           Adds(i) == /\ AddsUp(merged[i].temperatures, merged[i - 1].temperatures, samples[i].temperatures)
                      /\ AddsUp(merged[i].fan_speeds, merged[i - 1].fan_speeds, samples[i].fan_speeds)
           P == {i \in Nat : i + 1 <= n => Right(i + 1)}
<1>1. n \in Nat /\ n >= 1 /\ \A i \in 1..n : samples[i] \in SmcSamples
  OBVIOUS
<1>2. Right(1)
  <2>1. samples[1] \in SmcSamples
    BY <1>1
  <2>2. Len(samples[1].temperatures) = length /\ Len(samples[1].fan_speeds) = fans
    BY <1>1 DEF Alike
  <2> QED BY <2>1, <2>2 DEF Merging, Merges, SmcSamples, Smc!FirstOf
<1>3. ASSUME NEW i \in 2..n, Right(i - 1) PROVE Right(i) /\ Adds(i)
  <2> DEFINE d == merged[i - 1]
             sample == samples[i]
  <2>1. i \in 1..n /\ i - 1 \in Nat /\ (i - 1) + 1 = i
    BY <1>1
  <2>2. sample \in SmcSamples /\ d \in Merges
    BY <1>1, <1>3, <2>1
  <2>3. Len(sample.temperatures) = Len(d.temperatures) /\ Len(sample.fan_speeds) = Len(d.fan_speeds)
    BY <1>3, <2>1 DEF Alike
  <2>4. merged[i] = Smc!MergeSample(d, sample)
    BY DEF Merging
  <2>5. d.sample_num + 1 = i /\ Len(d.temperatures) = length /\ Len(d.fan_speeds) = fans
    BY <1>3, <2>1
  <2> HIDE DEF d, sample
  <2>6. /\ merged[i] \in Merges /\ merged[i].sample_num = i
        /\ AddsUp(merged[i].temperatures, d.temperatures, sample.temperatures)
        /\ AddsUp(merged[i].fan_speeds, d.fan_speeds, sample.fan_speeds)
    BY <2>2, <2>3, <2>4, <2>5, MergeIs
  <2>7. Len(merged[i].temperatures) = length /\ Len(merged[i].fan_speeds) = fans
    BY <2>5, <2>6 DEF AddsUp
  <2> QED BY <2>6, <2>7 DEF d, sample
<1>4. 0 \in P
  BY <1>2
<1>5. ASSUME NEW i \in Nat, i \in P PROVE i + 1 \in P
  <2> SUFFICES ASSUME (i + 1) + 1 <= n PROVE Right((i + 1) + 1)
    OBVIOUS
  <2> DEFINE l == (i + 1) + 1
  <2>1. l \in 2..n /\ l - 1 = i + 1 /\ i + 1 <= n
    BY <1>1
  <2>2. Right(i + 1)
    BY <1>5, <2>1
  <2>3. Right(l - 1)
    BY <2>1, <2>2
  <2> HIDE DEF l, Right, Adds
  <2>4. Right(l)
    BY <1>3, <2>1, <2>3
  <2> QED BY <2>4 DEF l
<1>6. \A i \in Nat : i \in P
  <2> HIDE DEF P
  <2> QED BY <1>4, <1>5, SetInduction
<1> HIDE DEF Right, Adds
<1>7. \A i \in 1..n : Right(i)
  <2> SUFFICES ASSUME NEW i \in 1..n PROVE Right(i)
    OBVIOUS
  <2>1. i - 1 \in Nat /\ (i - 1) + 1 = i /\ i <= n
    BY <1>1
  <2>2. i - 1 \in P
    BY <1>6, <2>1
  <2> QED BY <2>1, <2>2
<1>8. j > 1 => Adds(j)
  <2> SUFFICES ASSUME j > 1 PROVE Adds(j)
    OBVIOUS
  <2>1. j \in 2..n /\ j - 1 \in 1..n
    BY <1>1
  <2>2. Right(j - 1)
    BY <1>7, <2>1
  <2> QED BY <1>3, <2>1, <2>2
<1> QED BY <1>7, <1>8 DEF Right, Adds

\* The values at a place of all samples.
ValuesAt(parts, n, i) == [j \in 1..n |-> parts[j][i].value]

\* Lists of one length that are added up one by one.
AddingUp(n, devices, sums, parts, length) ==
    /\ sums[1] = parts[1]
    /\ \A j \in 1..n : /\ parts[j] \in Seq(Metrics(devices)) /\ Len(parts[j]) = length
                       /\ Len(sums[j]) = length
    /\ \A j \in 2..n : AddsUp(sums[j], sums[j - 1], parts[j])

\* Each sum is of the same sensor of all samples.
LEMMA SumsAreTotals ==
    ASSUME NEW n \in Nat, n >= 1, NEW devices, NEW sums, NEW parts, NEW length \in Nat,
           AddingUp(n, devices, sums, parts, length), NEW i \in 1..length
    PROVE  /\ sums[n][i].device = parts[1][i].device /\ sums[n][i].num = parts[1][i].num
           /\ sums[n][i].value = Smc!Total(ValuesAt(parts, n, i))
<1> DEFINE q == [j \in 1..n |-> parts[j][i].value]
           acc == [j \in 0..n |-> IF j = 0 THEN 0 ELSE sums[j][i].value]
           Same(j) == sums[j][i].device = parts[1][i].device /\ sums[j][i].num = parts[1][i].num
           P == {j \in Nat : j + 1 <= n => Same(j + 1)}
<1>0. /\ sums[1] = parts[1]
      /\ \A j \in 1..n : /\ parts[j] \in Seq(Metrics(devices)) /\ Len(parts[j]) = length
                         /\ Len(sums[j]) = length
      /\ \A j \in 2..n : AddsUp(sums[j], sums[j - 1], parts[j])
  BY DEF AddingUp
<1>1. \A j \in 1..n : parts[j][i].value \in Nat
  <2> SUFFICES ASSUME NEW j \in 1..n PROVE parts[j][i].value \in Nat
    OBVIOUS
  <2>1. parts[j] \in Seq(Metrics(devices)) /\ Len(parts[j]) = length
    BY <1>0
  <2>2. parts[j][i] \in Metrics(devices)
    BY <2>1
  <2> QED BY <2>2 DEF Metrics
<1>2. Len(q) = n
  <2>1. q \in Seq(Nat)
    BY <1>1
  <2> QED BY <2>1
<1>3. ASSUME NEW j \in 2..n
      PROVE  /\ sums[j][i].device = sums[j - 1][i].device /\ sums[j][i].num = sums[j - 1][i].num
             /\ sums[j][i].value = sums[j - 1][i].value + parts[j][i].value
  <2>1. AddsUp(sums[j], sums[j - 1], parts[j]) /\ j - 1 \in 1..n
    BY <1>0
  <2>2. Len(sums[j - 1]) = length
    BY <1>0, <2>1
  <2> QED BY <2>1, <2>2 DEF AddsUp
<1>4. acc[0] = 0 /\ \A j \in 1..n : acc[j] = acc[j - 1] + q[j]
  <2>1. acc[0] = 0
    OBVIOUS
  <2>2. acc[1] = acc[0] + q[1]
    <3>1. parts[1][i].value \in Nat /\ 1 \in 1..n /\ 1 \in 0..n
      BY <1>1
    <3>2. acc[1] = parts[1][i].value /\ q[1] = parts[1][i].value
      BY <1>0, <3>1
    <3> HIDE DEF acc, q
    <3> QED BY <2>1, <3>1, <3>2
  <2>3. ASSUME NEW j \in 2..n PROVE acc[j] = acc[j - 1] + q[j]
    <3>1. j \in 0..n /\ j - 1 \in 0..n /\ j # 0 /\ j - 1 # 0 /\ j \in 1..n
      OBVIOUS
    <3>2. acc[j] = sums[j][i].value /\ acc[j - 1] = sums[j - 1][i].value /\ q[j] = parts[j][i].value
      BY <3>1
    <3> HIDE DEF acc, q
    <3> QED BY <1>3, <3>2
  <2>4. \A j \in 1..n : j = 1 \/ j \in 2..n
    OBVIOUS
  <2> HIDE DEF acc, q
  <2>5. ASSUME NEW j \in 1..n PROVE acc[j] = acc[j - 1] + q[j]
    <3>1. CASE j = 1
      BY <2>2, <3>1
    <3>2. CASE j \in 2..n
      BY <2>3, <3>2
    <3> QED BY <2>4, <3>1, <3>2
  <2> QED BY <2>1, <2>5
<1>5. acc[n] = sums[n][i].value
  OBVIOUS
<1> HIDE DEF acc, q
<1>6. Smc!Total(q) = acc[n]
  <2>1. Len(q) \in Nat /\ \A j \in 1..Len(q) : acc[j] = acc[j - 1] + q[j]
    BY <1>2, <1>4
  <2>2. Smc!Total(q) = acc[Len(q)]
    BY <1>4, <2>1, TotalIs
  <2> QED BY <1>2, <2>2
<1>7. 0 \in P
  BY <1>0
<1>8. ASSUME NEW j \in Nat, j \in P PROVE j + 1 \in P
  <2> SUFFICES ASSUME (j + 1) + 1 <= n PROVE Same((j + 1) + 1)
    OBVIOUS
  <2>1. (j + 1) + 1 \in 2..n /\ ((j + 1) + 1) - 1 = j + 1 /\ j + 1 <= n
    OBVIOUS
  <2>2. Same(j + 1)
    BY <1>8, <2>1
  <2> DEFINE l == (j + 1) + 1
  <2>3. l \in 2..n /\ l - 1 = j + 1
    BY <2>1
  <2> HIDE DEF l
  <2>4. sums[l][i].device = sums[l - 1][i].device /\ sums[l][i].num = sums[l - 1][i].num
    BY <1>3, <2>3
  <2>5. Same(l)
    BY <2>2, <2>3, <2>4
  <2> QED BY <2>5 DEF l
<1>9. \A j \in Nat : j \in P
  <2> HIDE DEF P
  <2> QED BY <1>7, <1>8, SetInduction
<1>10. Same(n)
  <2>1. n - 1 \in Nat /\ (n - 1) + 1 = n
    OBVIOUS
  <2>2. n - 1 \in P
    BY <1>9, <2>1
  <2> QED BY <2>1, <2>2
<1> QED BY <1>5, <1>6, <1>10 DEF q, ValuesAt

-----------------------------------------------------------------------------
\* The sensors of a row's brand, and what their means are.
IsSensorOf(b, answers, r) ==
    IF Smc!RowAt(b, r) = Smc!Padding THEN answers[<< 0, 0 >>] = "empty" ELSE answers[r] = "flt"
IsMeanIn(b, reads, m, r) ==
    /\ m.device = Smc!RowAt(b, r).device /\ m.num = Smc!RowAt(b, r).num
    /\ Smc!RowAt(b, r) # Smc!Padding =>
          m.value = Smc!Total([j \in DOMAIN reads |-> Smc!Value(reads[j][r])])
MeansIn(b, reads, metrics, rows, S) ==
    /\ Len(metrics) = Cardinality(S)
    /\ \A k \in S : IsMeanIn(b, reads, metrics[PlaceIn(S, k)], rows[k])

LEMMA MeansAre ==
    ASSUME NEW b, NEW devices, NEW rows \in Seq(RowsWith(b, devices)), NEW v,
           NEW reads \in Seq(Readings(b)), NEW n \in Nat, n >= 1, Len(reads) = n,
           NEW sums, NEW parts,
           sums[1] = parts[1],
           \A j \in 1..n : /\ parts[j] \in Seq(Metrics(devices))
                           /\ IsReading(b, parts[j], rows, Among(rows, v), reads[j])
                           /\ Len(sums[j]) = Cardinality(Among(rows, v)),
           \A j \in 2..n : AddsUp(sums[j], sums[j - 1], parts[j])
    PROVE  MeansIn(b, reads, sums[n], rows, Among(rows, v))
<1> DEFINE S == Among(rows, v)
           length == Cardinality(S)
           l == Len(rows)
<1>1. l \in Nat /\ DOMAIN rows = 1..l
  OBVIOUS
<1>2. S \in SUBSET (1..l)
  BY <1>1 DEF Among
<1> HIDE DEF S, l
<1>3. length \in Nat
  <2>1. IsFiniteSet(1..l)
    BY <1>1, FS_Interval
  <2>2. IsFiniteSet(S)
    BY <1>2, <2>1, FS_Subset
  <2> QED BY <2>2, FS_CardinalityType
<1>4. AddingUp(n, devices, sums, parts, length)
  BY DEF AddingUp, IsReading, S
<1>5. ASSUME NEW k \in S PROVE IsMeanIn(b, reads, sums[n][PlaceIn(S, k)], rows[k])
  <2> DEFINE i == PlaceIn(S, k)
             r == rows[k]
             M(j) == MetricIn(b, r, reads[j])
  <2>1. i \in 1..length
    BY <1>1, <1>2, PlaceGrows
  <2>2. \A j \in 1..n : parts[j][i] = M(j)
    BY DEF IsReading, S
  <2> HIDE DEF i, r, M, length
  <2>3. /\ sums[n][i].device = parts[1][i].device /\ sums[n][i].num = parts[1][i].num
        /\ sums[n][i].value = Smc!Total(ValuesAt(parts, n, i))
    BY <1>3, <1>4, <2>1, SumsAreTotals
  <2>4. 1 \in 1..n
    OBVIOUS
  <2>5. M(1).device = Smc!RowAt(b, r).device /\ M(1).num = Smc!RowAt(b, r).num
    BY DEF M, MetricIn
  <2>6. ASSUME Smc!RowAt(b, r) # Smc!Padding
        PROVE  sums[n][i].value = Smc!Total([j \in DOMAIN reads |-> Smc!Value(reads[j][r])])
    <3>1. \A j \in 1..n : M(j).value = Smc!Value(reads[j][r])
      BY <2>6 DEF M, MetricIn, Smc!Value
    <3>2. DOMAIN reads = 1..n
      OBVIOUS
    <3>3. [j \in 1..n |-> parts[j][i].value] = [j \in DOMAIN reads |-> Smc!Value(reads[j][r])]
      BY <2>2, <3>1, <3>2
    <3> QED BY <2>3, <3>3 DEF ValuesAt
  <2>7. IsMeanIn(b, reads, sums[n][i], r)
    BY <2>2, <2>3, <2>4, <2>5, <2>6 DEF IsMeanIn
  <2> QED BY <2>7 DEF i, r
<1>6. Len(sums[n]) = length
  BY DEF S
<1> QED BY <1>5, <1>6 DEF MeansIn, S

-----------------------------------------------------------------------------
\* The summaries of the metrics of some devices.
Stats == [num : Nat, sum : Nat, max : Nat, min : Nat]

LEMMA GreatestOfSet ==
    ASSUME NEW S \in SUBSET Nat, NEW x \in S, \A y \in S : y <= x
    PROVE  Smc!Max(S) = x
<1> DEFINE m == Smc!Max(S)
<1>1. m \in S /\ \A y \in S : m >= y
  <2>1. \E z \in S : \A y \in S : z >= y
    OBVIOUS
  <2> QED BY <2>1 DEF Smc!Max
<1> HIDE DEF m
<1>2. m \in Nat /\ x \in Nat /\ m >= x /\ m <= x
  BY <1>1
<1>3. m = x
  BY <1>2
<1> QED BY <1>3 DEF m

LEMMA LeastOfSet ==
    ASSUME NEW S \in SUBSET Nat, NEW x \in S, \A y \in S : x <= y
    PROVE  Smc!Min(S) = x
<1> DEFINE m == Smc!Min(S)
<1>1. m \in S /\ \A y \in S : m <= y
  <2>1. \E z \in S : \A y \in S : z <= y
    OBVIOUS
  <2> QED BY <2>1 DEF Smc!Min
<1> HIDE DEF m
<1>2. m \in Nat /\ x \in Nat /\ m >= x /\ m <= x
  BY <1>1
<1>3. m = x
  BY <1>2
<1> QED BY <1>3 DEF m

LEMMA AddValueIs ==
    ASSUME NEW kinds, NEW devices, NEW s \in Stats, NEW m \in Metrics(kinds)
    PROVE  /\ Smc!AddOf(devices, s, m) \in Stats
           /\ m.device \notin devices => Smc!AddOf(devices, s, m) = s
           /\ m.device \in devices /\ s.num = 0 =>
                 Smc!AddOf(devices, s, m) = [num |-> 1, sum |-> m.value, max |-> m.value, min |-> m.value]
           /\ m.device \in devices /\ s.num > 0 =>
                 Smc!AddOf(devices, s, m) = [num |-> s.num + 1, sum |-> s.sum + m.value,
                                             max |-> IF m.value > s.max THEN m.value ELSE s.max,
                                             min |-> IF m.value < s.min THEN m.value ELSE s.min]
<1>1. m.value \in Nat
  BY DEF Metrics
<1>2. s.num \in Nat /\ s.sum \in Nat /\ s.max \in Nat /\ s.min \in Nat
  BY DEF Stats
<1>3. s.num + 1 \in Nat /\ s.sum + m.value \in Nat /\ 1 \in Nat
  BY <1>1, <1>2
<1>4. Smc!AddValue(s, m) \in Stats
  BY <1>1, <1>2, <1>3 DEF Smc!AddValue, Stats
<1>5. s.num > 0 => s.num # 0
  BY <1>2
<1> QED BY <1>4, <1>5 DEF Smc!AddOf, Smc!AddValue

ChosenValues(metrics, I) == [i \in DOMAIN metrics |-> IF i \in I THEN metrics[i].value ELSE 0]

\* A summary of the metrics at some places.
IsSummary(stats, metrics, I) ==
    /\ stats.num = Cardinality(I)
    /\ stats.num > 0 => /\ stats.max = Smc!Max({metrics[i].value : i \in I})
                        /\ stats.min = Smc!Min({metrics[i].value : i \in I})
    /\ stats.sum = Smc!Total(ChosenValues(metrics, I))

\* The places of devices.
PlacesOf(metrics, devices) == {i \in DOMAIN metrics : metrics[i].device \in devices}

LEMMA StatsAre ==
    ASSUME NEW kinds, NEW metrics \in Seq(Metrics(kinds)), NEW devices
    PROVE  IsSummary(Smc!StatValues(metrics, devices), metrics, PlacesOf(metrics, devices))
<1> DEFINE n == Len(metrics)
           I == PlacesOf(metrics, devices)
           step == [i \in 1..n |-> [s \in Stats |-> Smc!AddOf(devices, s, metrics[i])]]
           Body(f) == [i \in 0..n |-> IF i = 0 THEN Smc!NoValues
                                      ELSE Smc!AddOf(devices, f[i - 1], metrics[i])]
           fold == CHOOSE f : f = Body(f)
           x == [i \in 1..n |-> metrics[i].value]
<1>1. /\ n \in Nat /\ DOMAIN metrics = 1..n /\ I \in SUBSET (1..n)
      /\ \A i \in 1..n : metrics[i] \in Metrics(kinds) /\ (i \in I <=> metrics[i].device \in devices)
  BY DEF PlacesOf
<1>2. \A i \in 1..n : x[i] \in Nat /\ x[i] = metrics[i].value
  BY <1>1 DEF Metrics
<1> HIDE DEF n, I, x
<1>3. Smc!NoValues \in Stats
  BY DEF Smc!NoValues, Stats
<1>4. ASSUME NEW i \in 1..n, NEW s \in Stats
      PROVE  /\ Smc!AddOf(devices, s, metrics[i]) \in Stats
             /\ i \notin I => Smc!AddOf(devices, s, metrics[i]) = s
             /\ i \in I /\ s.num = 0 =>
                   Smc!AddOf(devices, s, metrics[i]) = [num |-> 1, sum |-> x[i], max |-> x[i], min |-> x[i]]
             /\ i \in I /\ s.num > 0 =>
                   Smc!AddOf(devices, s, metrics[i])
                      = [num |-> s.num + 1, sum |-> s.sum + x[i],
                         max |-> IF x[i] > s.max THEN x[i] ELSE s.max,
                         min |-> IF x[i] < s.min THEN x[i] ELSE s.min]
  <2> DEFINE m == metrics[i]
  <2>1. m \in Metrics(kinds) /\ (i \in I <=> m.device \in devices) /\ m.value = x[i]
    BY <1>1, <1>2
  <2> HIDE DEF m
  <2>2. /\ Smc!AddOf(devices, s, m) \in Stats
        /\ m.device \notin devices => Smc!AddOf(devices, s, m) = s
        /\ m.device \in devices /\ s.num = 0 =>
              Smc!AddOf(devices, s, m) = [num |-> 1, sum |-> m.value, max |-> m.value, min |-> m.value]
        /\ m.device \in devices /\ s.num > 0 =>
              Smc!AddOf(devices, s, m) = [num |-> s.num + 1, sum |-> s.sum + m.value,
                                          max |-> IF m.value > s.max THEN m.value ELSE s.max,
                                          min |-> IF m.value < s.min THEN m.value ELSE s.min]
    BY <2>1, AddValueIs
  <2> QED BY <2>1, <2>2 DEF m
<1>5. step \in [1..n -> [Stats -> Stats]]
  BY <1>4
<1>6. PICK acc \in [0..n -> Stats] : Accumulates(acc, n, Smc!NoValues, step)
  <2> DEFINE none == Smc!NoValues
  <2> HIDE DEF step, none
  <2>1. none \in Stats
    BY <1>3 DEF none
  <2>2. \E acc \in [0..n -> Stats] : Accumulates(acc, n, none, step)
    BY <1>1, <1>5, <2>1, AccumulationExists
  <2> QED BY <2>2 DEF none
<1>7. acc = Body(acc)
  <2>1. ASSUME NEW i \in 0..n
        PROVE  acc[i] = IF i = 0 THEN Smc!NoValues ELSE Smc!AddOf(devices, acc[i - 1], metrics[i])
    <3>1. CASE i = 0
      BY <1>6, <3>1 DEF Accumulates
    <3>2. CASE i # 0
      <4>1. i \in 1..n /\ i - 1 \in 0..n
        BY <1>1, <3>2
      <4>2. acc[i - 1] \in Stats
        BY <4>1
      <4>3. acc[i] = step[i][acc[i - 1]]
        BY <1>6, <4>1 DEF Accumulates
      <4> QED BY <3>2, <4>1, <4>2, <4>3
    <3> QED BY <3>1, <3>2
  <2> HIDE DEF step
  <2> QED BY <2>1
<1>8. fold = Body(fold)
  <2> HIDE DEF Body
  <2> QED BY <1>7
<1>9. fold[0] = Smc!NoValues /\ \A i \in 1..n : fold[i] = Smc!AddOf(devices, fold[i - 1], metrics[i])
  <2>1. 0 \in 0..n /\ \A i \in 1..n : i \in 0..n /\ i # 0
    BY <1>1
  <2> HIDE DEF fold
  <2> QED BY <1>8, <2>1
<1>10. Smc!StatValues(metrics, devices) = fold[n]
  BY DEF Smc!StatValues, n
<1> HIDE DEF fold, step, Body
<1>11. \A j \in I : j \in Int /\ 1 <= j /\ j <= n /\ j \in 1..n
  BY <1>1
<1>12. PlaceIn(I, 0) = 0 /\ \A i \in 1..n : PlaceIn(I, i) = PlaceIn(I, i - 1) + (IF i \in I THEN 1 ELSE 0)
  BY <1>1, PlaceGrows
<1>13. PlaceIn(I, n) = Cardinality(I) /\ \A k \in Int : PlaceIn(I, k) \in Nat
  BY <1>1, PlaceGrows
<1> DEFINE Between(s, i) == \A j \in I : j <= i => s.min <= x[j] /\ x[j] <= s.max
           Found(s, i) == /\ \E j \in I : j <= i /\ s.max = x[j]
                          /\ \E j \in I : j <= i /\ s.min = x[j]
           Right(i) == /\ fold[i] \in Stats /\ fold[i].num = PlaceIn(I, i)
                       /\ fold[i].num = 0 => fold[i].sum = 0 /\ \A j \in I : ~ (j <= i)
                       /\ Between(fold[i], i)
                       /\ fold[i].num > 0 => Found(fold[i], i)
           Adds(i) == fold[i].sum = fold[i - 1].sum + (IF i \in I THEN x[i] ELSE 0)
           P == {i \in Nat : i <= n => Right(i)}
<1>14. Right(0)
  <2>1. fold[0].num = 0 /\ fold[0].sum = 0
    BY <1>9 DEF Smc!NoValues
  <2>2. \A j \in I : ~ (j <= 0)
    BY <1>11
  <2> QED BY <1>3, <1>9, <1>12, <2>1, <2>2
<1>15. ASSUME NEW i \in 1..n, Right(i - 1) PROVE Right(i) /\ Adds(i)
  <2> DEFINE s == fold[i - 1]
             t == fold[i]
  <2>1. /\ s \in Stats /\ s.num = PlaceIn(I, i - 1) /\ t = Smc!AddOf(devices, s, metrics[i])
        /\ s.num = 0 => s.sum = 0 /\ \A j \in I : ~ (j <= i - 1)
        /\ Between(s, i - 1) /\ (s.num > 0 => Found(s, i - 1))
    BY <1>9, <1>15
  <2>2. s.num \in Nat /\ s.sum \in Nat /\ s.max \in Nat /\ s.min \in Nat
    BY <2>1 DEF Stats
  <2>3. i \in Int /\ x[i] \in Nat /\ \A j \in I : x[j] \in Nat
    BY <1>2, <1>11
  <2>4. \A j \in I : j <= i <=> j <= i - 1 \/ j = i
    BY <1>11, <2>3
  <2>5. PlaceIn(I, i) = s.num + (IF i \in I THEN 1 ELSE 0)
    BY <1>12, <2>1
  <2> HIDE DEF s, t
  <2>6. t \in Stats
    BY <1>4, <2>1
  <2>7. CASE i \notin I
    <3>1. t = s
      BY <1>4, <2>1, <2>7
    <3>2. \A j \in I : j <= i <=> j <= i - 1
      BY <2>4, <2>7
    <3>3. t.num = PlaceIn(I, i)
      BY <2>2, <2>5, <2>7, <3>1
    <3>4. Between(t, i) /\ (t.num > 0 => Found(t, i))
      BY <2>1, <3>1, <3>2
    <3>5. t.num = 0 => t.sum = 0 /\ \A j \in I : ~ (j <= i)
      BY <2>1, <3>1, <3>2
    <3>6. t.sum = s.sum + (IF i \in I THEN x[i] ELSE 0)
      BY <2>2, <2>7, <3>1
    <3> QED BY <2>6, <3>3, <3>4, <3>5, <3>6 DEF s, t
  <2>8. CASE i \in I /\ s.num = 0
    <3>1. t = [num |-> 1, sum |-> x[i], max |-> x[i], min |-> x[i]]
      BY <1>4, <2>1, <2>8
    <3>2. \A j \in I : j <= i <=> j = i
      BY <2>1, <2>4, <2>8
    <3>3. t.num = PlaceIn(I, i) /\ t.num # 0
      BY <2>5, <2>8, <3>1
    <3>4. t.max = x[i] /\ t.min = x[i] /\ t.sum = x[i] /\ i <= i
      BY <2>3, <3>1
    <3>5. Between(t, i) /\ Found(t, i)
      BY <2>3, <2>8, <3>2, <3>4
    <3>6. t.sum = s.sum + (IF i \in I THEN x[i] ELSE 0)
      BY <2>1, <2>3, <2>8, <3>4
    <3> QED BY <2>6, <3>3, <3>5, <3>6 DEF s, t
  <2>9. CASE i \in I /\ s.num > 0
    <3>1. t = [num |-> s.num + 1, sum |-> s.sum + x[i],
               max |-> IF x[i] > s.max THEN x[i] ELSE s.max,
               min |-> IF x[i] < s.min THEN x[i] ELSE s.min]
      BY <1>4, <2>1, <2>9
    <3>2. /\ t.num = s.num + 1 /\ t.sum = s.sum + x[i]
          /\ t.max = (IF x[i] > s.max THEN x[i] ELSE s.max)
          /\ t.min = (IF x[i] < s.min THEN x[i] ELSE s.min)
      BY <3>1
    <3>3. t.num = PlaceIn(I, i) /\ t.num # 0
      BY <2>2, <2>5, <2>9, <3>2
    <3>4. /\ t.max >= s.max /\ t.max >= x[i] /\ (t.max = x[i] \/ t.max = s.max)
          /\ t.min <= s.min /\ t.min <= x[i] /\ (t.min = x[i] \/ t.min = s.min)
          /\ t.max \in Nat /\ t.min \in Nat
      BY <2>2, <2>3, <3>2
    <3>5. ASSUME NEW j \in I, j <= i PROVE t.min <= x[j] /\ x[j] <= t.max
      <4>1. CASE j = i
        BY <3>4, <4>1
      <4>2. CASE j <= i - 1
        <5>1. s.min <= x[j] /\ x[j] <= s.max /\ x[j] \in Nat
          BY <2>1, <2>3, <4>2
        <5> QED BY <2>2, <3>4, <5>1
      <4> QED BY <2>4, <3>5, <4>1, <4>2
    <3>6. Found(t, i)
      <4>1. /\ \E j \in I : j <= i - 1 /\ s.max = x[j]
            /\ \E j \in I : j <= i - 1 /\ s.min = x[j]
        BY <2>1, <2>9
      <4>2. \E j \in I : j <= i /\ t.max = x[j]
        BY <2>4, <2>9, <3>4, <4>1
      <4>3. \E j \in I : j <= i /\ t.min = x[j]
        BY <2>4, <2>9, <3>4, <4>1
      <4> QED BY <4>2, <4>3
    <3> QED BY <2>6, <2>9, <3>2, <3>3, <3>5, <3>6 DEF s, t
  <2>10. i \notin I \/ (i \in I /\ s.num = 0) \/ (i \in I /\ s.num > 0)
    BY <2>2
  <2> QED BY <2>7, <2>8, <2>9, <2>10
<1> HIDE DEF Right, Adds
<1>16. 0 \in P
  BY <1>14
<1>17. ASSUME NEW i \in Nat, i \in P PROVE i + 1 \in P
  <2> SUFFICES ASSUME i + 1 <= n PROVE Right(i + 1)
    OBVIOUS
  <2> DEFINE l == i + 1
  <2>1. l \in 1..n /\ l - 1 = i /\ i <= n
    BY <1>1
  <2>2. Right(i)
    BY <1>17, <2>1
  <2>3. Right(l - 1)
    BY <2>1, <2>2
  <2> HIDE DEF l
  <2>4. Right(l)
    BY <1>15, <2>1, <2>3
  <2> QED BY <2>4 DEF l
<1>18. \A i \in Nat : i \in P
  <2> HIDE DEF P
  <2> QED BY <1>16, <1>17, SetInduction
<1>19. \A i \in 0..n : Right(i)
  BY <1>1, <1>18
<1>20. ASSUME NEW i \in 1..n PROVE Adds(i)
  <2>1. i - 1 \in 0..n
    BY <1>1
  <2> QED BY <1>15, <1>19, <2>1
<1> DEFINE sums == [i \in 0..n |-> fold[i].sum]
           chosen == ChosenValues(metrics, I)
<1>21. Len(chosen) = n /\ \A i \in 1..n : chosen[i] = IF i \in I THEN x[i] ELSE 0
  <2>1. chosen = [i \in 1..n |-> IF i \in I THEN x[i] ELSE 0]
    BY <1>1, <1>2 DEF ChosenValues
  <2>2. [i \in 1..n |-> IF i \in I THEN x[i] ELSE 0] \in Seq(Nat)
    BY <1>1, <1>2
  <2> HIDE DEF chosen
  <2> QED BY <1>1, <2>1, <2>2
<1>22. sums[0] = 0 /\ \A i \in 1..n : sums[i] = sums[i - 1] + chosen[i]
  <2>1. sums[0] = 0
    BY <1>1, <1>9 DEF Smc!NoValues
  <2>2. \A i \in 1..n : i \in 0..n /\ i - 1 \in 0..n
    BY <1>1
  <2> HIDE DEF chosen
  <2>3. \A i \in 1..n : sums[i] = sums[i - 1] + chosen[i]
    BY <1>20, <1>21, <2>2 DEF Adds
  <2> QED BY <2>1, <2>3
<1>23. Smc!Total(chosen) = fold[n].sum
  <2>1. sums[n] = fold[n].sum
    BY <1>1
  <2> HIDE DEF sums, chosen
  <2>2. Smc!Total(chosen) = sums[Len(chosen)]
    BY <1>1, <1>21, <1>22, TotalIs
  <2> QED BY <1>21, <2>1, <2>2
<1> DEFINE s == fold[n]
           values == {metrics[i].value : i \in I}
<1>24. s \in Stats /\ s.num = Cardinality(I) /\ Between(s, n) /\ (s.num > 0 => Found(s, n))
  <2>1. Right(n)
    BY <1>1, <1>19
  <2> QED BY <1>13, <2>1 DEF Right
<1>25. values = {x[i] : i \in I}
  BY <1>2, <1>11
<1>26. ASSUME s.num > 0 PROVE s.max = Smc!Max(values) /\ s.min = Smc!Min(values)
  <2>1. values \in SUBSET Nat
    BY <1>2, <1>11, <1>25
  <2>2. s.max \in values /\ s.min \in values
    BY <1>24, <1>25, <1>26
  <2>3. \A y \in values : y <= s.max /\ s.min <= y
    BY <1>11, <1>24, <1>25
  <2> HIDE DEF values, s
  <2>4. Smc!Max(values) = s.max
    BY <2>1, <2>2, <2>3, GreatestOfSet
  <2>5. Smc!Min(values) = s.min
    BY <2>1, <2>2, <2>3, LeastOfSet
  <2> QED BY <2>4, <2>5
<1> QED BY <1>10, <1>23, <1>24, <1>26 DEF IsSummary, I

LEMMA SummarizesIs ==
    ASSUME NEW stats, NEW metrics, NEW devices
    PROVE  Smc!Summarizes(stats, metrics, devices) <=> IsSummary(stats, metrics, PlacesOf(metrics, devices))
<1>1. Smc!MetricsOf(metrics, devices) = PlacesOf(metrics, devices)
  BY DEF Smc!MetricsOf, PlacesOf
<1>2. [i \in DOMAIN metrics |-> IF metrics[i].device \in devices THEN metrics[i].value ELSE 0]
         = ChosenValues(metrics, PlacesOf(metrics, devices))
  BY DEF ChosenValues, PlacesOf
<1>3. \A S : Smc!Cardinality(S) = Cardinality(S)
  BY DEF Smc!Cardinality, Cardinality
<1> QED BY <1>1, <1>2, <1>3 DEF Smc!Summarizes, IsSummary

\* A summary is the same for sets of devices that have the same metrics.
LEMMA SummaryOfPresent ==
    ASSUME NEW stats, NEW metrics, NEW devices, NEW present, PlacesOf(metrics, devices) = PlacesOf(metrics, present),
           IsSummary(stats, metrics, PlacesOf(metrics, devices))
    PROVE  Smc!Summarizes(stats, metrics, present)
  BY SummarizesIs

LEMMA SummariesAre ==
    ASSUME NEW metrics, NEW d \in DOMAIN Smc!SummaryOf
    PROVE  Smc!Summaries(metrics)[Smc!SummaryOf[d]] = Smc!StatValues(metrics, Smc!DevicesIn(Smc!SummaryOf[d]))
<1> DEFINE Of == Smc!SummaryOf
           In(summary) == Smc!DevicesIn(summary)
<1>1. /\ DOMAIN Of = {"e_cpu_core", "p_cpu_core", "s_cpu_core", "gpu_core", "dram", "nand", "battery"}
      /\ Of["e_cpu_core"] = "cpu_temperature" /\ Of["p_cpu_core"] = "cpu_temperature"
      /\ Of["s_cpu_core"] = "cpu_temperature" /\ Of["gpu_core"] = "gpu_temperature"
      /\ Of["dram"] = "memory_temperature" /\ Of["nand"] = "disk_temperature"
      /\ Of["battery"] = "battery_temperature"
  BY DEF Smc!SummaryOf
<1>2. \A summary : In(summary) = {e \in DOMAIN Of : Of[e] = summary}
  BY DEF Smc!DevicesIn
<1> HIDE DEF Of, In
<1>3. In("cpu_temperature") = Smc!CpuDevices
  BY <1>1, <1>2 DEF Smc!CpuDevices
<1>4. In("gpu_temperature") = {"gpu_core"} /\ In("memory_temperature") = {"dram"}
  BY <1>1, <1>2
<1>5. In("disk_temperature") = {"nand"} /\ In("battery_temperature") = {"battery"}
  BY <1>1, <1>2
<1> DEFINE summaries == Smc!Summaries(metrics)
<1>6. /\ summaries["cpu_temperature"] = Smc!StatValues(metrics, In("cpu_temperature"))
      /\ summaries["gpu_temperature"] = Smc!StatValues(metrics, In("gpu_temperature"))
      /\ summaries["memory_temperature"] = Smc!StatValues(metrics, In("memory_temperature"))
      /\ summaries["disk_temperature"] = Smc!StatValues(metrics, In("disk_temperature"))
      /\ summaries["battery_temperature"] = Smc!StatValues(metrics, In("battery_temperature"))
  BY <1>3, <1>4, <1>5 DEF Smc!Summaries
<1> HIDE DEF summaries
<1>7. d \in DOMAIN Of
  BY DEF Of
<1>8. summaries[Of[d]] = Smc!StatValues(metrics, In(Of[d]))
  BY <1>1, <1>6, <1>7
<1> QED BY <1>8 DEF summaries, Of, In

\* What a report says of the temperatures and the fans.
SummariesIn(temperatures, fans, summaries, fan) ==
    /\ Smc!Summarizes(fan, fans, Smc!DevicesOf(fans))
    /\ Smc!DevicesOf(temperatures) \subseteq DOMAIN Smc!SummaryOf \cup {"unknown"}
    /\ \A d \in DOMAIN Smc!SummaryOf :
          Smc!Summarizes(summaries[Smc!SummaryOf[d]], temperatures, Smc!DevicesIn(Smc!SummaryOf[d]))

LEMMA SummariesHold ==
    ASSUME NEW temperatures \in Seq(Metrics(TemperatureDevices)), NEW fans \in Seq(Metrics({"fan"}))
    PROVE  SummariesIn(temperatures, fans, Smc!Summaries(temperatures), Smc!StatValues(fans, {"fan"}))
<1> DEFINE summaries == Smc!Summaries(temperatures)
           fan == Smc!StatValues(fans, {"fan"})
<1>1. Smc!Summarizes(fan, fans, Smc!DevicesOf(fans))
  <2>1. \A i \in DOMAIN fans : fans[i].device = "fan"
    <3>1. \A i \in DOMAIN fans : fans[i] \in Metrics({"fan"})
      OBVIOUS
    <3> QED BY <3>1 DEF Metrics
  <2>2. PlacesOf(fans, {"fan"}) = PlacesOf(fans, Smc!DevicesOf(fans))
    BY <2>1 DEF PlacesOf, Smc!DevicesOf
  <2>3. IsSummary(fan, fans, PlacesOf(fans, {"fan"}))
    BY StatsAre
  <2> HIDE DEF fan
  <2> QED BY <2>2, <2>3, SummaryOfPresent
<1>2. Smc!DevicesOf(temperatures) \subseteq DOMAIN Smc!SummaryOf \cup {"unknown"}
  <2>1. \A i \in DOMAIN temperatures : temperatures[i].device \in TemperatureDevices
    <3>1. \A i \in DOMAIN temperatures : temperatures[i] \in Metrics(TemperatureDevices)
      OBVIOUS
    <3> QED BY <3>1 DEF Metrics
  <2>2. TemperatureDevices \subseteq DOMAIN Smc!SummaryOf \cup {"unknown"}
    BY DEF TemperatureDevices, Smc!SummaryOf
  <2> QED BY <2>1, <2>2 DEF Smc!DevicesOf
<1>3. ASSUME NEW d \in DOMAIN Smc!SummaryOf
      PROVE  Smc!Summarizes(summaries[Smc!SummaryOf[d]], temperatures, Smc!DevicesIn(Smc!SummaryOf[d]))
  <2> DEFINE devices == Smc!DevicesIn(Smc!SummaryOf[d])
             stats == summaries[Smc!SummaryOf[d]]
  <2>1. stats = Smc!StatValues(temperatures, devices)
    BY SummariesAre
  <2> HIDE DEF summaries, stats, devices
  <2>2. IsSummary(stats, temperatures, PlacesOf(temperatures, devices))
    BY <2>1, StatsAre
  <2>3. Smc!Summarizes(stats, temperatures, devices)
    BY <2>2, SummarizesIs
  <2> QED BY <2>3 DEF stats, devices
<1> QED BY <1>1, <1>2, <1>3 DEF SummariesIn

-----------------------------------------------------------------------------
(***************************************************************************)
(* The keys that smc_reader::init validates.                               *)
(***************************************************************************)
TableRows(r) == Smc!KnownKeys(smc_brand, Smc!Tables[r[1]])
RowAt(r) == Smc!RowAt(smc_brand, r)
KeyAt(r) == Smc!Key(smc_brand, r)

\* init is past a row.
Passed(r) == r[1] < at[1] \/ (r[1] = at[1] /\ r[2] < at[2])

\* A row that init is past is valid if and only if the SMC answered for its key as the
\* row expects.
Validated ==
    \A r \in Smc!RowsOf(smc_brand) :
        /\ r \in valid => Passed(r)
        /\ Passed(r) => (r \in valid <=> answer[KeyAt(r)] = Smc!Expected(RowAt(r)))

\* What is cached is what the SMC answers.
CacheIsOfTheKeys ==
    /\ cache_keys \in Seq([key : Int \X Int, info : {answer[k] : k \in Int \X Int}])
    /\ \A i \in DOMAIN cache_keys : cache_keys[i].info = answer[cache_keys[i].key]

SmcInv ==
    /\ at \in (1..6) \X (Nat \ {0})
    /\ CacheIsOfTheKeys /\ Validated
    /\ smc_pc = "connect" => at = << 1, 1 >>
    /\ smc_pc \in {"ready", "reported"} => \A r \in Smc!RowsOf(smc_brand) : Passed(r)

\* Brand and answers stay, and what was said of the rows with them.
LEMMA RowsRemain ==
    ASSUME UNCHANGED <<smc_brand, answer>>
    PROVE  /\ Smc!RowsOf(smc_brand)' = Smc!RowsOf(smc_brand)
           /\ \A r \in Smc!RowsOf(smc_brand) : KeyAt(r)' = KeyAt(r) /\ RowAt(r)' = RowAt(r)
  BY DEF KeyAt, RowAt, Smc!RowsOf

LEMMA InitSmcInv == Smc!Init => SmcInv
<1> SUFFICES ASSUME Smc!Init PROVE SmcInv
  OBVIOUS
<1>1. at = << 1, 1 >> /\ smc_pc = "connect" /\ cache_keys = <<>> /\ valid = {}
  BY DEF Smc!Init
<1>2. CacheIsOfTheKeys
  BY <1>1 DEF CacheIsOfTheKeys
<1>3. \A r \in Smc!RowsOf(smc_brand) : ~ Passed(r)
  BY <1>1 DEF Passed, Smc!RowsOf
<1>4. Validated
  BY <1>1, <1>3 DEF Validated
<1>5. at \in (1..6) \X (Nat \ {0})
  BY <1>1
<1> QED BY <1>1, <1>2, <1>4, <1>5 DEF SmcInv

\* One key more is remembered with its answer, or none.
LEMMA CacheGrows ==
    ASSUME CacheIsOfTheKeys, NEW key \in Int \X Int, answer' = answer,
           cache_keys' \in {cache_keys, Append(cache_keys, [key |-> key, info |-> answer[key]])}
    PROVE  CacheIsOfTheKeys'
<1> DEFINE Entries == [key : Int \X Int, info : {answer[k] : k \in Int \X Int}]
           entry == [key |-> key, info |-> answer[key]]
           q == cache_keys
           r == cache_keys'
<1>1. q \in Seq(Entries) /\ \A i \in DOMAIN q : q[i].info = answer[q[i].key]
  BY DEF CacheIsOfTheKeys
<1>2. entry \in Entries /\ entry.info = answer[entry.key]
  OBVIOUS
<1>3. CASE r = q
  BY <1>3 DEF CacheIsOfTheKeys
<1>4. CASE r = Append(q, entry)
  <2> HIDE DEF Entries, entry, q
  <2>1. /\ r \in Seq(Entries) /\ DOMAIN r = DOMAIN q \cup {Len(q) + 1} /\ r[Len(q) + 1] = entry
        /\ \A i \in DOMAIN q : r[i] = q[i]
    BY <1>1, <1>2, <1>4
  <2>2. \A i \in DOMAIN r : r[i].info = answer[r[i].key]
    BY <1>1, <1>2, <2>1
  <2> QED BY <2>1, <2>2 DEF CacheIsOfTheKeys, Entries
<1> QED BY <1>3, <1>4

\* The turn of a row: its info is what the SMC answers, remembered or not.
LEMMA CheckKeepsInv == SmcInv /\ Smc!CheckKey => SmcInv'
<1> SUFFICES ASSUME SmcInv, Smc!CheckKey PROVE SmcInv'
  OBVIOUS
<1> DEFINE key == KeyAt(at)
           row == RowAt(at)
           seen == {i \in DOMAIN cache_keys : cache_keys[i].key = key}
           info == IF seen # {} THEN cache_keys[Smc!Min(seen)].info ELSE answer[key]
<1>1. /\ at \in (1..6) \X (Nat \ {0}) /\ CacheIsOfTheKeys /\ Validated
  BY DEF SmcInv
<1>2. /\ smc_pc = "check" /\ at[2] <= Len(TableRows(at)) /\ at' = << at[1], at[2] + 1 >>
      /\ cache_keys' = (IF seen = {} /\ info # "error"
                        THEN Append(cache_keys, [key |-> key, info |-> info]) ELSE cache_keys)
      /\ valid' = (IF info = Smc!Expected(row) THEN valid \cup {at} ELSE valid)
      /\ UNCHANGED <<smc_brand, answer, smc_pc>>
  BY DEF Smc!CheckKey, KeyAt, RowAt, TableRows
<1>3. key \in Int \X Int
  BY <1>1 DEF KeyAt, Smc!Key
<1>4. info = answer[key]
  <2>1. CASE seen = {}
    BY <2>1
  <2>2. CASE seen # {}
    <3> DEFINE least == Smc!Min(seen)
               n == Len(cache_keys)
    <3>1. n \in Nat /\ DOMAIN cache_keys = 1..n
      BY <1>1 DEF CacheIsOfTheKeys
    <3>2. seen \in SUBSET Nat
      BY <3>1
    <3>3. \E x \in seen : \A y \in seen : x <= y
      <4> HIDE DEF seen
      <4> QED BY <2>2, <3>2, LeastNat
    <3>4. least \in seen
      <4> HIDE DEF seen
      <4> QED BY <3>3 DEF Smc!Min
    <3> HIDE DEF least
    <3>5. cache_keys[least].info = answer[key]
      BY <1>1, <3>4 DEF CacheIsOfTheKeys
    <3> QED BY <2>2, <3>5 DEF least
  <2> QED BY <2>1, <2>2
<1> HIDE DEF key, row, seen, info
<1>5. CacheIsOfTheKeys'
  <2>1. cache_keys' \in {cache_keys, Append(cache_keys, [key |-> key, info |-> answer[key]])}
    BY <1>2, <1>4
  <2> QED BY <1>1, <1>2, <1>3, <2>1, CacheGrows
<1>6. at' \in (1..6) \X (Nat \ {0})
  BY <1>1, <1>2
<1>7. ASSUME NEW r \in Smc!RowsOf(smc_brand)
      PROVE  Passed(r)' <=> Passed(r) \/ r = at
  <2>1. r \in (1..6) \X (1..18)
    BY DEF Smc!RowsOf
  <2>2. r = at <=> r[1] = at[1] /\ r[2] = at[2]
    BY <1>1, <2>1
  <2>3. at[1] \in Int /\ at[2] \in Int /\ r[1] \in Int /\ r[2] \in Int
    BY <1>1, <2>1
  <2>4. at'[1] = at[1] /\ at'[2] = at[2] + 1
    BY <1>2
  <2>5. Passed(r)' <=> r[1] < at[1] \/ (r[1] = at[1] /\ r[2] < at[2] + 1)
    BY <2>4 DEF Passed
  <2>6. Passed(r) \/ r = at <=> r[1] < at[1] \/ (r[1] = at[1] /\ (r[2] < at[2] \/ r[2] = at[2]))
    BY <2>2, <2>3 DEF Passed
  <2> QED BY <2>3, <2>5, <2>6
<1>8. Validated'
  <2>1. /\ Smc!RowsOf(smc_brand)' = Smc!RowsOf(smc_brand)
        /\ \A r \in Smc!RowsOf(smc_brand) : KeyAt(r)' = KeyAt(r) /\ RowAt(r)' = RowAt(r)
    BY <1>2, RowsRemain
  <2> SUFFICES ASSUME NEW r \in Smc!RowsOf(smc_brand)
               PROVE  /\ r \in valid' => Passed(r)'
                      /\ Passed(r)' => (r \in valid' <=> answer[KeyAt(r)] = Smc!Expected(RowAt(r)))
    BY <1>2, <2>1 DEF Validated
  <2>2. /\ r \in valid => Passed(r)
        /\ Passed(r) => (r \in valid <=> answer[KeyAt(r)] = Smc!Expected(RowAt(r)))
    BY <1>1 DEF Validated
  <2>3. ~ Passed(at)
    BY <1>1 DEF Passed
  <2>4. CASE r = at
    BY <1>2, <1>4, <1>7, <2>2, <2>3, <2>4 DEF key, row
  <2>5. CASE r # at
    BY <1>2, <1>7, <2>2, <2>5
  <2> QED BY <2>4, <2>5
<1> QED BY <1>2, <1>5, <1>6, <1>8 DEF SmcInv

LEMMA NextTableKeepsInv == SmcInv /\ Smc!NextTable => SmcInv'
<1> SUFFICES ASSUME SmcInv, Smc!NextTable PROVE SmcInv'
  OBVIOUS
<1>1. at \in (1..6) \X (Nat \ {0}) /\ CacheIsOfTheKeys /\ Validated
  BY DEF SmcInv
<1>2. /\ smc_pc = "check" /\ at[2] > Len(TableRows(at))
      /\ UNCHANGED <<smc_brand, answer, valid>>
  BY DEF Smc!NextTable, TableRows
<1>3. /\ Smc!RowsOf(smc_brand)' = Smc!RowsOf(smc_brand)
      /\ \A r \in Smc!RowsOf(smc_brand) : KeyAt(r)' = KeyAt(r) /\ RowAt(r)' = RowAt(r)
  BY <1>2, RowsRemain
<1>4. ASSUME NEW r \in Smc!RowsOf(smc_brand) PROVE r[1] <= at[1] <=> Passed(r)
  <2>1. r \in (1..6) \X (1..18) /\ r[2] <= Len(TableRows(r))
    BY DEF Smc!RowsOf, TableRows
  <2>2. Len(TableRows(r)) \in Nat
    BY <2>1, TableFacts DEF TableRows
  <2>3. r[1] = at[1] => Len(TableRows(r)) = Len(TableRows(at))
    BY DEF TableRows
  <2> QED BY <1>1, <1>2, <2>1, <2>2, <2>3 DEF Passed
<1>5. CASE at[1] < 6
  <2>1. at' = << at[1] + 1, 1 >> /\ UNCHANGED <<smc_pc, cache_keys>>
    BY <1>5 DEF Smc!NextTable
  <2>2. ASSUME NEW r \in Smc!RowsOf(smc_brand) PROVE Passed(r)' <=> Passed(r)
    <3>1. r \in (1..6) \X (1..18)
      BY DEF Smc!RowsOf
    <3>2. Passed(r)' <=> r[1] <= at[1]
      BY <1>1, <2>1, <3>1 DEF Passed
    <3> QED BY <1>4, <3>2
  <2>3. Validated'
    BY <1>1, <1>2, <1>3, <2>2 DEF Validated
  <2>4. CacheIsOfTheKeys'
    BY <1>1, <1>2, <2>1 DEF CacheIsOfTheKeys
  <2>5. at' \in (1..6) \X (Nat \ {0})
    BY <1>1, <1>5, <2>1
  <2> QED BY <1>2, <2>1, <2>3, <2>4, <2>5 DEF SmcInv
<1>6. CASE ~ (at[1] < 6)
  <2>1. smc_pc' = "ready" /\ cache_keys' = <<>> /\ at' = at
    BY <1>6 DEF Smc!NextTable
  <2>2. \A r \in Smc!RowsOf(smc_brand) : Passed(r)
    <3>1. \A r \in Smc!RowsOf(smc_brand) : r[1] <= at[1]
      BY <1>1, <1>6 DEF Smc!RowsOf
    <3> QED BY <1>4, <3>1
  <2>3. \A r : Passed(r)' <=> Passed(r)
    BY <2>1 DEF Passed
  <2>4. Validated'
    BY <1>1, <1>2, <1>3, <2>3 DEF Validated
  <2>5. CacheIsOfTheKeys'
    BY <2>1 DEF CacheIsOfTheKeys
  <2> QED BY <1>1, <1>3, <2>1, <2>2, <2>3, <2>4, <2>5 DEF SmcInv
<1> QED BY <1>5, <1>6

\* The other steps leave what init has found.
LEMMA OthersKeepSmcInv ==
    ASSUME SmcInv, UNCHANGED <<smc_brand, answer, at, cache_keys, valid>>,
           smc_pc' = "connect" => smc_pc = "connect",
           smc_pc' \in {"ready", "reported"} => smc_pc \in {"ready", "reported"}
    PROVE  SmcInv'
<1>1. at \in (1..6) \X (Nat \ {0}) /\ CacheIsOfTheKeys /\ Validated
  BY DEF SmcInv
<1>2. /\ Smc!RowsOf(smc_brand)' = Smc!RowsOf(smc_brand)
      /\ \A r \in Smc!RowsOf(smc_brand) : KeyAt(r)' = KeyAt(r) /\ RowAt(r)' = RowAt(r)
  BY RowsRemain
<1>3. \A r : Passed(r)' <=> Passed(r)
  BY DEF Passed
<1>4. Validated'
  BY <1>1, <1>2, <1>3 DEF Validated
<1>5. CacheIsOfTheKeys'
  BY <1>1 DEF CacheIsOfTheKeys
<1>6. smc_pc' \in {"ready", "reported"} => \A r \in Smc!RowsOf(smc_brand)' : Passed(r)'
  BY <1>2, <1>3 DEF SmcInv
<1>7. smc_pc' = "connect" => at' = << 1, 1 >>
  BY DEF SmcInv
<1> QED BY <1>1, <1>4, <1>5, <1>6, <1>7 DEF SmcInv

LEMMA SmcKeepsInv == SmcInv /\ Smc!Next => SmcInv'
<1> SUFFICES ASSUME SmcInv, Smc!Next PROVE SmcInv'
  OBVIOUS
<1>1. CASE Smc!ConnectFails \/ Smc!Connect
  BY <1>1, OthersKeepSmcInv DEF Smc!ConnectFails, Smc!Connect
<1>2. CASE Smc!CheckKey
  BY <1>2, CheckKeepsInv
<1>3. CASE Smc!NextTable
  BY <1>3, NextTableKeepsInv
<1>4. CASE Smc!Sample
  <2>1. UNCHANGED <<smc_brand, answer, smc_pc, at, cache_keys, valid>>
    BY <1>4 DEF Smc!Sample
  <2> QED BY <2>1, OthersKeepSmcInv
<1>5. CASE Smc!SampleDiff
  <2>1. smc_pc = "ready" /\ smc_pc' = "reported" /\ UNCHANGED <<smc_brand, answer, at, cache_keys, valid>>
    BY <1>5 DEF Smc!SampleDiff
  <2> QED BY <2>1, OthersKeepSmcInv
<1>6. CASE Smc!Close \/ Smc!Closed
  <2>1. smc_pc' = "closed" /\ UNCHANGED <<smc_brand, answer, at, cache_keys, valid>>
    BY <1>6 DEF Smc!Close, Smc!Closed, Smc!vars
  <2> QED BY <2>1, OthersKeepSmcInv
<1> QED BY <1>1, <1>2, <1>3, <1>4, <1>5, <1>6 DEF Smc!Next

LEMMA SmcInvariance == MCSpec => []SmcInv
<1>1. MCInit => SmcInv
  BY InitSmcInv DEF MCInit, SmcRests
<1>2. SmcInv /\ [MCNext]_<<at_work, vars, smc_vars, load_vars, io_vars>> => SmcInv'
  <2> SUFFICES ASSUME SmcInv, [MCNext]_<<at_work, vars, smc_vars, load_vars, io_vars>> PROVE SmcInv'
    OBVIOUS
  <2>1. CASE Smc!Next
    BY <2>1, SmcKeepsInv
  <2>2. CASE UNCHANGED smc_vars
    <3>1. UNCHANGED <<smc_brand, answer, smc_pc, at, cache_keys, valid>>
      BY <2>2 DEF smc_vars
    <3> QED BY <3>1, OthersKeepSmcInv
  <2> QED BY <2>1, <2>2 DEF MCNext
<1> QED BY <1>1, <1>2, PTL DEF MCSpec

\* Once init is done a row of a device is read exactly if the SMC called its key a
\* 4-byte float, whatever was cached for the rows before it: for any brand and
\* any answers.
THEOREM KeysStayValidated == MCSpec => []Smc!KeysAreValidated
<1>1. SmcInv => Smc!KeysAreValidated
  <2> SUFFICES ASSUME SmcInv, smc_pc \in {"ready", "reported"},
                      NEW r \in Smc!RowsOf(smc_brand), ~ Smc!IsPadding(r)
               PROVE  r \in valid <=> answer[r] = "flt"
    BY DEF Smc!KeysAreValidated
  <2>1. r \in valid <=> answer[KeyAt(r)] = Smc!Expected(RowAt(r))
    BY DEF SmcInv, Validated
  <2>2. RowAt(r) # Smc!Padding
    BY DEF Smc!IsPadding, RowAt
  <2>3. KeyAt(r) = r
    <3>1. r = << r[1], r[2] >>
      BY DEF Smc!RowsOf
    <3> QED BY <2>2, <3>1 DEF KeyAt, RowAt, Smc!Key
  <2> QED BY <2>1, <2>2, <2>3 DEF Smc!Expected
<1> QED BY <1>1, SmcInvariance, PTL

-----------------------------------------------------------------------------
(***************************************************************************)
(* The samples, and the report on them.                                    *)
(***************************************************************************)
IsSampleRead(b, v, sample, reads) ==
    /\ IsReading(b, sample.temperatures, Smc!TemperatureRows(b), Among(Smc!TemperatureRows(b), v), reads)
    /\ IsReading(b, sample.fan_speeds, Smc!FanRows(b), Among(Smc!FanRows(b), v), reads)

ReportIsOf(b, v, reads, d) ==
    /\ d.sample_num = Len(reads)
    /\ MeansIn(b, reads, d.temperatures, Smc!TemperatureRows(b), Among(Smc!TemperatureRows(b), v))
    /\ MeansIn(b, reads, d.fan_speeds, Smc!FanRows(b), Among(Smc!FanRows(b), v))
    /\ SummariesIn(d.temperatures, d.fan_speeds, d.summaries, d.fan_speed)

\* Each sample is of what its own keys answered, the report of them all.
SamplesInv ==
    /\ readings \in Seq(Readings(smc_brand)) /\ samples \in Seq(SmcSamples)
    /\ Len(samples) = Len(readings)
    /\ \A j \in 1..Len(samples) : IsSampleRead(smc_brand, valid, samples[j], readings[j])
    /\ smc_pc \in {"connect", "check"} => samples = <<>>
    /\ smc_pc = "reported" => ReportIsOf(smc_brand, valid, readings, smc_diff)

LEMMA InitSamplesInv == Smc!Init => SamplesInv
<1> SUFFICES ASSUME Smc!Init PROVE SamplesInv
  OBVIOUS
<1>1. samples = <<>> /\ readings = <<>> /\ smc_pc = "connect"
  BY DEF Smc!Init
<1> QED BY <1>1 DEF SamplesInv

\* What stays of the samples while nothing is sampled.
LEMMA OthersKeepSamplesInv ==
    ASSUME SamplesInv, UNCHANGED <<smc_brand, samples, readings, smc_diff>>,
           valid' = valid \/ samples = <<>>,
           smc_pc' \in {"connect", "check"} => smc_pc \in {"connect", "check"},
           smc_pc' = "reported" => smc_pc = "reported" /\ valid' = valid
    PROVE  SamplesInv'
<1>1. /\ readings \in Seq(Readings(smc_brand)) /\ samples \in Seq(SmcSamples)
      /\ Len(samples) = Len(readings)
      /\ \A j \in 1..Len(samples) : IsSampleRead(smc_brand, valid, samples[j], readings[j])
      /\ smc_pc \in {"connect", "check"} => samples = <<>>
      /\ smc_pc = "reported" => ReportIsOf(smc_brand, valid, readings, smc_diff)
  BY DEF SamplesInv
<1>2. \A j \in 1..Len(samples) : IsSampleRead(smc_brand, valid', samples[j], readings[j])
  <2>1. CASE valid' = valid
    BY <1>1, <2>1
  <2>2. CASE samples = <<>>
    BY <2>2
  <2> QED BY <2>1, <2>2
<1>3. smc_pc' = "reported" => ReportIsOf(smc_brand, valid', readings, smc_diff)
  BY <1>1
<1>4. smc_pc' \in {"connect", "check"} => samples = <<>>
  BY <1>1
<1> QED BY <1>1, <1>2, <1>3, <1>4 DEF SamplesInv

LEMMA SampleKeepsInv == SamplesInv /\ Smc!Sample => SamplesInv'
<1> SUFFICES ASSUME SamplesInv, Smc!Sample PROVE SamplesInv'
  OBVIOUS
<1>1. /\ readings \in Seq(Readings(smc_brand)) /\ samples \in Seq(SmcSamples)
      /\ Len(samples) = Len(readings)
      /\ \A j \in 1..Len(samples) : IsSampleRead(smc_brand, valid, samples[j], readings[j])
  BY DEF SamplesInv
<1>2. PICK failing : \E n \in {Len(samples) + 1} :
         LET reads == [k \in Smc!RowsOf(smc_brand) |->
                          IF k \in failing THEN Smc!NoAnswer ELSE Smc!Shows(k, n)]
         IN /\ samples' = Append(samples,
                  [temperatures |-> Smc!ReadKnownKeys(Smc!TemperatureRows(smc_brand), reads),
                   fan_speeds |-> Smc!ReadKnownKeys(Smc!FanRows(smc_brand), reads)])
            /\ readings' = Append(readings, reads)
  BY DEF Smc!Sample
<1> DEFINE n == Len(samples)
           reads == [k \in Smc!RowsOf(smc_brand) |->
                        IF k \in failing THEN Smc!NoAnswer ELSE Smc!Shows(k, n + 1)]
           t == Smc!ReadKnownKeys(Smc!TemperatureRows(smc_brand), reads)
           f == Smc!ReadKnownKeys(Smc!FanRows(smc_brand), reads)
           sample == [temperatures |-> t, fan_speeds |-> f]
<1>3. smc_pc = "ready" /\ UNCHANGED <<smc_brand, smc_pc, valid>>
  BY DEF Smc!Sample
<1>4. samples' = Append(samples, sample) /\ readings' = Append(readings, reads)
  BY <1>2
<1>5. reads \in Readings(smc_brand)
  <2>1. n \in Nat
    BY <1>1
  <2>2. ASSUME NEW k \in Smc!RowsOf(smc_brand) PROVE Smc!Shows(k, n + 1) \in Nat
    <3>1. k[1] \in 1..6 /\ k[2] \in 1..18
      BY DEF Smc!RowsOf
    <3> HIDE DEF n
    <3> QED BY <2>1, <3>1 DEF Smc!Shows
  <2> HIDE DEF n
  <2> QED BY <2>2 DEF Readings
<1> HIDE DEF reads
<1>6. /\ t \in Seq(Metrics(TemperatureDevices))
      /\ IsReading(smc_brand, t, Smc!TemperatureRows(smc_brand),
                   Among(Smc!TemperatureRows(smc_brand), valid), reads)
  <2>1. Smc!TemperatureRows(smc_brand) \in Seq(RowsWith(smc_brand, TemperatureDevices))
    BY ReportRows
  <2> QED BY <1>5, <2>1, ReadingIs
<1>7. /\ f \in Seq(Metrics({"fan"}))
      /\ IsReading(smc_brand, f, Smc!FanRows(smc_brand), Among(Smc!FanRows(smc_brand), valid), reads)
  <2> DEFINE fans == {"fan"}
  <2>1. Smc!FanRows(smc_brand) \in Seq(RowsWith(smc_brand, fans))
    BY ReportRows
  <2> HIDE DEF fans
  <2>2. /\ f \in Seq(Metrics(fans))
        /\ IsReading(smc_brand, f, Smc!FanRows(smc_brand), Among(Smc!FanRows(smc_brand), valid), reads)
    BY <1>5, <2>1, ReadingIs
  <2> QED BY <2>2 DEF fans
<1> HIDE DEF t, f
<1>8. sample \in SmcSamples /\ IsSampleRead(smc_brand, valid, sample, reads)
  BY <1>6, <1>7 DEF SmcSamples, IsSampleRead
<1> HIDE DEF sample
<1>9. /\ samples' \in Seq(SmcSamples) /\ readings' \in Seq(Readings(smc_brand))
      /\ Len(samples') = Len(readings') /\ Len(samples') = n + 1 /\ n \in Nat
      /\ samples'[n + 1] = sample /\ readings'[n + 1] = reads
      /\ \A j \in 1..n : samples'[j] = samples[j] /\ readings'[j] = readings[j]
  BY <1>1, <1>4, <1>5, <1>8
<1>10. ASSUME NEW j \in 1..Len(samples') PROVE IsSampleRead(smc_brand, valid, samples'[j], readings'[j])
  <2>1. CASE j = n + 1
    BY <1>8, <1>9, <2>1
  <2>2. CASE j \in 1..n
    BY <1>1, <1>9, <2>2
  <2> QED BY <1>9, <2>1, <2>2
<1> QED BY <1>3, <1>9, <1>10 DEF SamplesInv

\* A window that is read on shows all its samples.
LEMMA DiffKeepsInv == SamplesInv /\ Smc!SampleDiff => SamplesInv'
<1> SUFFICES ASSUME SamplesInv, Smc!SampleDiff PROVE SamplesInv'
  OBVIOUS
<1> DEFINE n == Len(samples)
           trows == Smc!TemperatureRows(smc_brand)
           frows == Smc!FanRows(smc_brand)
           S == Among(trows, valid)
           F == Among(frows, valid)
<1>1. /\ readings \in Seq(Readings(smc_brand)) /\ samples \in Seq(SmcSamples)
      /\ Len(readings) = n
      /\ \A j \in 1..n : IsSampleRead(smc_brand, valid, samples[j], readings[j])
  BY DEF SamplesInv
<1>2. smc_pc' = "reported" /\ UNCHANGED <<smc_brand, valid, samples, readings>>
  BY DEF Smc!SampleDiff
<1>3. n \in Nat /\ n >= 1
  <2>1. Len(samples) = Window /\ Window \in Nat \ {0}
    BY ReadersAssumption DEF Smc!SampleDiff, Smc!Assumption
  <2> QED BY <2>1
<1>4. trows \in Seq(RowsWith(smc_brand, TemperatureDevices)) /\ frows \in Seq(RowsWith(smc_brand, {"fan"}))
  BY ReportRows
<1>5. \A j \in 1..n : /\ IsReading(smc_brand, samples[j].temperatures, trows, S, readings[j])
                      /\ IsReading(smc_brand, samples[j].fan_speeds, frows, F, readings[j])
  BY <1>1 DEF IsSampleRead
<1>6. Cardinality(S) \in Nat /\ Cardinality(F) \in Nat
  <2>1. \A rows, v : Among(rows, v) \in SUBSET DOMAIN rows
    BY DEF Among
  <2>2. DOMAIN trows = 1..Len(trows) /\ Len(trows) \in Nat /\ DOMAIN frows = 1..Len(frows) /\ Len(frows) \in Nat
    BY <1>4
  <2>3. IsFiniteSet(1..Len(trows)) /\ IsFiniteSet(1..Len(frows))
    BY <2>2, FS_Interval
  <2>4. IsFiniteSet(S) /\ IsFiniteSet(F)
    BY <2>1, <2>2, <2>3, FS_Subset
  <2> QED BY <2>4, FS_CardinalityType
<1> HIDE DEF trows, frows, S, F
<1>7. Alike(Cardinality(S), Cardinality(F))
  BY <1>5 DEF Alike, IsReading
<1>8. PICK merged : Merging(merged) /\ Smc!Merged = merged[n]
  BY <1>1, <1>3, MergedIs
<1>9. ASSUME NEW j \in 1..n
      PROVE  /\ merged[j] \in Merges /\ merged[j].sample_num = j
             /\ Len(merged[j].temperatures) = Cardinality(S) /\ Len(merged[j].fan_speeds) = Cardinality(F)
             /\ j > 1 => /\ AddsUp(merged[j].temperatures, merged[j - 1].temperatures, samples[j].temperatures)
                         /\ AddsUp(merged[j].fan_speeds, merged[j - 1].fan_speeds, samples[j].fan_speeds)
  BY <1>1, <1>3, <1>6, <1>7, <1>8, MergesAddUp
<1> DEFINE d == merged[n]
           T(j) == merged[j].temperatures
<1>10. MeansIn(smc_brand, readings, d.temperatures, trows, S)
  <2> DEFINE sums == [j \in 1..n |-> merged[j].temperatures]
             parts == [j \in 1..n |-> samples[j].temperatures]
  <2>1. sums[1] = parts[1] /\ sums[n] = d.temperatures
    BY <1>3, <1>8 DEF Merging, Smc!FirstOf
  <2>2. \A j \in 1..n : /\ parts[j] \in Seq(Metrics(TemperatureDevices))
                        /\ IsReading(smc_brand, parts[j], trows, S, readings[j])
                        /\ Len(sums[j]) = Cardinality(S)
    <3>1. \A j \in 1..n : samples[j] \in SmcSamples
      BY <1>1
    <3>2. \A j \in 1..n : samples[j].temperatures \in Seq(Metrics(TemperatureDevices))
      BY <3>1 DEF SmcSamples
    <3> QED BY <1>5, <1>9, <3>2
  <2>3. \A j \in 2..n : AddsUp(sums[j], sums[j - 1], parts[j])
    <3>1. \A j \in 2..n : j \in 1..n /\ j - 1 \in 1..n /\ j > 1
      BY <1>3
    <3> QED BY <1>9, <3>1
  <2> HIDE DEF sums, parts
  <2>4. MeansIn(smc_brand, readings, sums[n], trows, S)
    BY <1>1, <1>3, <1>4, <2>1, <2>2, <2>3, MeansAre DEF S
  <2> QED BY <2>1, <2>4
<1>11. MeansIn(smc_brand, readings, d.fan_speeds, frows, F)
  <2> DEFINE sums == [j \in 1..n |-> merged[j].fan_speeds]
             parts == [j \in 1..n |-> samples[j].fan_speeds]
             fans == {"fan"}
  <2>1. sums[1] = parts[1] /\ sums[n] = d.fan_speeds
    BY <1>3, <1>8 DEF Merging, Smc!FirstOf
  <2>2. \A j \in 1..n : /\ parts[j] \in Seq(Metrics(fans))
                        /\ IsReading(smc_brand, parts[j], frows, F, readings[j])
                        /\ Len(sums[j]) = Cardinality(F)
    <3>1. \A j \in 1..n : samples[j] \in SmcSamples
      BY <1>1
    <3>2. \A j \in 1..n : samples[j].fan_speeds \in Seq(Metrics(fans))
      BY <3>1 DEF SmcSamples
    <3> QED BY <1>5, <1>9, <3>2
  <2>3. \A j \in 2..n : AddsUp(sums[j], sums[j - 1], parts[j])
    <3>1. \A j \in 2..n : j \in 1..n /\ j - 1 \in 1..n /\ j > 1
      BY <1>3
    <3> QED BY <1>9, <3>1
  <2>4. frows \in Seq(RowsWith(smc_brand, fans))
    BY <1>4
  <2> HIDE DEF sums, parts, fans
  <2>5. MeansIn(smc_brand, readings, sums[n], frows, F)
    BY <1>1, <1>3, <2>1, <2>2, <2>3, <2>4, MeansAre DEF F
  <2> QED BY <2>1, <2>5
<1>12. d.sample_num = n /\ d.temperatures \in Seq(Metrics(TemperatureDevices))
       /\ d.fan_speeds \in Seq(Metrics({"fan"}))
  <2>1. n \in 1..n
    BY <1>3
  <2>2. d \in Merges /\ d.sample_num = n
    BY <1>9, <2>1
  <2> HIDE DEF d
  <2> QED BY <2>2 DEF Merges
<1>13. smc_diff' = [sample_num |-> d.sample_num, temperatures |-> d.temperatures,
                    fan_speeds |-> d.fan_speeds, summaries |-> Smc!Summaries(d.temperatures),
                    fan_speed |-> Smc!StatValues(d.fan_speeds, {"fan"})]
  BY <1>8 DEF Smc!SampleDiff
<1> HIDE DEF d, n
<1>14. SummariesIn(d.temperatures, d.fan_speeds, Smc!Summaries(d.temperatures),
                   Smc!StatValues(d.fan_speeds, {"fan"}))
  BY <1>12, SummariesHold
<1>15. ReportIsOf(smc_brand, valid, readings, smc_diff')
  <2>1. /\ smc_diff'.sample_num = d.sample_num /\ smc_diff'.temperatures = d.temperatures
        /\ smc_diff'.fan_speeds = d.fan_speeds /\ smc_diff'.summaries = Smc!Summaries(d.temperatures)
        /\ smc_diff'.fan_speed = Smc!StatValues(d.fan_speeds, {"fan"})
    BY <1>13
  <2> QED BY <1>1, <1>10, <1>11, <1>12, <1>14, <2>1 DEF ReportIsOf, trows, frows, S, F
<1> QED BY <1>1, <1>2, <1>15 DEF SamplesInv, n

LEMMA SmcKeepsSamplesInv == SmcInv /\ SamplesInv /\ Smc!Next => SamplesInv'
<1> SUFFICES ASSUME SmcInv, SamplesInv, Smc!Next PROVE SamplesInv'
  OBVIOUS
<1>1. CASE Smc!ConnectFails \/ Smc!Connect
  BY <1>1, OthersKeepSamplesInv DEF Smc!ConnectFails, Smc!Connect
<1>2. CASE Smc!CheckKey
  <2>1. smc_pc = "check" /\ UNCHANGED <<smc_brand, samples, readings, smc_diff, smc_pc>>
    BY <1>2 DEF Smc!CheckKey
  <2>2. samples = <<>>
    BY <2>1 DEF SamplesInv
  <2> QED BY <2>1, <2>2, OthersKeepSamplesInv
<1>3. CASE Smc!NextTable
  <2>1. /\ smc_pc = "check" /\ smc_pc' \in {"check", "ready"}
        /\ UNCHANGED <<smc_brand, samples, readings, smc_diff, valid>>
    BY <1>3 DEF Smc!NextTable
  <2> QED BY <2>1, OthersKeepSamplesInv
<1>4. CASE Smc!Sample
  BY <1>4, SampleKeepsInv
<1>5. CASE Smc!SampleDiff
  BY <1>5, DiffKeepsInv
<1>6. CASE Smc!Close \/ Smc!Closed
  <2>1. smc_pc' = "closed" /\ UNCHANGED <<smc_brand, samples, readings, smc_diff, valid>>
    BY <1>6 DEF Smc!Close, Smc!Closed, Smc!vars
  <2> QED BY <2>1, OthersKeepSamplesInv
<1> QED BY <1>1, <1>2, <1>3, <1>4, <1>5, <1>6 DEF Smc!Next

LEMMA SamplesInvariance == MCSpec => []SamplesInv
<1>1. MCInit => SamplesInv
  BY InitSamplesInv DEF MCInit, SmcRests
<1>2. SmcInv /\ SamplesInv /\ [MCNext]_<<at_work, vars, smc_vars, load_vars, io_vars>> => SamplesInv'
  <2> SUFFICES ASSUME SmcInv, SamplesInv, [MCNext]_<<at_work, vars, smc_vars, load_vars, io_vars>>
               PROVE  SamplesInv'
    OBVIOUS
  <2>1. CASE Smc!Next
    BY <2>1, SmcKeepsSamplesInv
  <2>2. CASE UNCHANGED smc_vars
    <3>1. UNCHANGED <<smc_brand, smc_pc, valid, samples, readings, smc_diff>>
      BY <2>2 DEF smc_vars
    <3> QED BY <3>1, OthersKeepSamplesInv
  <2> QED BY <2>1, <2>2 DEF MCNext
<1> QED BY <1>1, <1>2, SmcInvariance, PTL DEF MCSpec

\* Once init is done the valid rows are those the SMC answers as sensors.
LEMMA SensorsAreValid ==
    ASSUME SmcInv, smc_pc = "reported", NEW devices, NEW rows \in Seq(RowsWith(smc_brand, devices))
    PROVE  {k \in DOMAIN rows : Smc!IsSensor(rows[k])} = Among(rows, valid)
<1>1. ASSUME NEW k \in DOMAIN rows PROVE Smc!IsSensor(rows[k]) <=> rows[k] \in valid
  <2> DEFINE r == rows[k]
  <2>1. r \in Smc!RowsOf(smc_brand)
    <3>1. r \in RowsWith(smc_brand, devices)
      OBVIOUS
    <3> HIDE DEF r
    <3> QED BY <3>1 DEF RowsWith
  <2> HIDE DEF r
  <2>2. Passed(r) /\ (Passed(r) => (r \in valid <=> answer[KeyAt(r)] = Smc!Expected(RowAt(r))))
    BY <2>1 DEF SmcInv, Validated
  <2>3. CASE RowAt(r) = Smc!Padding
    <3>1. KeyAt(r) = << 0, 0 >> /\ Smc!Expected(RowAt(r)) = "empty"
      BY <2>3 DEF KeyAt, RowAt, Smc!Key, Smc!Expected
    <3>2. Smc!IsSensor(r) <=> answer[<< 0, 0 >>] = "empty"
      BY <2>3 DEF Smc!IsSensor, Smc!IsPadding, RowAt
    <3> QED BY <2>2, <3>1, <3>2 DEF r
  <2>4. CASE RowAt(r) # Smc!Padding
    <3>1. KeyAt(r) = r /\ Smc!Expected(RowAt(r)) = "flt"
      BY <2>4 DEF KeyAt, RowAt, Smc!Key, Smc!Expected
    <3>2. Smc!IsSensor(r) <=> answer[r] = "flt"
      BY <2>4 DEF Smc!IsSensor, Smc!IsPadding, RowAt
    <3> QED BY <2>2, <3>1, <3>2 DEF r
  <2> QED BY <2>3, <2>4
<1> QED BY <1>1 DEF Among

\* The means of valid rows are those of sensors.
LEMMA MeansAreOfSensors ==
    ASSUME SmcInv, smc_pc = "reported", NEW devices, NEW rows \in Seq(RowsWith(smc_brand, devices)),
           NEW metrics, MeansIn(smc_brand, readings, metrics, rows, Among(rows, valid))
    PROVE  Smc!AreMeansOf(metrics, rows)
<1> DEFINE S == {k \in DOMAIN rows : Smc!IsSensor(rows[k])}
<1>1. S = Among(rows, valid)
  BY SensorsAreValid
<1> HIDE DEF S
<1>2. Len(metrics) = Cardinality(S) /\ \A k \in S : IsMeanIn(smc_brand, readings, metrics[PlaceIn(S, k)], rows[k])
  BY <1>1 DEF MeansIn
<1>3. ASSUME NEW k \in S PROVE Smc!IsMeanOf(metrics[Smc!Place(S, k)], rows[k])
  <2>1. Smc!Place(S, k) = PlaceIn(S, k)
    BY PlaceIs
  <2>2. IsMeanIn(smc_brand, readings, metrics[PlaceIn(S, k)], rows[k])
    BY <1>2
  <2> QED BY <2>1, <2>2 DEF IsMeanIn, Smc!IsMeanOf, Smc!IsPadding
<1>4. Smc!Cardinality(S) = Cardinality(S)
  BY DEF Smc!Cardinality, Cardinality
<1> QED BY <1>2, <1>3, <1>4 DEF Smc!AreMeansOf, S

LEMMA InvImpliesMeans == SmcInv /\ SamplesInv => Smc!MeansAreOfTheirKeys /\ Smc!SummariesAreExact
<1> SUFFICES ASSUME SmcInv, SamplesInv, smc_pc = "reported"
             PROVE  Smc!MeansAreOfTheirKeys /\ Smc!SummariesAreExact
  BY DEF Smc!MeansAreOfTheirKeys, Smc!SummariesAreExact
<1>1. ReportIsOf(smc_brand, valid, readings, smc_diff)
  BY DEF SamplesInv
<1>2. Smc!AreMeansOf(smc_diff.temperatures, Smc!TemperatureRows(smc_brand))
  <2> DEFINE rows == Smc!TemperatureRows(smc_brand)
  <2>1. rows \in Seq(RowsWith(smc_brand, TemperatureDevices))
    BY ReportRows
  <2>2. MeansIn(smc_brand, readings, smc_diff.temperatures, rows, Among(rows, valid))
    BY <1>1 DEF ReportIsOf
  <2> HIDE DEF rows
  <2>3. Smc!AreMeansOf(smc_diff.temperatures, rows)
    BY <2>1, <2>2, MeansAreOfSensors
  <2> QED BY <2>3 DEF rows
<1>3. Smc!AreMeansOf(smc_diff.fan_speeds, Smc!FanRows(smc_brand))
  <2> DEFINE rows == Smc!FanRows(smc_brand)
             fans == {"fan"}
  <2>1. rows \in Seq(RowsWith(smc_brand, fans))
    BY ReportRows
  <2>2. MeansIn(smc_brand, readings, smc_diff.fan_speeds, rows, Among(rows, valid))
    BY <1>1 DEF ReportIsOf
  <2> HIDE DEF rows, fans
  <2>3. Smc!AreMeansOf(smc_diff.fan_speeds, rows)
    BY <2>1, <2>2, MeansAreOfSensors
  <2> QED BY <2>3 DEF rows
<1>4. Smc!MeansAreOfTheirKeys
  BY <1>1, <1>2, <1>3 DEF Smc!MeansAreOfTheirKeys, ReportIsOf
<1>5. Smc!SummariesAreExact
  BY <1>1 DEF Smc!SummariesAreExact, ReportIsOf, SummariesIn
<1> QED BY <1>4, <1>5

\* A report has the sensors that the SMC answered for and no other, each with the
\* mean of what its own key answered in all the samples, and summaries that are
\* those of their kinds: for windows of any length, any brand and any answers.
THEOREM SensorsStayExact == MCSpec => []SensorsAreExact
<1>1. SmcInv /\ SamplesInv /\ Smc!KeysAreValidated => SensorsAreExact
  BY InvImpliesMeans DEF SensorsAreExact, Smc!SensorsAreExact
<1> QED BY <1>1, SmcInvariance, SamplesInvariance, KeysStayValidated, PTL
=============================================================================
