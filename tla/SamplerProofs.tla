--------------------------- MODULE SamplerProofs ---------------------------
(***************************************************************************)
(* Proofs about Sampler, for every set of devices, every lateness and any  *)
(* number of samples, clock steps and operations: the types and the shape  *)
(* of the queue, what the reports count and when they come, what a window  *)
(* of an undisturbed clock contains, and that windows tile.                *)
(***************************************************************************)
EXTENDS Sampler, FiniteSetTheorems, SequenceTheorems, TLAPS

-----------------------------------------------------------------------------
(***************************************************************************)
(* The operators of sample_diff.                                           *)
(***************************************************************************)

\* The samples of a queue and their fields.
LEMMA SampleFields ==
    ASSUME NEW q \in Seq(Samples), NEW i \in 1..Len(q)
    PROVE  /\ q[i] \in Samples
           /\ q[i].time \in Nat
<1>1. q[i] \in Samples
  OBVIOUS
<1> QED BY <1>1 DEF Samples

\* A step of the scan: if one of the first k samples is the first of their
\* latest, one of the first k + 1 is.
LEMMA ScanStep ==
    ASSUME NEW q \in Seq(Samples), NEW k \in 1..(Len(q) - 1),
           \E i \in 1..k : Later(q, i) /\ \A j \in i..k : q[j].time <= q[i].time
    PROVE  \E i \in 1..(k + 1) :
               Later(q, i) /\ \A j \in i..(k + 1) : q[j].time <= q[i].time
<1> DEFINE t(i) == q[i].time
<1>1. \A i \in 1..Len(q) : t(i) \in Nat
  BY SampleFields
<1>2. PICK i \in 1..k : Later(q, i) /\ \A j \in i..k : t(j) <= t(i)
  OBVIOUS
<1>3. CASE t(k + 1) <= t(i)
  <2>1. \A j \in i..(k + 1) : t(j) <= t(i)
    BY <1>2, <1>3
  <2>2. i \in 1..(k + 1)
    OBVIOUS
  <2> QED BY <1>2, <2>1, <2>2
<1>4. CASE t(i) < t(k + 1)
  <2>1. \A j \in 1..(i - 1) : t(j) < t(i)
    BY <1>2 DEF Later
  <2>2. ASSUME NEW j \in 1..k PROVE t(j) < t(k + 1)
    <3>1. j \in 1..(i - 1) \/ j \in i..k
      OBVIOUS
    <3>2. t(j) <= t(i)
      BY <3>1, <2>1, <1>2, <1>1
    <3> HIDE DEF t
    <3> QED BY <3>2, <1>4, <1>1
  <2>3. Later(q, k + 1)
    BY <2>2 DEF Later
  <2>4. \A j \in (k + 1)..(k + 1) : t(j) <= t(k + 1)
    BY <1>1
  <2> QED BY <2>3, <2>4
<1> QED BY <1>1, <1>3, <1>4

\* The scan of a whole window stops at the first of its latest samples.
LEMMA ScanLast ==
    ASSUME NEW q \in Seq(Samples), Len(q) = 6
    PROVE  /\ LastIndex(q) \in 1..6
           /\ Later(q, LastIndex(q))
           /\ \A j \in LastIndex(q)..6 : q[j].time <= q[LastIndex(q)].time
<1> DEFINE P(k) == \E i \in 1..k :
                      Later(q, i) /\ \A j \in i..k : q[j].time <= q[i].time
<1>1. P(1)
  <2>0. 1 \in 1..Len(q)
    OBVIOUS
  <2>1. q[1].time \in Nat
    BY <2>0, SampleFields
  <2>2. Later(q, 1)
    BY DEF Later
  <2> QED BY <2>1, <2>2
<1>2. ASSUME NEW k \in 1..5, P(k) PROVE P(k + 1)
  <2>1. k \in 1..(Len(q) - 1)
    OBVIOUS
  <2> QED BY <1>2, <2>1, ScanStep
<1> HIDE DEF P
<1>3. P(6)
  BY <1>1, <1>2
<1>4. \E i \in 1..6 : Later(q, i) /\ \A j \in i..6 : q[j].time <= q[i].time
  BY <1>3 DEF P
<1> QED BY <1>4 DEF LastIndex

LEMMA SampleNumType ==
    ASSUME NEW q \in Seq(Samples)
    PROVE  SampleNum(q) \in Nat
<1>1. IsFiniteSet(1..Len(q))
  BY FS_Interval
<1>2. IsFiniteSet({i \in 1..Len(q) : Later(q, i)})
  BY <1>1, FS_Subset
<1> QED BY <1>2, FS_CardinalityType DEF SampleNum

LEMMA CounterDeltaType ==
    ASSUME NEW start \in Nat, NEW end \in Nat
    PROVE  /\ CounterDelta(start, end) \in Nat
           /\ CounterDelta(start, end) # 0 =>
                 start > 0 /\ CounterDelta(start, end) = end - start
BY DEF CounterDelta

LEMMA CounterDiffType ==
    ASSUME NEW start \in CounterMaps, NEW end \in CounterMaps
    PROVE  CounterDiff(start, end) \in CounterMaps
<1> SUFFICES ASSUME NEW d \in Devices,
                    start[d] # Nullopt, end[d] # Nullopt
             PROVE  CounterDelta(start[d], end[d]) \in Nat
  BY DEF CounterDiff, CounterMaps, Listed
<1> QED BY CounterDeltaType DEF CounterMaps

\* Whatever the window, sample_diff returns a diff; it dereferences no empty
\* optional when the payloads are where the window's shape puts them.
LEMMA SampleDiffType ==
    ASSUME NEW q \in Seq(Samples), Len(q) = 6
    PROVE  /\ SampleDiff(q) \in Diffs
           /\ (\A i \in 1..6 : q[i].major => HasPayloads(q[i])) =>
                  SampleDiff(q).kind # "undefined"
<1> DEFINE f == q[1]
           l == q[LastIndex(q)]
<1>1. f \in Samples /\ l \in Samples
  BY ScanLast, SampleFields
<1>2. EmptyDiff \in Diffs /\ UndefinedDiff \in Diffs
  BY DEF EmptyDiff, UndefinedDiff, Diffs, CounterMaps
<1>3. ASSUME HasPayloads(f), HasPayloads(l)
      PROVE  FullDiff(q, f, l) \in Diffs
  <2>1. f.io \in CounterMaps /\ l.io \in CounterMaps
    BY <1>1, <1>3 DEF HasPayloads, Samples
  <2>2. f.io_report \in IoReportSamples /\ l.io_report \in IoReportSamples
    BY <1>1, <1>3 DEF HasPayloads, Samples
  <2>3. PowerSeconds(f.io_report, l.io_report) \in SUBSET Int
    <3> DEFINE start == f.io_report
               end == l.io_report
    <3>1. start.time \in Nat /\ end.time \in Nat
      BY <2>2 DEF IoReportSamples
    <3> HIDE DEF start, end
    <3>2. (end.time - start.time) \div UnitsPerSecond \in Int
      BY <3>1, SamplerAssumption
    <3>3. PowerSeconds(start, end) \in SUBSET Int
      BY <3>2 DEF PowerSeconds
    <3> QED BY <3>3 DEF start, end
  <2>4. (l.time - f.time) \div UnitsPerSecond \in Int
    <3> DEFINE start == f.time
               end == l.time
    <3>1. start \in Nat /\ end \in Nat
      BY <1>1 DEF Samples
    <3> HIDE DEF start, end
    <3>2. (end - start) \div UnitsPerSecond \in Int
      BY <3>1, SamplerAssumption
    <3> QED BY <3>2 DEF start, end
  <2> HIDE DEF f, l
  <2> QED BY <2>1, <2>3, <2>4, SampleNumType, CounterDiffType DEF FullDiff, Diffs
<1>4. SampleDiff(q) \in Diffs
  BY <1>2, <1>3 DEF SampleDiff
<1>5. ASSUME \A i \in 1..6 : q[i].major => HasPayloads(q[i])
      PROVE  SampleDiff(q).kind # "undefined"
  <2>1. Comparable(q) => HasPayloads(q[1]) /\ HasPayloads(q[LastIndex(q)])
    BY <1>5, ScanLast DEF Comparable
  <2>2. EmptyDiff.kind = "empty" /\ FullDiff(q, f, l).kind = "full"
    BY DEF EmptyDiff, FullDiff
  <2> QED BY <2>1, <2>2 DEF SampleDiff
<1> QED BY <1>4, <1>5

-----------------------------------------------------------------------------
(***************************************************************************)
(* The inductive invariant.  The types of the reports depend on the shape  *)
(* of the queue: that is what keeps sample_diff away from empty optionals. *)
(***************************************************************************)

IInv == TypeOK /\ QueueShape /\ NoUndefinedDiff

\* What Push needs of the sample it is given.
Pushable(s) ==
    /\ s \in Samples
    /\ s.major <=> Len(sample_queue) \in {0, 5}
    /\ IF s.major THEN HasPayloads(s) ELSE s.io = Nullopt

\* Cutting the queue back leaves its last sample.
LEMMA KeepNewestIsLast ==
    ASSUME NEW q \in Seq(Samples), Len(q) = 6
    PROVE  KeepNewest(q) \in Seq(Samples) /\ KeepNewest(q) = <<q[6]>>
<1>1. q[6] \in Samples
  BY SampleFields
<1> DEFINE cut == SubSeq(q, 6, 6)
           newest == <<q[6]>>
<1>2. cut \in Seq(Samples) /\ Len(cut) = 1 /\ cut[1] = q[6]
  BY <1>1, SubSeqProperties
<1>3. newest \in Seq(Samples) /\ Len(newest) = 1 /\ newest[1] = q[6]
  BY <1>1
<1>4. cut = newest
  <2> HIDE DEF cut, newest
  <2>1. \A i \in 1..Len(cut) : cut[i] = newest[i]
    BY <1>2, <1>3
  <2> QED BY <1>2, <1>3, <2>1, SeqEqual
<1> QED BY <1>2, <1>4 DEF KeepNewest

\* The window once the sample is in it: majors at both ends, with payloads.
LEMMA PushedQueue ==
    ASSUME TypeOK, QueueShape, NEW s, Pushable(s)
    PROVE  LET q == Append(sample_queue, s)
           IN /\ q \in Seq(Samples)
              /\ Len(q) = Len(sample_queue) + 1
              /\ Len(q) \in 1..6
              /\ q[Len(q)] = s
              /\ \A i \in 1..Len(sample_queue) : q[i] = sample_queue[i]
              /\ \A i \in 1..Len(q) :
                    /\ q[i].major <=> i \in {1, 6}
                    /\ IF i \in {1, 6} THEN HasPayloads(q[i])
                                       ELSE q[i].io = Nullopt
<1> DEFINE q == Append(sample_queue, s)
<1>1. sample_queue \in Seq(Samples) /\ s \in Samples
  BY DEF TypeOK, Pushable
<1>2. Len(sample_queue) \in 0..5
  <2>1. Len(sample_queue) \in Nat
    BY <1>1
  <2>2. Len(sample_queue) <= 5
    BY Zenon DEF QueueShape
  <2> DEFINE n == Len(sample_queue)
  <2>3. n \in Nat /\ n <= 5
    BY <2>1, <2>2
  <2> HIDE DEF n
  <2>4. n \in 0..5
    BY <2>3
  <2> QED BY <2>4 DEF n
<1>3. /\ q \in Seq(Samples)
      /\ Len(q) = Len(sample_queue) + 1
      /\ Len(q) \in 1..6
      /\ q[Len(q)] = s
      /\ \A i \in 1..Len(sample_queue) : q[i] = sample_queue[i]
  <2>1. /\ q \in Seq(Samples)
        /\ Len(q) = Len(sample_queue) + 1
        /\ \A i \in 1..Len(sample_queue) : q[i] = sample_queue[i]
        /\ q[Len(sample_queue) + 1] = s
    BY <1>1, AppendProperties
  <2> HIDE DEF q
  <2> QED BY <2>1, <1>2
<1>4. ASSUME NEW i \in 1..Len(sample_queue)
      PROVE  /\ q[i].major <=> i \in {1, 6}
             /\ IF i \in {1, 6} THEN HasPayloads(q[i]) ELSE q[i].io = Nullopt
  BY <1>2, <1>3 DEF QueueShape
<1>5. /\ q[Len(q)].major <=> Len(q) \in {1, 6}
      /\ IF Len(q) \in {1, 6} THEN HasPayloads(q[Len(q)])
                              ELSE q[Len(q)].io = Nullopt
  <2>1. s.major <=> Len(q) \in {1, 6}
    <3>1. Len(sample_queue) \in {0, 5} <=> Len(q) \in {1, 6}
      <4> DEFINE n == Len(sample_queue)
                 m == Len(q)
      <4>1. n \in 0..5 /\ m = n + 1
        BY <1>2, <1>3
      <4> HIDE DEF n, m
      <4>2. n \in {0, 5} <=> m \in {1, 6}
        BY <4>1
      <4> QED BY <4>2 DEF n, m
    <3> QED BY <3>1 DEF Pushable
  <2>2. IF s.major THEN HasPayloads(s) ELSE s.io = Nullopt
    BY DEF Pushable
  <2> QED BY <1>3, <2>1, <2>2
<1>6. \A i \in 1..Len(q) : i \in 1..Len(sample_queue) \/ i = Len(q)
  BY <1>2, <1>3
<1> HIDE DEF q
<1>7. \A i \in 1..Len(q) :
         /\ q[i].major <=> i \in {1, 6}
         /\ IF i \in {1, 6} THEN HasPayloads(q[i]) ELSE q[i].io = Nullopt
  BY <1>4, <1>5, <1>6
<1> QED BY <1>3, <1>7 DEF q

\* Push keeps the invariant.
LEMMA PushKeepsIInv ==
    ASSUME IInv, NEW s, Pushable(s), Push(s), UNCHANGED kernel,
           origin' \in [Devices -> Nat]
    PROVE  IInv'
<1> DEFINE q == Append(sample_queue, s)
           diff == SampleDiff(q)
<1>1. TypeOK /\ QueueShape
  BY DEF IInv
<1>2. /\ q \in Seq(Samples)
      /\ Len(q) = Len(sample_queue) + 1
      /\ Len(q) \in 1..6
      /\ q[Len(q)] = s
      /\ \A i \in 1..Len(q) :
            /\ q[i].major <=> i \in {1, 6}
            /\ IF i \in {1, 6} THEN HasPayloads(q[i]) ELSE q[i].io = Nullopt
  BY <1>1, PushedQueue
<1>3. /\ pc' = "sleep" /\ building' = Nullopt /\ taken' = taken + 1
      /\ whole' = IF Len(q) = 6 /\ diff.kind # "full" THEN {}
                  ELSE IF s.io = Nullopt THEN whole
                  ELSE {d \in whole \cap Listed(s.io) : s.io[d] > 0}
  BY DEF Push
<1>4. whole' \in SUBSET Devices /\ taken' \in Nat
  BY <1>1, <1>3 DEF TypeOK
<1>5. /\ now' \in Nat /\ back_steps' \in Nat
      /\ attached' \in SUBSET Devices
      /\ counter' \in [Devices -> Nat] /\ issued' \in [Devices -> Nat]
  BY <1>1 DEF TypeOK, kernel
<1>6. CASE Len(q) = 6
  <2>1. /\ report' = [diff |-> diff, quiet |-> q[1].epoch = back_steps]
        /\ reports' = reports + 1
        /\ reported' = [d \in Devices |-> reported[d] +
               IF d \in Listed(diff.counters) THEN diff.counters[d] ELSE 0]
        /\ sample_queue' = SubSeq(q, 6, 6)
        /\ pop_times' = IF pop_times + 1 > ShrinkAfter
                        THEN 0 ELSE pop_times + 1
    BY <1>6 DEF Push, KeepNewest
  <2>2. diff \in Diffs /\ diff.kind # "undefined"
    <3>1. \A i \in 1..6 : q[i].major => HasPayloads(q[i])
      BY <1>2, <1>6
    <3> HIDE DEF q
    <3> QED BY <1>2, <1>6, <3>1, SampleDiffType
  <2>3. report' \in [diff : Diffs, quiet : BOOLEAN]
    BY <2>1, <2>2
  <2>4. reported' \in [Devices -> Nat]
    <3>1. diff.counters \in [Devices -> Nat \cup {Nullopt}]
      BY <2>2 DEF Diffs, CounterMaps
    <3>2. ASSUME NEW d \in Devices
          PROVE  reported[d] + (IF d \in Listed(diff.counters)
                                THEN diff.counters[d] ELSE 0) \in Nat
      <4>1. reported[d] \in Nat
        BY <1>1 DEF TypeOK
      <4>2. d \in Listed(diff.counters) => diff.counters[d] \in Nat
        BY <3>1 DEF Listed
      <4> HIDE DEF diff
      <4> QED BY <4>1, <4>2
    <3> HIDE DEF diff
    <3> QED BY <2>1, <3>2
  <2>5. sample_queue' \in Seq(Samples) /\ sample_queue' = <<s>>
    <3> HIDE DEF q
    <3> QED BY <1>2, <1>6, <2>1, KeepNewestIsLast DEF KeepNewest
  <2>6. pop_times' \in 0..ShrinkAfter
    BY <1>1, <2>1, SamplerAssumption DEF TypeOK
  <2>7. TypeOK'
    <3>1. reports' \in Nat
      BY <1>1, <2>1 DEF TypeOK
    <3> QED BY <1>3, <1>4, <1>5, <2>3, <2>4, <2>5, <2>6, <3>1 DEF TypeOK
  <2>8. QueueShape'
    <3>1. s.major /\ HasPayloads(s)
      BY <1>2, <1>6
    <3>2. Len(sample_queue') = 1 /\ sample_queue'[1] = s
      BY <2>5
    <3> QED BY <1>3, <3>1, <3>2 DEF QueueShape, HasPayloads
  <2>9. NoUndefinedDiff'
    BY <2>1, <2>2 DEF NoUndefinedDiff
  <2> QED BY <2>7, <2>8, <2>9 DEF IInv
<1>7. CASE Len(q) # 6
  <2>1. /\ sample_queue' = q
        /\ UNCHANGED <<report, reports, reported, pop_times>>
    BY <1>7 DEF Push
  <2>2. TypeOK'
    BY <1>1, <1>2, <1>3, <1>4, <1>5, <2>1 DEF TypeOK
  <2>3. QueueShape'
    <3> HIDE DEF q
    <3>1. Len(q) \in 1..5 /\ q # <<>>
      BY <1>2, <1>7
    <3> QED BY <1>2, <1>3, <2>1, <3>1 DEF QueueShape, HasPayloads
  <2>4. NoUndefinedDiff'
    BY <2>1 DEF NoUndefinedDiff, IInv
  <2> QED BY <2>2, <2>3, <2>4 DEF IInv
<1> QED BY <1>6, <1>7

\* A sample goes into the queue with the payloads its kind has.
LEMMA PushedSample ==
    ASSUME IInv, ReadCounters \/ SkipReaders
    PROVE  /\ UNCHANGED kernel /\ origin' \in [Devices -> Nat]
           /\ origin' = IF taken = 0 /\ pc = "counters" THEN issued ELSE origin
           /\ \E s : /\ Pushable(s) /\ Push(s)
                     /\ s.time = building.time /\ s.epoch = building.epoch
                     /\ pc = "stamped" => ~s.major
                     /\ pc = "counters" =>
                           /\ s.major
                           /\ s.io_report = building.io_report
                           /\ s.issued = issued
                           /\ Listed(s.io) \subseteq attached
                           /\ \A d \in Listed(s.io) : s.io[d] = counter[d]
<1>1. TypeOK /\ QueueShape
  BY DEF IInv
<1>2. CASE ReadCounters
  <2>1. PICK s : /\ Push(s)
                 /\ \E seen \in SUBSET attached :
                       s = [building EXCEPT
                              !.io = [d \in Devices |->
                                         IF d \in seen THEN counter[d]
                                                       ELSE Nullopt],
                              !.issued = issued]
    BY <1>2 DEF ReadCounters
  <2>2. pc = "counters" /\ UNCHANGED kernel
    BY <1>2 DEF ReadCounters
  <2>3. /\ building \in Samples /\ building.major
        /\ building.io_report # Nullopt
        /\ building.major <=> Len(sample_queue) \in {0, 5}
    BY <1>1, <2>2 DEF TypeOK, QueueShape
  <2>4. PICK seen \in SUBSET attached :
           s = [building EXCEPT
                  !.io = [d \in Devices |-> IF d \in seen THEN counter[d]
                                                          ELSE Nullopt],
                  !.issued = issued]
    BY <2>1
  <2>5. [d \in Devices |-> IF d \in seen THEN counter[d] ELSE Nullopt]
            \in CounterMaps
    BY <1>1 DEF CounterMaps, TypeOK
  <2>6. /\ s \in Samples /\ s.io # Nullopt /\ s.issued = issued
        /\ s.major = building.major /\ s.io_report = building.io_report
        /\ s.time = building.time /\ s.epoch = building.epoch
        /\ s.io = [d \in Devices |-> IF d \in seen THEN counter[d]
                                                   ELSE Nullopt]
    BY <1>1, <2>3, <2>4, <2>5, NulloptAssumption DEF Samples, TypeOK
  <2>7. Pushable(s)
    BY <2>3, <2>6 DEF Pushable, HasPayloads
  <2>8. /\ Listed(s.io) \subseteq attached
        /\ \A d \in Listed(s.io) : s.io[d] = counter[d]
    BY <2>6 DEF Listed
  <2>9. /\ origin' \in [Devices -> Nat]
        /\ origin' = IF taken = 0 /\ pc = "counters" THEN issued ELSE origin
    BY <1>1, <1>2 DEF ReadCounters, TypeOK
  <2> QED BY <2>1, <2>2, <2>3, <2>6, <2>7, <2>8, <2>9
<1>3. CASE SkipReaders
  <2>1. PICK s : s = building
    OBVIOUS
  <2>2. pc = "stamped" /\ ~s.major /\ Push(s) /\ UNCHANGED kernel
    BY <1>3, <2>1 DEF SkipReaders
  <2>3. Pushable(s)
    BY <1>1, <2>1, <2>2 DEF Pushable, TypeOK, QueueShape
  <2>4. /\ origin' \in [Devices -> Nat]
        /\ origin' = IF taken = 0 /\ pc = "counters" THEN issued ELSE origin
    BY <1>1, <1>3 DEF SkipReaders, TypeOK
  <2> QED BY <2>1, <2>2, <2>3, <2>4
<1> QED BY <1>2, <1>3

LEMMA InitIInv == Init => IInv
<1> SUFFICES ASSUME Init PROVE IInv
  OBVIOUS
<1>1. /\ now \in Nat /\ back_steps \in Nat /\ attached \in SUBSET Devices
      /\ counter \in [Devices -> Nat]
      /\ pop_times \in 0..ShrinkAfter
  <2>1. StartTime \in Nat /\ ShrinkAfter \in Nat /\ BootIo \subseteq Nat
    BY SamplerAssumption
  <2>2. counter \in [Devices -> BootIo] => counter \in [Devices -> Nat]
    BY <2>1
  <2> QED BY <2>1, <2>2 DEF Init
<1>2. NoIo \in [Devices -> Nat]
  BY DEF NoIo
<1>3. sample_queue \in Seq(Samples) /\ Len(sample_queue) = 0
  BY DEF Init
<1>4. TypeOK
  BY <1>1, <1>2, <1>3 DEF Init, TypeOK
<1>5. QueueShape
  BY <1>3 DEF Init, QueueShape
<1>6. NoUndefinedDiff
  BY DEF Init, NoUndefinedDiff
<1> QED BY <1>4, <1>5, <1>6 DEF IInv

\* The kernel never touches what the sampler holds.
LEMMA KernelKeepsIInv == IInv /\ Kernel => IInv'
<1> SUFFICES ASSUME IInv, Kernel PROVE IInv'
  OBVIOUS
<1>1. TypeOK
  BY DEF IInv
<1>2. /\ UNCHANGED <<pc, building, sample_queue, pop_times, report, taken,
                     reports, reported, origin>>
  BY DEF Kernel, StepClockBack, DoIo, Detach, Attach, kernelOnly
<1>3. /\ now' \in Nat /\ back_steps' \in Nat /\ attached' \in SUBSET Devices
      /\ counter' \in [Devices -> Nat] /\ issued' \in [Devices -> Nat]
      /\ whole' \in SUBSET Devices
  <2>1. CASE StepClockBack
    BY <1>1, <2>1 DEF StepClockBack, TypeOK
  <2>2. CASE \E d \in Devices : DoIo(d) \/ Detach(d) \/ Attach(d)
    <3>1. PICK d \in Devices : DoIo(d) \/ Detach(d) \/ Attach(d)
      BY <2>2
    <3>2. CASE DoIo(d)
      BY <1>1, <3>2 DEF DoIo, TypeOK
    <3>3. CASE Detach(d)
      BY <1>1, <3>3 DEF Detach, TypeOK
    <3>4. CASE Attach(d)
      BY <1>1, <3>4 DEF Attach, TypeOK
    <3> QED BY <3>1, <3>2, <3>3, <3>4
  <2> QED BY <2>1, <2>2 DEF Kernel
<1>4. TypeOK'
  BY <1>1, <1>2, <1>3 DEF TypeOK
<1>5. QueueShape' /\ NoUndefinedDiff'
  BY <1>2 DEF IInv, QueueShape, NoUndefinedDiff
<1> QED BY <1>4, <1>5 DEF IInv

LEMMA StepIInv == IInv /\ [Next]_vars => IInv'
<1> SUFFICES ASSUME IInv, [Next]_vars PROVE IInv'
  OBVIOUS
<1>1. TypeOK /\ QueueShape /\ NoUndefinedDiff
  BY DEF IInv
<1>2. CASE Kernel
  BY <1>2, KernelKeepsIInv
<1>3. CASE BeginSample
  <2>1. /\ building' = [time |-> now, major |-> IsMajor(sample_queue),
                        io_report |-> Nullopt, io |-> Nullopt,
                        epoch |-> back_steps, issued |-> issued]
        /\ pc' = "stamped"
        /\ UNCHANGED <<kernel, sample_queue, pop_times, report, history>>
    BY <1>3 DEF BeginSample
  <2>2. IsMajor(sample_queue) <=> Len(sample_queue) \in {0, 5}
    <3> DEFINE n == Len(sample_queue)
    <3>1. n \in Nat
      BY <1>1 DEF TypeOK
    <3>2. n <= 5
      BY <1>1, Zenon DEF QueueShape
    <3> HIDE DEF n
    <3>3. n % 5 = 0 <=> n \in {0, 5}
      BY <3>1, <3>2
    <3> QED BY <3>3 DEF IsMajor, n
  <2>3. building' \in Samples /\ building' # Nullopt
    <3>1. IsMajor(sample_queue) \in BOOLEAN
      BY DEF IsMajor
    <3>2. building' \in Samples
      BY <1>1, <2>1, <3>1 DEF TypeOK, Samples
    <3> QED BY <3>2, NulloptAssumption
  <2>4. TypeOK'
    BY <1>1, <2>1, <2>3 DEF TypeOK, kernel, history
  <2>5. QueueShape'
    BY <1>1, <2>1, <2>2, <2>3 DEF QueueShape
  <2>6. NoUndefinedDiff'
    BY <1>1, <2>1 DEF NoUndefinedDiff
  <2> QED BY <2>4, <2>5, <2>6 DEF IInv
<1>4. CASE ReadIoReport
  <2>1. PICK late \in 0..MaxLate, ref \in BOOLEAN :
           /\ now' = now + late
           /\ building' = [building EXCEPT
                  !.io_report = [time |-> now + late, ref |-> ref]]
    BY <1>4 DEF ReadIoReport
  <2>2. /\ pc = "stamped" /\ building.major /\ pc' = "counters"
        /\ UNCHANGED <<back_steps, attached, counter, issued, sample_queue,
                       pop_times, report, history>>
    BY <1>4 DEF ReadIoReport
  <2>3. building \in Samples
    BY <1>1, <2>2 DEF TypeOK, QueueShape
  <2>4. now' \in Nat
    BY <1>1, <2>1, SamplerAssumption, SMTT(30) DEF TypeOK
  <2>5. [time |-> now + late, ref |-> ref] \in IoReportSamples
    BY <2>1, <2>4 DEF IoReportSamples
  <2>6. /\ building' \in Samples
        /\ building'.major = building.major /\ building'.io = building.io
        /\ building'.io_report # Nullopt
    BY <2>1, <2>3, <2>5, NulloptAssumption DEF Samples
  <2>7. building' # Nullopt
    BY <2>6, NulloptAssumption
  <2>8. TypeOK'
    BY <1>1, <2>2, <2>4, <2>6 DEF TypeOK, history
  <2>9. QueueShape'
    BY <1>1, <2>2, <2>6, <2>7 DEF QueueShape
  <2>10. NoUndefinedDiff'
    BY <1>1, <2>2 DEF NoUndefinedDiff
  <2> QED BY <2>8, <2>9, <2>10 DEF IInv
<1>5. CASE ReadCounters \/ SkipReaders
  BY <1>5, PushedSample, PushKeepsIInv
<1>6. CASE Sleep
  <2>1. /\ pc' = "ready" /\ report' = Nullopt
        /\ UNCHANGED <<back_steps, attached, counter, issued, building,
                       sample_queue, pop_times, history>>
    BY <1>6 DEF Sleep
  <2>2. now' \in Nat
    <3>1. PICK late \in 0..MaxLate : now' = now + UnitsPerSecond + late
      BY <1>6 DEF Sleep
    <3> QED BY <1>1, <3>1, SamplerAssumption DEF TypeOK
  <2>3. TypeOK'
    BY <1>1, <2>1, <2>2 DEF TypeOK, history
  <2>4. QueueShape'
    BY <1>1, <2>1 DEF QueueShape
  <2>5. NoUndefinedDiff'
    BY <2>1 DEF NoUndefinedDiff
  <2> QED BY <2>3, <2>4, <2>5 DEF IInv
<1>7. CASE UNCHANGED vars
  BY <1>1, <1>7 DEF IInv, TypeOK, QueueShape, NoUndefinedDiff, vars, kernel, history
<1> QED BY <1>2, <1>3, <1>4, <1>5, <1>6, <1>7 DEF Next

THEOREM Invariance == Spec => []IInv
BY InitIInv, StepIInv, PTL DEF Spec

\* Every variable keeps its type: what the reports add up to never becomes
\* negative, whatever devices and counters do.
THEOREM TypeCorrectness == Spec => []TypeOK
BY Invariance, PTL DEF IInv

\* Between two calls of sampler::sample the queue holds at most one window's
\* worth of samples, majors and their payloads in the places sample_diff needs.
THEOREM QueueShapeIsKept == Spec => []QueueShape
BY Invariance, PTL DEF IInv

\* sample_diff never dereferences an empty optional, however often and however
\* far the clock is set back.
THEOREM DiffsAreDefined == Spec => []NoUndefinedDiff
BY Invariance, PTL DEF IInv

-----------------------------------------------------------------------------
(***************************************************************************)
(* Cadence.  The queue's size is what taken samples leave after reports.   *)
(***************************************************************************)

CadenceInv == taken = 5 * reports + Len(sample_queue)

\* Push is a step of the abstract cadence, and keeps the count of the queue.
LEMMA PushCadence ==
    ASSUME IInv, CadenceInv, NEW s, Pushable(s), Push(s)
    PROVE  CadenceInv' /\ Cadence!Sample
<1> DEFINE q == Append(sample_queue, s)
           n == Len(sample_queue)
           m == Len(q)
<1>1. TypeOK /\ QueueShape
  BY DEF IInv
<1>2. q \in Seq(Samples) /\ m = n + 1 /\ m \in 1..6
  BY <1>1, PushedQueue
<1>3. n \in Nat /\ taken \in Nat /\ reports \in Nat
  BY <1>1 DEF TypeOK
<1>4. taken = 5 * reports + n
  BY DEF CadenceInv
<1>5. taken' = taken + 1
  BY DEF Push
<1>6. CASE m = 6
  <2>1. sample_queue' = KeepNewest(q) /\ reports' = reports + 1
    BY <1>6 DEF Push
  <2>2. Len(sample_queue') = 1
    <3> HIDE DEF q
    <3>1. KeepNewest(q) = <<q[6]>>
      BY <1>2, <1>6, KeepNewestIsLast
    <3> QED BY <2>1, <3>1
  <2> HIDE DEF m, n
  <2>3. taken + 1 = 5 * reports + 6
    BY <1>2, <1>3, <1>4, <1>6
  <2>4. CadenceInv'
    BY <1>3, <1>5, <2>1, <2>2, <2>3 DEF CadenceInv
  <2> QED BY <1>5, <2>1, <2>3, <2>4 DEF Cadence!Sample, Cadence!Due
<1>7. CASE m # 6
  <2>1. sample_queue' = q /\ reports' = reports
    BY <1>7 DEF Push
  <2>2. Len(sample_queue') = m
    BY <2>1
  <2> HIDE DEF m, n
  <2>3. taken + 1 # 5 * reports + 6
    BY <1>2, <1>3, <1>4, <1>7
  <2>4. CadenceInv'
    BY <1>2, <1>3, <1>4, <1>5, <2>1, <2>2 DEF CadenceInv
  <2> QED BY <1>5, <2>1, <2>3, <2>4 DEF Cadence!Sample, Cadence!Due
<1> QED BY <1>6, <1>7

\* Every other step leaves the queue and what the reports say alone.
LEMMA OtherSteps ==
    ASSUME [Next]_vars, ~ReadCounters, ~SkipReaders
    PROVE  UNCHANGED <<sample_queue, taken, reports, reported>>
BY DEF Next, Kernel, StepClockBack, DoIo, Detach, Attach, kernelOnly,
       BeginSample, ReadIoReport, Sleep, vars, history

LEMMA CadenceStep ==
    ASSUME IInv, CadenceInv, [Next]_vars
    PROVE  CadenceInv' /\ [Cadence!Sample]_Cadence!cadence
<1>1. CASE ReadCounters \/ SkipReaders
  BY <1>1, PushedSample, PushCadence
<1>2. CASE ~ReadCounters /\ ~SkipReaders
  BY <1>2, OtherSteps DEF CadenceInv, Cadence!cadence
<1> QED BY <1>1, <1>2

\* The sampler reports with the 6th sample and every 5th after it: sampler
\* implements ReportCadence.
THEOREM SamplerImplementsCadence == Spec => CadenceSpec
<1>1. Init => CadenceInv /\ Cadence!Init
  BY DEF Init, CadenceInv, Cadence!Init
<1>2. IInv /\ CadenceInv /\ [Next]_vars => CadenceInv' /\ [Cadence!Sample]_Cadence!cadence
  BY CadenceStep
<1> QED BY <1>1, <1>2, Invariance, PTL DEF Spec, CadenceSpec, Cadence!Spec

-----------------------------------------------------------------------------
(***************************************************************************)
(* Counting.  Relative to the last boundary sample a kernel counter may    *)
(* fall behind what was issued, when its device restarts, but never get    *)
(* ahead of it; so no window's difference exceeds what the window saw.     *)
(***************************************************************************)

CountInv ==
    /\ NoDoubleCount
    /\ sample_queue # <<>> =>
          \A d \in Devices :
             /\ sample_queue[1].issued[d] <= issued[d]
             /\ d \in Listed(sample_queue[1].io) =>
                   counter[d] - sample_queue[1].io[d]
                      <= issued[d] - sample_queue[1].issued[d]

\* The first sample of the queue is a major one.
LEMMA Front ==
    ASSUME TypeOK, QueueShape, sample_queue # <<>>
    PROVE  /\ 1 \in 1..Len(sample_queue)
           /\ sample_queue[1] \in Samples /\ HasPayloads(sample_queue[1])
<1>1. sample_queue \in Seq(Samples)
  BY DEF TypeOK
<1>2. 1 \in 1..Len(sample_queue)
  BY <1>1, EmptySeq
<1>3. sample_queue[1] \in Samples
  BY <1>1, <1>2
<1>4. HasPayloads(sample_queue[1])
  BY <1>2, Zenon DEF QueueShape
<1> QED BY <1>2, <1>3, <1>4

\* What a diff of the queue's window counts: nothing, or the differences
\* between its first and its sixth sample.
LEMMA WindowCounters ==
    ASSUME NEW q \in Seq(Samples), Len(q) = 6,
           \A i \in 1..6 : q[i].major <=> i \in {1, 6},
           HasPayloads(q[1]), HasPayloads(q[6])
    PROVE  IF SampleDiff(q).kind = "full"
           THEN SampleDiff(q).counters = CounterDiff(q[1].io, q[6].io)
           ELSE Listed(SampleDiff(q).counters) = {}
<1>1. CASE Comparable(q)
  <2>1. LastIndex(q) = 6
    <3>1. LastIndex(q) \in 1..6
      BY ScanLast
    <3>2. LastIndex(q) # 1 /\ q[LastIndex(q)].major
      BY <1>1 DEF Comparable
    <3> QED BY <3>1, <3>2
  <2>2. SampleDiff(q) = FullDiff(q, q[1], q[6])
    BY <1>1, <2>1 DEF SampleDiff
  <2> QED BY <2>2 DEF FullDiff
<1>2. CASE ~Comparable(q)
  BY <1>2 DEF SampleDiff, EmptyDiff, Listed
<1> QED BY <1>1, <1>2

LEMMA WindowCounts ==
    ASSUME NEW q \in Seq(Samples), Len(q) = 6,
           \A i \in 1..6 : q[i].major <=> i \in {1, 6},
           HasPayloads(q[1]), HasPayloads(q[6]),
           NEW d \in Listed(SampleDiff(q).counters)
    PROVE  /\ d \in Listed(q[1].io) /\ d \in Listed(q[6].io)
           /\ SampleDiff(q).counters[d] = CounterDelta(q[1].io[d], q[6].io[d])
<1>1. SampleDiff(q).counters = CounterDiff(q[1].io, q[6].io)
  BY WindowCounters
<1> QED BY <1>1 DEF CounterDiff, Listed

\* A window adds no more than what was issued between its boundary samples.
LEMMA PushCounts ==
    ASSUME IInv, CountInv, NEW s, Pushable(s), Push(s), UNCHANGED kernel,
           s.major => /\ s.issued = issued
                      /\ \A d \in Listed(s.io) : s.io[d] = counter[d]
    PROVE  CountInv'
<1> DEFINE q == Append(sample_queue, s)
           diff == SampleDiff(q)
<1>1. TypeOK /\ QueueShape
  BY DEF IInv
<1>2. /\ q \in Seq(Samples)
      /\ Len(q) = Len(sample_queue) + 1
      /\ Len(q) \in 1..6
      /\ q[Len(q)] = s
      /\ \A i \in 1..Len(sample_queue) : q[i] = sample_queue[i]
      /\ \A i \in 1..Len(q) :
            /\ q[i].major <=> i \in {1, 6}
            /\ IF i \in {1, 6} THEN HasPayloads(q[i]) ELSE q[i].io = Nullopt
  BY <1>1, PushedQueue
<1>3. \A d \in Devices : /\ issued[d] \in Nat /\ counter[d] \in Nat
                         /\ reported[d] \in Nat
  BY <1>1 DEF TypeOK
<1>4. issued' = issued /\ counter' = counter
  BY DEF kernel
<1>5. CASE Len(q) = 6
  <2>1. /\ reported' = [d \in Devices |-> reported[d] +
               IF d \in Listed(diff.counters) THEN diff.counters[d] ELSE 0]
        /\ sample_queue' = KeepNewest(q)
    BY <1>5 DEF Push
  <2>2. sample_queue' = <<s>>
    <3> HIDE DEF q
    <3> QED BY <1>2, <1>5, <2>1, KeepNewestIsLast
  <2>3. s.major /\ s \in Samples
    BY <1>2, <1>5 DEF Pushable
  <2>4. /\ sample_queue # <<>> /\ q[1] = sample_queue[1]
        /\ HasPayloads(q[1]) /\ HasPayloads(s) /\ q[6] = s
    <3>1. Len(sample_queue) = 5
      <4> DEFINE n == Len(sample_queue)
      <4>1. n \in Nat /\ n + 1 = 6
        BY <1>1, <1>2, <1>5 DEF TypeOK
      <4> HIDE DEF n
      <4>2. n = 5
        BY <4>1
      <4> QED BY <4>2 DEF n
    <3> QED BY <1>2, <1>5, <3>1
  <2>5. ASSUME NEW d \in Devices
        PROVE  reported'[d] <= issued[d]
    <3> DEFINE front == sample_queue[1]
    <3>1. /\ reported[d] <= front.issued[d] /\ front.issued[d] <= issued[d]
          /\ d \in Listed(front.io) =>
                counter[d] - front.io[d] <= issued[d] - front.issued[d]
      BY <2>4 DEF CountInv, NoDoubleCount
    <3>2. front \in Samples
      BY <1>2, <1>5, <2>4, SampleFields
    <3>3. front.issued[d] \in Nat
      BY <3>2 DEF Samples
    <3>4. CASE d \in Listed(diff.counters)
      <4>1. /\ d \in Listed(front.io) /\ d \in Listed(s.io)
            /\ diff.counters[d] = CounterDelta(front.io[d], s.io[d])
        <5> HIDE DEF q
        <5> QED BY <1>2, <1>5, <2>4, <3>4, WindowCounts
      <4>2. front.io[d] \in Nat /\ s.io[d] = counter[d]
        <5>1. front.io \in CounterMaps
          BY <2>4, <3>2 DEF Samples, HasPayloads
        <5>2. front.io[d] \in Nat
          BY <4>1, <5>1 DEF CounterMaps, Listed
        <5> QED BY <2>3, <4>1, <5>2
      <4>3. reported'[d] = reported[d] + CounterDelta(front.io[d], counter[d])
        BY <2>1, <3>4, <4>1, <4>2
      <4> HIDE DEF front
      <4> QED BY <1>3, <3>1, <3>3, <4>1, <4>2, <4>3, CounterDeltaType
    <3>5. CASE d \notin Listed(diff.counters)
      <4>1. reported'[d] = reported[d] + 0
        BY <2>1, <3>5
      <4> HIDE DEF front
      <4> QED BY <1>3, <3>1, <3>3, <4>1
    <3> QED BY <3>4, <3>5
  <2>6. ASSUME NEW d \in Devices
        PROVE  /\ s.issued[d] = issued[d]
               /\ d \in Listed(s.io) => s.io[d] = counter[d]
    BY <2>3
  <2>7. sample_queue' # <<>> /\ sample_queue'[1] = s
    BY <2>2
  <2>8. NoDoubleCount'
    BY <2>5, <2>6, <2>7 DEF NoDoubleCount
  <2> QED BY <1>3, <1>4, <2>6, <2>7, <2>8 DEF CountInv
<1>6. CASE Len(q) # 6
  <2>1. sample_queue' = q /\ reported' = reported
    BY <1>6 DEF Push
  <2>2. CASE sample_queue = <<>>
    <3>1. sample_queue' # <<>> /\ sample_queue'[1] = s
      BY <2>1, <2>2
    <3>2. s.major /\ s \in Samples
      BY <2>2 DEF Pushable
    <3>3. \A d \in Devices : /\ s.issued[d] = issued[d]
                             /\ d \in Listed(s.io) => s.io[d] = counter[d]
      BY <3>2
    <3>4. \A d \in Devices : reported[d] <= 0
      BY <2>2 DEF CountInv, NoDoubleCount
    <3>5. \A d \in Devices : reported'[d] <= s.issued[d]
      BY <1>3, <2>1, <3>3, <3>4
    <3> QED BY <1>3, <1>4, <3>1, <3>3, <3>5 DEF CountInv, NoDoubleCount
  <2>3. CASE sample_queue # <<>>
    <3>1. sample_queue' # <<>> /\ sample_queue'[1] = sample_queue[1]
      <4>1. 1 \in 1..Len(sample_queue)
        BY <1>1, <2>3, Front
      <4>2. q # <<>>
        BY <1>2
      <4> QED BY <1>2, <2>1, <4>1, <4>2
    <3> QED BY <1>4, <2>1, <2>3, <3>1 DEF CountInv, NoDoubleCount
  <2> QED BY <2>2, <2>3
<1> QED BY <1>5, <1>6

\* Between two samples counters and what was issued move together, or the
\* counter starts over.
LEMMA OtherCounts ==
    ASSUME IInv, CountInv, [Next]_vars, ~ReadCounters, ~SkipReaders
    PROVE  CountInv'
<1>1. UNCHANGED <<sample_queue, taken, reports, reported>>
  BY OtherSteps
<1>2. CASE sample_queue = <<>>
  BY <1>1, <1>2 DEF CountInv, NoDoubleCount
<1>3. CASE sample_queue # <<>>
  <2> DEFINE front == sample_queue[1]
  <2>1. TypeOK /\ QueueShape
    BY DEF IInv
  <2>2. front \in Samples /\ HasPayloads(front)
    BY <1>3, <2>1, Front
  <2>3. ASSUME NEW d \in Devices
        PROVE  /\ front.issued[d] <= issued'[d]
               /\ d \in Listed(front.io) =>
                     counter'[d] - front.io[d] <= issued'[d] - front.issued[d]
    <3>1. /\ issued[d] \in Nat /\ counter[d] \in Nat
          /\ front.issued[d] \in Nat
          /\ d \in Listed(front.io) => front.io[d] \in Nat
      BY <2>1, <2>2 DEF TypeOK, Samples, HasPayloads, CounterMaps, Listed
    <3>2. /\ front.issued[d] <= issued[d]
          /\ d \in Listed(front.io) =>
                counter[d] - front.io[d] <= issued[d] - front.issued[d]
      BY <1>3 DEF CountInv
    <3>3. \/ issued'[d] = issued[d] /\ counter'[d] \in {counter[d], 0}
          \/ issued'[d] = issued[d] + 1 /\ counter'[d] = counter[d] + 1
      <4>1. CASE UNCHANGED <<issued, counter>>
        BY <4>1
      <4>2. CASE \E e \in Devices : DoIo(e)
        BY <2>1, <4>2 DEF DoIo, TypeOK
      <4>3. CASE \E e \in Devices : Attach(e)
        BY <2>1, <4>3 DEF Attach, TypeOK
      <4> QED BY <4>1, <4>2, <4>3 DEF Next, Kernel, StepClockBack, Detach,
                 BeginSample, ReadIoReport, Sleep, vars, kernel
    <3> HIDE DEF front
    <3> QED BY <3>1, <3>2, <3>3
  <2> QED BY <1>1, <1>3, <2>3 DEF CountInv, NoDoubleCount
<1> QED BY <1>2, <1>3

LEMMA CountStep ==
    ASSUME IInv, CountInv, [Next]_vars
    PROVE  CountInv'
<1>1. CASE ReadCounters \/ SkipReaders
  <2>1. pc = "stamped" \/ pc = "counters"
    BY <1>1 DEF ReadCounters, SkipReaders
  <2> QED BY <1>1, <2>1, PushedSample, PushCounts
<1> QED BY <1>1, OtherCounts

\* No operation is reported twice, nor before the boundary sample that covers
\* it, for any number of devices that restart and readings that fail.
THEOREM ReportsCountOnce == Spec => []NoDoubleCount
<1>1. Init => CountInv
  BY DEF Init, CountInv, NoDoubleCount, NoIo
<1>2. IInv /\ CountInv /\ [Next]_vars => CountInv'
  BY CountStep
<1>3. CountInv => NoDoubleCount
  BY DEF CountInv
<1> QED BY <1>1, <1>2, <1>3, Invariance, PTL DEF Spec

-----------------------------------------------------------------------------
(***************************************************************************)
(* The diff of a window whose samples are a second or more apart.          *)
(***************************************************************************)

Paced(q) == \A i \in 1..5 : q[i].time + UnitsPerSecond <= q[i + 1].time

\* Five seconds of ticks are five seconds when truncated.
LEMMA WholeSeconds ==
    ASSUME NEW x \in Int, x >= 5 * UnitsPerSecond
    PROVE  x \div UnitsPerSecond >= 5
<1> DEFINE u == UnitsPerSecond
<1>1. u \in Nat /\ u > 0
  BY SamplerAssumption
<1>2. x \in Int /\ x >= 5 * u
  OBVIOUS
<1> HIDE DEF u
<1>3. x \div u >= 5
  BY <1>1, <1>2, Z3
<1> QED BY <1>3 DEF u

\* Six times a step or more apart.
LEMMA SixSteps ==
    ASSUME NEW t \in [1..6 -> Nat], NEW u \in Nat, u > 0,
           t[1] + u <= t[2], t[2] + u <= t[3], t[3] + u <= t[4],
           t[4] + u <= t[5], t[5] + u <= t[6]
    PROVE  /\ t[1] < t[2] /\ t[2] < t[3] /\ t[3] < t[4]
           /\ t[4] < t[5] /\ t[5] < t[6]
           /\ t[2] + 4 * u <= t[6]
<1>1. /\ t[1] \in Nat /\ t[2] \in Nat /\ t[3] \in Nat
      /\ t[4] \in Nat /\ t[5] \in Nat /\ t[6] \in Nat
  OBVIOUS
<1> QED BY <1>1

LEMMA Increasing ==
    ASSUME NEW t \in [1..6 -> Nat],
           t[1] < t[2], t[2] < t[3], t[3] < t[4], t[4] < t[5], t[5] < t[6],
           NEW i \in 1..6, NEW j \in 1..(i - 1)
    PROVE  t[j] < t[i]
<1>1. /\ t[1] \in Nat /\ t[2] \in Nat /\ t[3] \in Nat
      /\ t[4] \in Nat /\ t[5] \in Nat /\ t[6] \in Nat
  OBVIOUS
<1>2. CASE i = 2
  BY <1>1, <1>2
<1>3. CASE i = 3
  BY <1>1, <1>3
<1>4. CASE i = 4
  BY <1>1, <1>4
<1>5. CASE i = 5
  BY <1>1, <1>5
<1>6. CASE i = 6
  BY <1>1, <1>6
<1> QED BY <1>2, <1>3, <1>4, <1>5, <1>6

\* In such a window every sample is later than all before it.
LEMMA PacedScan ==
    ASSUME NEW q \in Seq(Samples), Len(q) = 6, Paced(q)
    PROVE  /\ \A i \in 1..6 : Later(q, i)
           /\ LastIndex(q) = 6
           /\ SampleNum(q) = 6
           /\ q[2].time + 4 * UnitsPerSecond <= q[6].time
<1> DEFINE t == [i \in 1..6 |-> q[i].time]
           u == UnitsPerSecond
<1>1. u \in Nat /\ u > 0
  BY SamplerAssumption
<1>2. t \in [1..6 -> Nat]
  BY SampleFields
<1>3. \A i \in 1..5 : t[i] + u <= t[i + 1]
  BY DEF Paced
<1>4. /\ t[1] < t[2] /\ t[2] < t[3] /\ t[3] < t[4]
      /\ t[4] < t[5] /\ t[5] < t[6]
      /\ t[2] + 4 * u <= t[6]
      /\ \A i \in 1..6 : \A j \in 1..(i - 1) : t[j] < t[i]
  <2>1. /\ t[1] + u <= t[2] /\ t[2] + u <= t[3] /\ t[3] + u <= t[4]
        /\ t[4] + u <= t[5] /\ t[5] + u <= t[6]
    BY <1>3
  <2> HIDE DEF t, u
  <2>3. /\ t[1] < t[2] /\ t[2] < t[3] /\ t[3] < t[4]
        /\ t[4] < t[5] /\ t[5] < t[6]
        /\ t[2] + 4 * u <= t[6]
    BY <1>1, <1>2, <2>1, SixSteps
  <2> QED BY <1>2, <2>3, Increasing
<1>5. \A i \in 1..6 : Later(q, i)
  <2>1. ASSUME NEW i \in 1..6, NEW j \in 1..(i - 1)
        PROVE  q[j].time < q[i].time
    BY <1>4
  <2> QED BY <2>1 DEF Later
<1>6. LastIndex(q) = 6
  <2>1. LastIndex(q) \in 1..6
    BY ScanLast
  <2>2. t[6] <= t[LastIndex(q)]
    BY <2>1, ScanLast
  <2>3. LastIndex(q) # 6 => t[LastIndex(q)] < t[6]
    BY <1>4, <2>1
  <2> HIDE DEF t
  <2> QED BY <1>2, <2>1, <2>2, <2>3
<1>7. SampleNum(q) = 6
  <2>1. {i \in 1..Len(q) : Later(q, i)} = 1..6
    BY <1>5
  <2>2. Cardinality(1..6) = 6
    <3>1. \A a, b \in Int : a <= b => Cardinality(a..b) = b - a + 1
      BY FS_Interval
    <3>2. 1 \in Int /\ 6 \in Int /\ 1 <= 6
      OBVIOUS
    <3>3. Cardinality(1..6) = 6 - 1 + 1
      BY <3>1, <3>2, Zenon
    <3> QED BY <3>3
  <2> QED BY <2>1, <2>2 DEF SampleNum
<1> QED BY <1>4, <1>5, <1>6, <1>7

\* Its diff is full, over five seconds for the rates and for the power.
LEMMA PacedDiff ==
    ASSUME NEW q \in Seq(Samples), Len(q) = 6, Paced(q),
           q[1].major, q[6].major, HasPayloads(q[1]), HasPayloads(q[6]),
           q[1].io_report.time + UnitsPerSecond <= q[2].time,
           q[6].time <= q[6].io_report.time
    PROVE  LET diff == SampleDiff(q)
           IN /\ diff.kind = "full"
              /\ diff.sample_num = 6
              /\ diff.seconds >= 5
              /\ \A s \in diff.power_seconds : s >= 5
<1> DEFINE u == UnitsPerSecond
           first == q[1]
           last == q[6]
<1>1. LastIndex(q) = 6 /\ SampleNum(q) = 6
  BY PacedScan
<1>2. SampleDiff(q) = FullDiff(q, first, last)
  BY <1>1 DEF SampleDiff, Comparable
<1>3. /\ u \in Nat /\ first.time \in Nat /\ last.time \in Nat
      /\ q[2].time \in Nat
  BY SampleFields, SamplerAssumption, SMTT(30)
<1>4. /\ first.io_report \in IoReportSamples
      /\ last.io_report \in IoReportSamples
  <2>1. \A i \in 1..6 : q[i] \in Samples
    BY SampleFields
  <2> QED BY <2>1 DEF Samples, HasPayloads
<1>5. first.io_report.time \in Nat /\ last.io_report.time \in Nat
  BY <1>4 DEF IoReportSamples
<1>6. first.time + u <= q[2].time /\ q[2].time + 4 * u <= last.time
  BY PacedScan DEF Paced
<1>7. last.time - first.time >= 5 * u
  <2> HIDE DEF u, first, last
  <2> QED BY <1>3, <1>6
<1>8. last.io_report.time - first.io_report.time >= 5 * u
  <2> DEFINE a == first.io_report.time
             b == q[2].time
             c == last.time
             d == last.io_report.time
  <2>1. a + u <= b /\ b + 4 * u <= c /\ c <= d
    BY <1>6
  <2>2. a \in Nat /\ b \in Nat /\ c \in Nat /\ d \in Nat /\ u \in Nat
    BY <1>3, <1>5
  <2>3. d - a >= 5 * u
    <3> HIDE DEF a, b, c, d, u
    <3> QED BY <2>1, <2>2
  <2> QED BY <2>3
<1>9. (last.time - first.time) \div u >= 5
  BY <1>3, <1>7, WholeSeconds
<1>10. (last.io_report.time - first.io_report.time) \div u >= 5
  BY <1>5, <1>8, WholeSeconds
<1>11. \A s \in PowerSeconds(first.io_report, last.io_report) : s >= 5
  BY <1>10 DEF PowerSeconds
<1> QED BY <1>1, <1>2, <1>9, <1>11 DEF FullDiff

-----------------------------------------------------------------------------
(***************************************************************************)
(* The pace of the samples.  While the clock has not been set back since   *)
(* the first stamp of the window, each stamp is a second after the one     *)
(* before, and the stamp the sampler is heading for comes a second after   *)
(* the newest.                                                             *)
(***************************************************************************)

\* The earliest stamp of the next sample, or the stamp it already has.
Horizon == IF pc = "sleep" THEN now + UnitsPerSecond
           ELSE IF pc = "ready" THEN now ELSE building.time

Undisturbed == sample_queue[1].epoch = back_steps

\* The gaps inside the queue, up to the horizon.
QueuePaced ==
    /\ \A i \in 1..(Len(sample_queue) - 1) :
          sample_queue[i].time + UnitsPerSecond <= sample_queue[i + 1].time
    /\ sample_queue[Len(sample_queue)].time + UnitsPerSecond <= Horizon
    /\ sample_queue[1].io_report.time + UnitsPerSecond
          <= IF Len(sample_queue) = 1 THEN Horizon ELSE sample_queue[2].time

\* The stamps of the sample being built.
BuildingPaced ==
    /\ building.epoch <= back_steps
    /\ building.epoch = back_steps =>
          /\ building.time <= now
          /\ pc = "counters" => /\ building.time <= building.io_report.time
                                /\ building.io_report.time <= now

PaceInv ==
    /\ pc \in {"stamped", "counters"} => BuildingPaced
    /\ sample_queue # <<>> =>
          /\ sample_queue[1].epoch <= back_steps
          /\ Undisturbed =>
                /\ QueuePaced
                /\ pc \in {"stamped", "counters"} =>
                      building.epoch = back_steps

\* A queue cut back to a boundary sample is paced: what comes next comes
\* after its pause.
LEMMA SinglePaced ==
    ASSUME IInv, PaceInv, pc = "counters", pc' = "sleep",
           UNCHANGED kernel, NEW s, s \in Samples,
           s.time = building.time, s.epoch = building.epoch,
           s.io_report = building.io_report,
           sample_queue' = <<s>>
    PROVE  PaceInv'
<1>1. /\ now \in Nat /\ back_steps \in Nat /\ now' = now
      /\ back_steps' = back_steps
  BY DEF IInv, TypeOK, kernel
<1>2. Len(sample_queue') = 1 /\ sample_queue'[1] = s
  OBVIOUS
<1>3. BuildingPaced
  BY DEF PaceInv
<1>4. s.epoch <= back_steps
  BY <1>3 DEF BuildingPaced
<1>5. ASSUME s.epoch = back_steps
      PROVE  QueuePaced'
  <2>1. /\ s.time <= now /\ s.io_report.time <= now
        /\ s.time \in Nat /\ s.io_report.time \in Nat
    <3>1. building \in Samples /\ building.io_report # Nullopt
      BY DEF IInv, TypeOK, QueueShape
    <3>2. building.io_report \in IoReportSamples
      BY <3>1 DEF Samples
    <3>3. building.time \in Nat /\ building.io_report.time \in Nat
      BY <3>1, <3>2 DEF Samples, IoReportSamples
    <3>4. building.time <= now /\ building.io_report.time <= now
      BY <1>3, <1>5, <3>3, <1>1 DEF BuildingPaced
    <3> QED BY <3>3, <3>4
  <2>2. Horizon' = now + UnitsPerSecond
    BY <1>1 DEF Horizon
  <2>3. /\ s.time + UnitsPerSecond <= Horizon'
        /\ s.io_report.time + UnitsPerSecond <= Horizon'
    BY <1>1, <2>1, <2>2, SamplerAssumption
  <2> QED BY <1>2, <2>3 DEF QueuePaced
<1> QED BY <1>1, <1>2, <1>4, <1>5 DEF PaceInv, Undisturbed

\* A sample that joins the window comes a pause after the one before it.
LEMMA JoinedPaced ==
    ASSUME IInv, PaceInv, pc \in {"stamped", "counters"}, pc' = "sleep",
           UNCHANGED kernel, NEW s, Pushable(s),
           s.time = building.time, sample_queue # <<>>,
           sample_queue' = Append(sample_queue, s)
    PROVE  PaceInv'
<1> DEFINE q == Append(sample_queue, s)
           n == Len(sample_queue)
<1>1. TypeOK /\ QueueShape
  BY DEF IInv
<1>2. /\ now \in Nat /\ back_steps \in Nat /\ now' = now
      /\ back_steps' = back_steps /\ UnitsPerSecond \in Nat
  BY <1>1, SamplerAssumption DEF TypeOK, kernel
<1>3. /\ q \in Seq(Samples) /\ Len(q) = n + 1 /\ n \in Nat \ {0}
      /\ q[n + 1] = s
      /\ \A i \in 1..n : q[i] = sample_queue[i]
  BY <1>1, PushedQueue, EmptySeq DEF TypeOK
<1>4. 1 \in 1..n /\ q[1] = sample_queue[1]
  BY <1>3
<1>5. sample_queue[1].epoch <= back_steps
  BY DEF PaceInv
<1>6. ASSUME Undisturbed
      PROVE  QueuePaced'
  <2>1. QueuePaced /\ building.epoch = back_steps /\ BuildingPaced
    BY <1>6 DEF PaceInv
  <2>2. Horizon = s.time /\ Horizon' = now + UnitsPerSecond
    BY <1>2 DEF Horizon
  <2>3. s.time <= now /\ s.time \in Nat
    BY <2>1 DEF BuildingPaced, Pushable, Samples
  <2> HIDE DEF q, n
  <2>4. s.time + UnitsPerSecond <= Horizon'
    BY <1>2, <2>2, <2>3
  <2>5. ASSUME NEW i \in 1..n
        PROVE  q[i].time + UnitsPerSecond <= q[i + 1].time
    <3>1. CASE i = n
      <4>1. sample_queue[n].time + UnitsPerSecond <= s.time
        BY <2>1, <2>2 DEF QueuePaced, n
      <4> QED BY <1>3, <3>1, <4>1
    <3>2. CASE i # n
      <4>1. i \in 1..(n - 1) /\ i + 1 \in 1..n
        BY <1>3, <3>2
      <4>2. sample_queue[i].time + UnitsPerSecond <= sample_queue[i + 1].time
        BY <2>1, <4>1 DEF QueuePaced, n
      <4> QED BY <1>3, <4>1, <4>2
    <3> QED BY <3>1, <3>2
  <2>6. q[1].io_report.time + UnitsPerSecond <= q[2].time
    <3>1. CASE n = 1
      <4>1. sample_queue[1].io_report.time + UnitsPerSecond <= s.time
        BY <2>1, <2>2, <3>1 DEF QueuePaced, n
      <4> QED BY <1>3, <1>4, <3>1, <4>1
    <3>2. CASE n # 1
      <4>1. 2 \in 1..n
        BY <1>3, <3>2
      <4>2. sample_queue[1].io_report.time + UnitsPerSecond
               <= sample_queue[2].time
        BY <2>1, <3>2 DEF QueuePaced, n
      <4> QED BY <1>3, <1>4, <4>1, <4>2
    <3> QED BY <3>1, <3>2
  <2>7. sample_queue' = q /\ Len(sample_queue') = n + 1
    BY <1>3 DEF q
  <2>8. Len(sample_queue') # 1 /\ Len(sample_queue') - 1 = n
    BY <1>3, <2>7
  <2> QED BY <1>3, <2>4, <2>5, <2>6, <2>7, <2>8, SMTT(30) DEF QueuePaced
<1>7. sample_queue'[1] = sample_queue[1]
  BY <1>4
<1> QED BY <1>2, <1>5, <1>6, <1>7 DEF PaceInv, Undisturbed

\* The report of a window that was undisturbed up to its last push.
LEMMA QuietReport ==
    ASSUME IInv, PaceInv, pc = "counters", NEW s, Pushable(s), Push(s),
           s.time = building.time, s.io_report = building.io_report,
           Len(Append(sample_queue, s)) = 6, Undisturbed
    PROVE  LET diff == SampleDiff(Append(sample_queue, s))
           IN /\ diff.kind = "full"
              /\ diff.sample_num = 6
              /\ diff.seconds >= 5
              /\ \A x \in diff.power_seconds : x >= 5
<1> DEFINE q == Append(sample_queue, s)
           n == Len(sample_queue)
<1>1. TypeOK /\ QueueShape
  BY DEF IInv
<1>2. /\ q \in Seq(Samples) /\ Len(q) = 6 /\ 6 = n + 1
      /\ q[6] = s
      /\ \A i \in 1..n : q[i] = sample_queue[i]
      /\ q[1].major /\ q[6].major /\ HasPayloads(q[1]) /\ HasPayloads(q[6])
  BY <1>1, PushedQueue
<1>3. n = 5
  <2>1. n \in Nat
    BY <1>1 DEF TypeOK
  <2> HIDE DEF n
  <2> QED BY <1>2, <2>1
<1>4. sample_queue # <<>>
  BY <1>3
<1>5. QueuePaced /\ BuildingPaced /\ building.epoch = back_steps
  BY <1>4 DEF PaceInv
<1>6. Horizon = s.time
  BY DEF Horizon
<1>7. s.time <= s.io_report.time
  BY <1>5 DEF BuildingPaced
<1> HIDE DEF q, n
<1>8. q[1].io_report.time + UnitsPerSecond <= q[2].time
  <2>1. sample_queue[1].io_report.time + UnitsPerSecond
           <= sample_queue[2].time
    BY <1>3, <1>5 DEF QueuePaced, n
  <2> QED BY <1>2, <1>3, <2>1
<1>9. Paced(q)
  <2>1. ASSUME NEW i \in 1..4
        PROVE  q[i].time + UnitsPerSecond <= q[i + 1].time
    <3>1. sample_queue[i].time + UnitsPerSecond <= sample_queue[i + 1].time
      BY <1>3, <1>5 DEF QueuePaced, n
    <3> QED BY <1>2, <1>3, <3>1
  <2>2. q[5].time + UnitsPerSecond <= q[5 + 1].time
    <3>1. sample_queue[5].time + UnitsPerSecond <= s.time
      BY <1>3, <1>5, <1>6 DEF QueuePaced, n
    <3> QED BY <1>2, <1>3, <3>1
  <2>3. \A i \in 1..5 : i \in 1..4 \/ i = 5
    OBVIOUS
  <2> QED BY <2>1, <2>2, <2>3 DEF Paced
<1> QED BY <1>2, <1>7, <1>8, <1>9, PacedDiff DEF q

LEMMA PushPace ==
    ASSUME IInv, PaceInv, QuietWindowIsFull, NEW s, Pushable(s), Push(s),
           UNCHANGED kernel, pc \in {"stamped", "counters"},
           s.time = building.time, s.epoch = building.epoch,
           pc = "stamped" => ~s.major,
           pc = "counters" => s.io_report = building.io_report
    PROVE  PaceInv' /\ QuietWindowIsFull'
<1> DEFINE q == Append(sample_queue, s)
<1>1. TypeOK /\ QueueShape /\ s \in Samples /\ pc' = "sleep"
  BY DEF IInv, Pushable, Push
<1>2. /\ q \in Seq(Samples) /\ Len(q) = Len(sample_queue) + 1
      /\ q[Len(q)] = s
      /\ \A i \in 1..Len(sample_queue) : q[i] = sample_queue[i]
      /\ s.major <=> Len(q) \in {1, 6}
  BY <1>1, PushedQueue
<1>3. CASE Len(q) = 6
  <2>1. /\ sample_queue' = KeepNewest(q)
        /\ report' = [diff |-> SampleDiff(q), quiet |-> q[1].epoch = back_steps]
    BY <1>3 DEF Push
  <2>2. pc = "counters" /\ s.io_report = building.io_report
    BY <1>2, <1>3
  <2>3. sample_queue' = <<s>>
    <3> HIDE DEF q
    <3> QED BY <1>2, <1>3, <2>1, KeepNewestIsLast
  <2>4. PaceInv'
    BY <1>1, <2>2, <2>3, SinglePaced
  <2>5. q[1] = sample_queue[1]
    <3>1. sample_queue # <<>>
      BY <1>2, <1>3
    <3>2. 1 \in 1..Len(sample_queue)
      BY <1>1, <3>1, Front
    <3> QED BY <1>2, <3>2
  <2>6. Undisturbed =>
           /\ SampleDiff(q).kind = "full" /\ SampleDiff(q).sample_num = 6
           /\ SampleDiff(q).seconds >= 5
           /\ \A x \in SampleDiff(q).power_seconds : x >= 5
    BY <1>3, <2>2, QuietReport
  <2>7. QuietWindowIsFull'
    <3> HIDE DEF q
    <3>1. /\ report'.diff = SampleDiff(q)
          /\ report'.quiet => Undisturbed
      BY <2>1, <2>5 DEF Undisturbed
    <3> QED BY <2>6, <3>1 DEF QuietWindowIsFull
  <2> QED BY <2>4, <2>7
<1>4. CASE Len(q) # 6
  <2>1. sample_queue' = q /\ report' = report
    BY <1>4 DEF Push
  <2>2. QuietWindowIsFull'
    BY <2>1 DEF QuietWindowIsFull
  <2>3. CASE sample_queue = <<>>
    <3>1. sample_queue' = <<s>> /\ Len(q) = 1
      BY <2>1, <2>3
    <3>2. pc = "counters" /\ s.io_report = building.io_report
      BY <1>2, <3>1
    <3> QED BY <1>1, <2>2, <3>1, <3>2, SinglePaced
  <2>4. CASE sample_queue # <<>>
    BY <1>1, <2>1, <2>2, <2>4, JoinedPaced
  <2> QED BY <2>3, <2>4
<1> QED BY <1>3, <1>4

\* The other steps: only the clock and the sample being built matter.
LEMMA OtherPace ==
    ASSUME IInv, PaceInv, QuietWindowIsFull, [Next]_vars,
           ~ReadCounters, ~SkipReaders
    PROVE  PaceInv' /\ QuietWindowIsFull'
<1>1. sample_queue' = sample_queue
  BY OtherSteps
<1>2. /\ now \in Nat /\ back_steps \in Nat /\ UnitsPerSecond \in Nat
  BY SamplerAssumption DEF IInv, TypeOK
<1>3. CASE StepClockBack
  <2>1. /\ back_steps' = back_steps + 1
        /\ UNCHANGED <<pc, building, sample_queue, report>>
    BY <1>3 DEF StepClockBack, kernelOnly
  <2>2. ASSUME pc \in {"stamped", "counters"}
        PROVE  BuildingPaced'
    <3>1. building \in Samples /\ building.epoch <= back_steps
      BY <2>2 DEF PaceInv, BuildingPaced, IInv, TypeOK, QueueShape
    <3>2. building.epoch \in Nat
      BY <3>1 DEF Samples
    <3> QED BY <1>2, <2>1, <3>1, <3>2 DEF BuildingPaced
  <2>3. ASSUME sample_queue # <<>>
        PROVE  /\ sample_queue[1].epoch <= back_steps'
               /\ sample_queue[1].epoch # back_steps'
    <3>1. sample_queue[1] \in Samples
      BY <2>3, Front DEF IInv
    <3>2. sample_queue[1].epoch \in Nat
      BY <3>1 DEF Samples
    <3>3. sample_queue[1].epoch <= back_steps
      BY <2>3 DEF PaceInv
    <3> QED BY <1>2, <2>1, <3>2, <3>3
  <2>4. PaceInv'
    BY <2>1, <2>2, <2>3 DEF PaceInv, Undisturbed
  <2> QED BY <2>1, <2>4 DEF QuietWindowIsFull
<1>4. CASE UNCHANGED <<now, back_steps, pc, building, sample_queue, report>>
  BY <1>4 DEF PaceInv, QuietWindowIsFull, Undisturbed, QueuePaced,
              BuildingPaced, Horizon
<1>5. CASE BeginSample
  <2>1. /\ pc = "ready" /\ pc' = "stamped"
        /\ building'.time = now /\ building'.epoch = back_steps
        /\ UNCHANGED <<now, back_steps, sample_queue, report>>
    BY <1>5 DEF BeginSample, kernel
  <2>2. BuildingPaced'
    BY <1>2, <2>1 DEF BuildingPaced
  <2>3. Horizon' = Horizon
    BY <2>1 DEF Horizon
  <2>4. QueuePaced => QueuePaced'
    BY <2>1, <2>3 DEF QueuePaced
  <2>5. PaceInv'
    BY <2>1, <2>2, <2>4 DEF PaceInv, Undisturbed
  <2> QED BY <2>1, <2>5 DEF QuietWindowIsFull
<1>6. CASE ReadIoReport
  <2>1. PICK late \in 0..MaxLate, ref \in BOOLEAN :
           /\ now' = now + late
           /\ building' = [building EXCEPT
                  !.io_report = [time |-> now + late, ref |-> ref]]
    BY <1>6 DEF ReadIoReport
  <2>2. /\ pc = "stamped" /\ pc' = "counters"
        /\ UNCHANGED <<back_steps, sample_queue, report>>
    BY <1>6 DEF ReadIoReport
  <2>3. building \in Samples
    BY <2>2 DEF IInv, TypeOK, QueueShape
  <2>4. /\ building'.time = building.time
        /\ building'.epoch = building.epoch
        /\ building'.io_report.time = now'
        /\ building.time \in Nat
    BY <2>1, <2>3 DEF Samples
  <2>5. now <= now' /\ now' \in Nat
    BY <1>2, <2>1, SamplerAssumption
  <2>6. BuildingPaced'
    <3>1. BuildingPaced
      BY <2>2 DEF PaceInv
    <3> QED BY <1>2, <2>2, <2>4, <2>5, <3>1 DEF BuildingPaced
  <2>7. Horizon' = Horizon
    BY <2>2, <2>4 DEF Horizon
  <2>8. QueuePaced => QueuePaced'
    BY <2>2, <2>7 DEF QueuePaced
  <2>9. PaceInv'
    BY <2>2, <2>4, <2>6, <2>8 DEF PaceInv, Undisturbed
  <2> QED BY <2>2, <2>9 DEF QuietWindowIsFull
<1>7. CASE Sleep
  <2>1. PICK late \in 0..MaxLate : now' = now + UnitsPerSecond + late
    BY <1>7 DEF Sleep
  <2>2. /\ pc = "sleep" /\ pc' = "ready" /\ report' = Nullopt
        /\ UNCHANGED <<back_steps, sample_queue>>
    BY <1>7 DEF Sleep
  <2>3. sample_queue # <<>> => sample_queue[1] \in Samples /\ HasPayloads(sample_queue[1])
    BY Front DEF IInv
  <2>4. Horizon = now + UnitsPerSecond /\ Horizon' = now'
    BY <2>2 DEF Horizon
  <2>5. Horizon <= Horizon' /\ Horizon \in Nat /\ Horizon' \in Nat
    BY <1>2, <2>1, <2>4, SamplerAssumption
  <2>6. ASSUME sample_queue # <<>>, QueuePaced
        PROVE  QueuePaced'
    <3> DEFINE last == sample_queue[Len(sample_queue)]
    <3>1. last.time \in Nat
      <4>1. Len(sample_queue) \in 1..Len(sample_queue)
        BY <2>6, EmptySeq DEF IInv, TypeOK
      <4> QED BY <4>1, SampleFields DEF IInv, TypeOK
    <3>2. sample_queue[1].io_report.time \in Nat
      <4>1. sample_queue[1].io_report \in IoReportSamples
        BY <2>3, <2>6 DEF Samples, HasPayloads
      <4> QED BY <4>1 DEF IoReportSamples
    <3>3. last.time + UnitsPerSecond <= Horizon'
      <4>1. last.time + UnitsPerSecond <= Horizon
        BY <2>6 DEF QueuePaced
      <4> HIDE DEF last
      <4> QED BY <1>2, <2>5, <3>1, <4>1
    <3>4. Len(sample_queue) = 1 =>
             sample_queue[1].io_report.time + UnitsPerSecond <= Horizon'
      <4>1. Len(sample_queue) = 1 =>
               sample_queue[1].io_report.time + UnitsPerSecond <= Horizon
        BY <2>6 DEF QueuePaced
      <4> QED BY <1>2, <2>5, <3>2, <4>1
    <3> QED BY <2>2, <2>6, <3>3, <3>4 DEF QueuePaced
  <2>7. PaceInv'
    BY <2>2, <2>6 DEF PaceInv, Undisturbed
  <2> QED BY <2>2, <2>7 DEF QuietWindowIsFull
<1> QED BY <1>3, <1>4, <1>5, <1>6, <1>7
        DEF Next, Kernel, DoIo, Detach, Attach, kernelOnly, vars, kernel

\* A window of an undisturbed clock is reported in full, with six samples and
\* with at least five seconds to divide by.
THEOREM QuietWindowsAreFull == Spec => []QuietWindowIsFull
<1>1. Init => PaceInv /\ QuietWindowIsFull
  BY DEF Init, PaceInv, QuietWindowIsFull
<1>2. IInv /\ PaceInv /\ QuietWindowIsFull /\ [Next]_vars
         => PaceInv' /\ QuietWindowIsFull'
  <2> SUFFICES ASSUME IInv, PaceInv, QuietWindowIsFull, [Next]_vars
               PROVE  PaceInv' /\ QuietWindowIsFull'
    OBVIOUS
  <2>1. CASE ReadCounters \/ SkipReaders
    <3>1. pc \in {"stamped", "counters"}
      BY <2>1 DEF ReadCounters, SkipReaders
    <3> QED BY <2>1, <3>1, PushedSample, PushPace
  <2> QED BY <2>1, OtherPace
<1> QED BY <1>1, <1>2, Invariance, PTL DEF Spec

-----------------------------------------------------------------------------
(***************************************************************************)
(* Windows tile.                                                           *)
(***************************************************************************)

\* For such a device the kernel's counter has kept step with what was issued
\* since the last boundary sample, which saw it above zero.
InStep(d) ==
    LET front == sample_queue[1]
    IN /\ d \in attached /\ d \in Listed(front.io)
       /\ front.io[d] > 0
       /\ counter[d] - front.io[d] = issued[d] - front.issued[d]
       /\ reported[d] = front.issued[d] - origin[d]

WholeInv ==
    /\ sample_queue = <<>> => taken = 0 /\ \A d \in Devices : reported[d] = 0
    /\ sample_queue # <<>> => taken # 0 /\ \A d \in whole : InStep(d)

LEMMA PushWhole ==
    ASSUME IInv, CountInv, WholeInv, NEW s, Pushable(s), Push(s),
           UNCHANGED kernel, origin' \in [Devices -> Nat],
           pc \in {"stamped", "counters"},
           origin' = IF taken = 0 /\ pc = "counters" THEN issued ELSE origin,
           pc = "stamped" => ~s.major,
           pc = "counters" =>
              /\ s.major /\ s.issued = issued
              /\ Listed(s.io) \subseteq attached
              /\ \A d \in Listed(s.io) : s.io[d] = counter[d]
    PROVE  WholeInv'
<1> DEFINE q == Append(sample_queue, s)
           diff == SampleDiff(q)
           front == sample_queue[1]
<1>1. TypeOK /\ QueueShape /\ s \in Samples
  BY DEF IInv, Pushable
<1>2. /\ q \in Seq(Samples)
      /\ Len(q) = Len(sample_queue) + 1
      /\ Len(q) \in 1..6
      /\ q[Len(q)] = s
      /\ \A i \in 1..Len(sample_queue) : q[i] = sample_queue[i]
      /\ \A i \in 1..Len(q) :
            /\ q[i].major <=> i \in {1, 6}
            /\ IF i \in {1, 6} THEN HasPayloads(q[i]) ELSE q[i].io = Nullopt
  BY <1>1, PushedQueue
<1>3. /\ taken' = taken + 1 /\ taken \in Nat
      /\ whole' = IF Len(q) = 6 /\ diff.kind # "full" THEN {}
                  ELSE IF s.io = Nullopt THEN whole
                  ELSE {d \in whole \cap Listed(s.io) : s.io[d] > 0}
  BY <1>1 DEF Push, TypeOK
<1>4. /\ issued' = issued /\ counter' = counter /\ attached' = attached
      /\ \A d \in Devices : /\ issued[d] \in Nat /\ counter[d] \in Nat
                            /\ reported[d] \in Nat /\ origin[d] \in Nat
      /\ whole \subseteq Devices
  BY <1>1 DEF kernel, TypeOK
<1>5. taken' # 0
  BY <1>3
<1>6. CASE sample_queue = <<>>
  <2>1. Len(q) = 1 /\ s.major /\ pc = "counters"
    BY <1>2, <1>6
  <2>2. sample_queue' = <<s>> /\ reported' = reported
    BY <1>6, <2>1 DEF Push
  <2>3. taken = 0 /\ origin' = issued /\ \A d \in Devices : reported[d] = 0
    BY <1>6, <2>1 DEF WholeInv
  <2>4. s.io # Nullopt
    BY <2>1 DEF Pushable, HasPayloads
  <2>5. ASSUME NEW d \in whole'
        PROVE  InStep(d)'
    <3>1. d \in Devices /\ d \in Listed(s.io) /\ s.io[d] > 0
      BY <1>3, <1>4, <2>1, <2>4, <2>5
    <3>2. s.io[d] = counter[d] /\ s.issued[d] = issued[d] /\ d \in attached
      BY <2>1, <3>1
    <3>3. sample_queue'[1] = s
      BY <2>2
    <3> QED BY <1>4, <2>2, <2>3, <3>1, <3>2, <3>3 DEF InStep
  <2>6. sample_queue' # <<>>
    BY <2>2
  <2> QED BY <1>5, <2>5, <2>6 DEF WholeInv
<1>7. CASE sample_queue # <<>>
  <2>1. /\ 1 \in 1..Len(sample_queue) /\ front \in Samples
        /\ HasPayloads(front) /\ q[1] = front
    BY <1>1, <1>2, <1>7, Front
  <2>2. taken # 0 /\ origin' = origin
    BY <1>7 DEF WholeInv
  <2>3. \A d \in whole : InStep(d)
    BY <1>7 DEF WholeInv
  <2>4. CASE Len(q) = 6
    <3>1. sample_queue' = <<s>>
      <4>1. sample_queue' = KeepNewest(q)
        BY <2>4 DEF Push
      <4> HIDE DEF q
      <4> QED BY <1>2, <2>4, <4>1, KeepNewestIsLast
    <3>2. reported' = [d \in Devices |-> reported[d] +
              IF d \in Listed(diff.counters) THEN diff.counters[d] ELSE 0]
      BY <2>4 DEF Push
    <3>3. /\ q[6] = s /\ s.major /\ s.io # Nullopt /\ pc = "counters"
          /\ HasPayloads(q[1]) /\ HasPayloads(q[6])
      BY <1>2, <2>1, <2>4 DEF HasPayloads
    <3>4. ASSUME NEW d \in whole'
          PROVE  InStep(d)'
      <4>1. /\ diff.kind = "full"
            /\ d \in whole /\ d \in Devices
            /\ d \in Listed(s.io) /\ s.io[d] > 0
        BY <1>3, <1>4, <2>4, <3>3, <3>4
      <4>2. s.io[d] = counter[d] /\ s.issued[d] = issued[d] /\ d \in attached
        BY <3>3, <4>1
      <4>3. /\ d \in Listed(front.io) /\ front.io[d] > 0
            /\ counter[d] - front.io[d] = issued[d] - front.issued[d]
            /\ reported[d] = front.issued[d] - origin[d]
        BY <2>3, <4>1 DEF InStep
      <4>4. front.issued[d] <= issued[d]
        BY <1>7, <4>1 DEF CountInv
      <4>5. front.issued[d] \in Nat /\ front.io[d] \in Nat
        BY <2>1, <4>1, <4>3 DEF Samples, HasPayloads, CounterMaps, Listed
      <4>6. diff.counters = CounterDiff(front.io, s.io)
        <5>1. diff.counters = CounterDiff(q[1].io, q[6].io)
          <6> HIDE DEF q
          <6> QED BY <1>2, <2>4, <3>3, <4>1, WindowCounters
        <5> QED BY <2>1, <3>3, <5>1
      <4>7. CounterDelta(front.io[d], s.io[d]) \in Nat
        BY <1>4, <4>1, <4>2, <4>5, CounterDeltaType
      <4>8. reported'[d] = reported[d] + CounterDelta(front.io[d], counter[d])
        <5>1. diff.counters[d] = CounterDelta(front.io[d], s.io[d])
          BY <4>1, <4>3, <4>6 DEF CounterDiff
        <5>2. d \in Listed(diff.counters)
          BY <4>1, <4>7, <5>1, NulloptAssumption DEF Listed
        <5> HIDE DEF diff
        <5> QED BY <3>2, <4>1, <4>2, <5>1, <5>2
      <4>9. reported'[d] = issued[d] - origin[d]
        <5>1. counter[d] > 0 /\ counter[d] >= front.io[d]
          <6> HIDE DEF front
          <6> QED BY <1>4, <4>1, <4>2, <4>3, <4>4, <4>5
        <5>2. CounterDelta(front.io[d], counter[d]) = counter[d] - front.io[d]
          BY <4>3, <5>1 DEF CounterDelta
        <5> HIDE DEF front
        <5> QED BY <1>4, <4>1, <4>3, <4>5, <4>8, <5>2
      <4>10. sample_queue'[1] = s
        BY <3>1
      <4> QED BY <1>4, <2>2, <4>1, <4>2, <4>9, <4>10 DEF InStep
    <3>5. sample_queue' # <<>>
      BY <3>1
    <3> QED BY <1>5, <3>4, <3>5 DEF WholeInv
  <2>5. CASE Len(q) # 6
    <3>1. sample_queue' = q /\ reported' = reported
      BY <2>5 DEF Push
    <3>2. sample_queue' # <<>> /\ sample_queue'[1] = sample_queue[1]
      <4>1. q # <<>>
        BY <1>2
      <4> QED BY <2>1, <3>1, <4>1
    <3>3. whole' \subseteq whole
      BY <1>3
    <3>4. \A d \in whole : InStep(d) => InStep(d)'
      BY <1>4, <2>2, <3>1, <3>2 DEF InStep
    <3> QED BY <1>5, <2>3, <3>2, <3>3, <3>4 DEF WholeInv
  <2> QED BY <2>4, <2>5
<1> QED BY <1>6, <1>7

LEMMA OtherWhole ==
    ASSUME IInv, WholeInv, [Next]_vars, ~ReadCounters, ~SkipReaders
    PROVE  WholeInv'
<1>1. UNCHANGED <<sample_queue, taken, reports, reported>>
  BY OtherSteps
<1>2. UNCHANGED origin
  BY DEF Next, Kernel, StepClockBack, DoIo, Detach, Attach, kernelOnly,
         BeginSample, ReadIoReport, Sleep, vars, history
<1>3. CASE sample_queue = <<>>
  BY <1>1, <1>3 DEF WholeInv
<1>4. CASE sample_queue # <<>>
  <2>1. TypeOK /\ QueueShape
    BY DEF IInv
  <2>2. sample_queue[1] \in Samples /\ HasPayloads(sample_queue[1])
    BY <1>4, <2>1, Front
  <2>3. ASSUME NEW d \in whole'
        PROVE  d \in whole /\ (InStep(d) => InStep(d)')
    <3>1. CASE \E e \in Devices : Detach(e)
      BY <1>1, <1>2, <2>3, <3>1 DEF Detach, InStep
    <3>2. CASE \E e \in Devices : Attach(e)
      <4>1. PICK e \in Devices : Attach(e)
        BY <3>2
      <4>2. d \in whole /\ d \in Devices
        BY <2>1, <2>3, <4>1 DEF Attach, TypeOK
      <4>3. InStep(d) => d # e
        BY <4>1 DEF Attach, InStep
      <4>4. d # e => counter'[d] = counter[d]
        BY <2>1, <4>1, <4>2 DEF Attach, TypeOK
      <4>5. attached \subseteq attached' /\ issued' = issued
        BY <4>1 DEF Attach
      <4> QED BY <1>1, <1>2, <4>2, <4>3, <4>4, <4>5 DEF InStep
    <3>3. CASE \E e \in Devices : DoIo(e)
      <4>1. PICK e \in Devices : DoIo(e)
        BY <3>3
      <4>2. d \in whole /\ d \in Devices /\ attached' = attached
        BY <2>1, <2>3, <4>1 DEF DoIo, TypeOK
      <4>3. \/ issued'[d] = issued[d] /\ counter'[d] = counter[d]
            \/ issued'[d] = issued[d] + 1 /\ counter'[d] = counter[d] + 1
        BY <2>1, <4>1, <4>2 DEF DoIo, TypeOK
      <4>4. /\ issued[d] \in Nat /\ counter[d] \in Nat
            /\ sample_queue[1].issued[d] \in Nat
            /\ d \in Listed(sample_queue[1].io) =>
                  sample_queue[1].io[d] \in Nat
        BY <2>1, <2>2, <4>2 DEF TypeOK, Samples, HasPayloads, CounterMaps, Listed
      <4>5. ASSUME InStep(d)
            PROVE  counter'[d] - sample_queue[1].io[d]
                      = issued'[d] - sample_queue[1].issued[d]
        BY <4>3, <4>4, <4>5 DEF InStep
      <4> QED BY <1>1, <1>2, <4>2, <4>5 DEF InStep
    <3>4. CASE UNCHANGED <<attached, counter, issued, whole>>
      BY <1>1, <1>2, <2>3, <3>4 DEF InStep
    <3> QED BY <3>1, <3>2, <3>3, <3>4 DEF Next, Kernel, StepClockBack,
               BeginSample, ReadIoReport, Sleep, vars, kernel, history
  <2> QED BY <1>1, <1>4, <2>3 DEF WholeInv
<1> QED BY <1>3, <1>4

\* No operation falls between two windows: as long as a device is listed,
\* above zero, in every major sample and every report is full, the reports
\* account for everything between the first sample and the last boundary.
THEOREM ReportsAreLossless == Spec => []Lossless
<1>1. Init => CountInv /\ WholeInv
  BY DEF Init, CountInv, NoDoubleCount, WholeInv, NoIo
<1>2. IInv /\ CountInv /\ WholeInv /\ [Next]_vars => CountInv' /\ WholeInv'
  <2> SUFFICES ASSUME IInv, CountInv, WholeInv, [Next]_vars
               PROVE  WholeInv'
    BY CountStep
  <2>1. CASE ReadCounters \/ SkipReaders
    <3>1. pc \in {"stamped", "counters"}
      BY <2>1 DEF ReadCounters, SkipReaders
    <3> QED BY <2>1, <3>1, PushedSample, PushWhole
  <2> QED BY <2>1, OtherWhole
<1>3. WholeInv => Lossless
  BY DEF WholeInv, Lossless, InStep
<1> QED BY <1>1, <1>2, <1>3, Invariance, PTL DEF Spec
=============================================================================
