---------------------------- MODULE WindowScan -----------------------------
(***************************************************************************)
(* What hwinfo::sample_diff (hwinfo_osx.hpp:16-37) makes of the times in a *)
(* window of samples, stated by what it finds.  Sampler uses it in place   *)
(* of the loop; DiffScan is the loop, and is shown to implement it.        *)
(***************************************************************************)
EXTENDS Integers, Sequences, FiniteSets

\* The times at which the scan of the window moves `last_it`: later than
\* every sample before them.
Later(q, i) == \A j \in 1..(i - 1) : q[j].time < q[i].time

\* Where `last_it` ends up, and how many samples were in time order.
LastIndex(q) == CHOOSE i \in 1..Len(q) :
                    Later(q, i) /\ \A j \in i..Len(q) : q[j].time <= q[i].time
\* Mutation: sample_num starts at 0.
SampleNumFromZero(q) == Cardinality({i \in 2..Len(q) : Later(q, i)})
SampleNum(q) == Cardinality({i \in 1..Len(q) : Later(q, i)})

\* Mutation: the last sample of the scan is not asked whether it is major.
ComparableAnyLast(q) == q[1].major /\ LastIndex(q) # 1
\* The window has two ends to compare.
Comparable(q) == q[1].major /\ LastIndex(q) # 1 /\ q[LastIndex(q)].major
=============================================================================
