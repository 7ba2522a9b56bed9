----------------------------- MODULE DiffScan ------------------------------
(***************************************************************************)
(* The scan of hwinfo::sample_diff (hwinfo_osx.hpp:14-37) as the loop it   *)
(* is, over any sequence of samples a caller may pass: the samples are in  *)
(* the order they were taken, their stamps are of a clock that may have    *)
(* been set back in between.                                               *)
(***************************************************************************)
EXTENDS WindowScan

CONSTANTS
    Times,       \* stamps: time points of system_clock
    MaxWindow,   \* bound: samples in a window
    Undecided    \* no report object yet

Samples == [time : Times, major : BOOLEAN]

ASSUME DiffScanAssumption == Times \subseteq Nat /\ MaxWindow \in Nat

VARIABLES window, pc, it, last_it, end_time, sample_num, outcome

locals == <<it, last_it, end_time, sample_num>>
vars == <<window, pc, locals, outcome>>

EmptyReport == [kind |-> "empty"]

Init ==
    /\ window \in UNION {[1..n -> Samples] : n \in 0..MaxWindow}
    /\ pc = "enter" /\ outcome = Undecided
    /\ it = 1 /\ last_it = 1 /\ end_time = 0 /\ sample_num = 0

BeginsWithMajor == window # <<>> /\ window[1].major

\* Nothing to compare, or nothing to compare with.
Refuse ==
    /\ pc = "enter"
    /\ ~BeginsWithMajor
    /\ outcome' = EmptyReport
    /\ pc' = "returned"
    /\ UNCHANGED <<window, locals>>

\* The first sample counts as the last one until a later one is found.
Start ==
    /\ pc = "enter"
    /\ BeginsWithMajor
    /\ last_it' = 1 /\ end_time' = window[1].time
    /\ sample_num' = 1
    /\ it' = 2
    /\ pc' = "scan"
    /\ UNCHANGED <<window, outcome>>

\* Mutation: a sample of the same time is taken for a later one.
IsLaterOrSame(sample) == sample.time >= end_time
IsLater(sample) == sample.time > end_time

Advance ==
    /\ pc = "scan" /\ it <= Len(window)
    /\ IF IsLater(window[it])
       THEN /\ sample_num' = sample_num + 1
            /\ last_it' = it
            /\ end_time' = window[it].time
       ELSE UNCHANGED <<sample_num, last_it, end_time>>
    /\ it' = it + 1
    /\ UNCHANGED <<window, pc, outcome>>

\* The scan is over: the report, or an empty one without a second major sample.
Return ==
    /\ pc = "scan" /\ it > Len(window)
    /\ outcome' = IF last_it = 1 \/ ~window[last_it].major \/ sample_num <= 1
                  THEN EmptyReport
                  ELSE [kind |-> "full", last |-> last_it,
                        start_time |-> window[1].time, end_time |-> end_time,
                        sample_num |-> sample_num]
    /\ pc' = "returned"
    /\ UNCHANGED <<window, locals>>

Returned == pc = "returned" /\ UNCHANGED vars

Next == Refuse \/ Start \/ Advance \/ Return \/ Returned

Spec == Init /\ [][Next]_vars

-----------------------------------------------------------------------------
Scanned == 1..(it - 1)

\* The invariant of the loop (hwinfo_osx.hpp:27-33): `last_it` is where the
\* latest time scanned so far appears first, `sample_num` counts the samples
\* later than all before them.
ScanIsRight ==
    pc = "scan" =>
        /\ BeginsWithMajor
        /\ it \in 2..(Len(window) + 1) /\ last_it \in Scanned
        /\ end_time = window[last_it].time
        /\ Later(window, last_it)
        /\ \A j \in Scanned : window[j].time <= end_time
        /\ sample_num = Cardinality({i \in Scanned : Later(window, i)})

\* The loop computes what Sampler assumes of it: hwinfo::sample_diff returns
\* the report WindowDiff states, for windows in any order of times.
Promise == INSTANCE WindowDiff WITH window <- window, outcome <- outcome,
                                    Undecided <- Undecided
PromiseKept == Promise!Spec
=============================================================================
