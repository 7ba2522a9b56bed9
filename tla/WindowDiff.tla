---------------------------- MODULE WindowDiff -----------------------------
(***************************************************************************)
(* What hwinfo::sample_diff owes to its caller, in one step: a window has  *)
(* a report if it begins with a major sample and the first of its latest   *)
(* samples is another major one; the report covers the time between the    *)
(* two and says how many samples came in time order.                       *)
(***************************************************************************)
EXTENDS WindowScan

CONSTANT Undecided      \* no report object yet

VARIABLES
    window,      \* the samples between `begin` and `end`
    outcome      \* what the call returns

EmptyReport == [kind |-> "empty"]

FullReport(q) == [kind |-> "full", last |-> LastIndex(q),
                  start_time |-> q[1].time, end_time |-> q[LastIndex(q)].time,
                  sample_num |-> SampleNum(q)]

Result(q) == IF q # <<>> /\ Comparable(q) THEN FullReport(q) ELSE EmptyReport

Init == outcome = Undecided

Decide == /\ outcome = Undecided
          /\ outcome' = Result(window)
          /\ UNCHANGED window

Spec == Init /\ [][Decide]_<<window, outcome>>
=============================================================================
