--------------------------- MODULE ReportCadence ---------------------------
(***************************************************************************)
(* What the sampler promises to the loops that drive it, and nothing of    *)
(* how it does so: one report (one call of the callback) falls due with    *)
(* the 6th sample, then with every 5th one after it (the 11th, the 16th,   *)
(* ...), because two consecutive windows share their boundary sample.      *)
(***************************************************************************)
EXTENDS Naturals

VARIABLES
    taken,      \* samples pushed so far
    reports     \* reports delivered so far

cadence == <<taken, reports>>

\* The sample that comes after `taken` completes a window.
Due == taken + 1 = 5 * reports + 6

Init == taken = 0 /\ reports = 0

Sample == /\ taken' = taken + 1
          /\ reports' = IF Due THEN reports + 1 ELSE reports

Spec == Init /\ [][Sample]_cadence

=============================================================================
