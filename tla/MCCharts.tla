------------------------------ MODULE MCCharts ------------------------------
(***************************************************************************)
(* Instances of Charts for TLC.                                            *)
(***************************************************************************)
EXTENDS Charts

\* Too low, too narrow, just large enough for one bar and for some.
SmallWindows == {[y |-> y, x |-> x] : y \in {4, 5, 9}, x \in {8, 13, 14, 15, 16}}
=============================================================================
