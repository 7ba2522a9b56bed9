----------------------------- MODULE MCSampler -----------------------------
(***************************************************************************)
(* Instances of Sampler for TLC.  MaxSamples is a number of whole windows; *)
(* the clock starts late enough to be set back by more than a window.      *)
(***************************************************************************)
EXTENDS Sampler

OneWindow == 6
TwoWindows == 11

\* An interface that was just created, a disk in use.
FreshOrUsed == {0, 1}

OverAWindow == 6 * UnitsPerSecond
=============================================================================
