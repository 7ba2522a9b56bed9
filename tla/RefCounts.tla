---------------------------- MODULE RefCounts ------------------------------
(***************************************************************************)
(* The rule of Core Foundation objects, for whoever uses them: an object   *)
(* is created with one retain and it is released only while it has one.    *)
(***************************************************************************)
EXTENDS Integers, Sequences

VARIABLE retains      \* retain counts, in the order of creation

Live(r) == r \in DOMAIN retains /\ retains[r] = 1

Init == retains = <<>>

\* One or two objects come into being.
Create == retains' \in {retains \o <<1>>, retains \o <<1, 1>>}

Release == \E S \in SUBSET (DOMAIN retains) :
              /\ \A r \in S : Live(r)
              /\ retains' = [r \in DOMAIN retains |-> IF r \in S THEN 0 ELSE retains[r]]

Spec == Init /\ [][Create \/ Release]_retains
=============================================================================
