-------------------------- MODULE MCTerminalOutput --------------------------
(***************************************************************************)
(* Instances of TerminalOutput for TLC.                                    *)
(***************************************************************************)
EXTENDS TerminalOutput

Size(y, x) == [y |-> y, x |-> x]

OneSize == {Size(24, 80)}

\* Every display type, two of them in two sizes.
AllTypes == {Size(20, 80), Size(22, 80), Size(24, 90), Size(24, 140),
             Size(40, 150)}
=============================================================================
