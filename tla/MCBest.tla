------------------------------- MODULE MCBest -------------------------------
(***************************************************************************)
(* Small instances of BestExecution.                                        *)
(***************************************************************************)
EXTENDS BestExecution, TLC
CONSTANTS c1, c2

\* The first code is held, the second is not.
HoldsFirst == {c1 :> 2 @@ c2 :> 0}
WholeTwice == [r \in Routes |-> IF r = "whole" THEN 2 ELSE 1]
Twice == [r \in Routes |-> 2]
=============================================================================
