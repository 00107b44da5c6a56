---------------------------- MODULE MCPaperBook ----------------------------
(***************************************************************************)
(* Small instances of PaperBook.                                            *)
(***************************************************************************)
EXTENDS PaperBook, TLC

\* Two codes: the second is bought with what the first is sold for, or half
\* of each; the first may be held in exact units.
NoHold == 1 :> None @@ 2 :> None
Rotate == [w |-> 1 :> 0 @@ 2 :> 2, hold |-> NoHold]
KeepOne == [w |-> 1 :> 1 @@ 2 :> 1, hold |-> 1 :> 2 @@ 2 :> None]
TwoPlans == {Rotate, KeepOne}
TwoCodes == 1 :> 2 @@ 2 :> 0

\* The first code, both, or only the second and dearer than before.
SomeQuotes == {1 :> 1 @@ 2 :> 1, 1 :> 1 @@ 2 :> 0, 1 :> 0 @@ 2 :> 2}
=============================================================================
