--------------------------- MODULE MCForwardShadow ---------------------------
(* Instances of ForwardShadow for TLC. *)
EXTENDS ForwardShadow, TLC

CONSTANTS p1, p2, k1, k2
TwoProcs == Permutations({p1, p2})
TwoKeys == Permutations({k1, k2})
Symmetry == TwoProcs \cup TwoKeys
=============================================================================
