--------------------------- MODULE MCWorkerLease ---------------------------
(* Small instances of WorkerLease. *)
EXTENDS WorkerLease, TLC

Symmetry == Permutations(Callers) \cup Permutations(Jobs)
=============================================================================
