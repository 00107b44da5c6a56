--------------------------- MODULE MCMaintenance ---------------------------
(* Small instances of Maintenance: each cfg chooses the calls that clients    *)
(* make.                                                                      *)
EXTENDS Maintenance, TLC

Symmetry == Permutations(Threads)
=============================================================================
