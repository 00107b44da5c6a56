---------------------------- MODULE MCRegistry ----------------------------
(* Five patches: a bootstrap, the end of an entity, and three that want to  *)
(* take something back: an upsert that names a status and no failures,      *)
(* which would revive a closed entity and make the count of an open one     *)
(* smaller, an update that makes the count unknown, and an alias of another *)
(* entity.  With three heads each of them meets a history after the close.  *)
EXTENDS ResearchRegistry, TLC

CONSTANTS e1, e2, a1

Op(name, e) == [op |-> name, entity |-> e]
Some(b, ops) == [boot |-> b, ops |-> ops]
SomePatches ==
    {Some(TRUE, <<Op("add", e1) @@ [status |-> "OPEN", fails |-> 1], Op("add", e2) @@ [status |-> "OPEN"],
                  Op("alias", e1) @@ [alias |-> a1]>>),
     Some(FALSE, <<Op("upsert", e1) @@ [status |-> "OPEN", fails |-> 0]>>),
     Some(FALSE, <<Op("update", e1) @@ [fails |-> None]>>),
     Some(FALSE, <<Op("alias", e2) @@ [alias |-> a1]>>),
     Some(FALSE, <<Op("close", e1)>>)}
Symmetry == Permutations(Writers)
=============================================================================
