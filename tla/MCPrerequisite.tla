--------------------------- MODULE MCPrerequisite ---------------------------
(* Small instances of PrerequisiteStore: two refreshes at once, each of which *)
(* is run again and again, two files per bundle and three troubles.           *)
EXTENDS PrerequisiteStore
=============================================================================
