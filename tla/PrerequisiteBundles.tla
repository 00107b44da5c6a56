------------------------- MODULE PrerequisiteBundles -------------------------
(* The state of scripts/common/prerequisite_lifecycle.py and what its runs    *)
(* are trusted with; their steps are in PrerequisiteStore.                    *)
EXTENDS Naturals

CONSTANTS Procs,       \* runs of the refresh
          Files,       \* the required files of a bundle
          Nothing,     \* the content of a file that is absent
          Legacy,      \* the content of the legacy tree's files
          MaxTrouble   \* bound on crashes, failed children and failed file operations

ASSUME ContentsDiffer == Legacy # Nothing /\ {Legacy, Nothing} \cap Procs = {}

Stages == {"V230", "R1"}
Contents == Procs \cup {Legacy}        \* a bootstrap's files are known by its run

VARIABLES target,   \* the published bundles: stage -> file -> content
          legacy,   \* the stages with a valid bundle in the legacy tree
          staging,  \* the staging directory of each run's promotion
          run,      \* each run: its place, stage, source and the bundles resolved
          trouble,  \* crashes and failures so far
          \* history
          overtaken, \* runs that replace a target which another run has published
                     \* since they found it invalid
          robbed     \* of a run under way: the stages whose valid bundle has been
                     \* taken away since it began, and not published again

Empty == [f \in Files |-> Nothing]
Valid(bundle) == \A f \in Files : bundle[f] # Nothing

----------------------------------------------------------------------------
(* "Never replace a valid protected asset."                                   *)
(* (prerequisite_lifecycle.py:75), as far as the code keeps it: whatever      *)
(* refreshes race or crash, a valid bundle under the fixed path is touched    *)
(* only by a run that found it invalid before another run published it.  No   *)
(* lock keeps such a run out (README); a refresh on its own never is one.     *)
ValidIsKept ==
    [][\A s \in Stages : Valid(target[s]) /\ target'[s] # target[s] =>
           \E p \in overtaken : run[p].at = "remove" /\ run[p].stage = s]_target

(* A published bundle, whole or torn, never mixes files of two sources (two   *)
(* bootstraps, or one and the legacy tree), whichever runs race in promote    *)
(* and wherever they die.  Proved (SharedHost_proofs!BundlesOfOneSource), not *)
(* in a run.                                                                  *)
OneSource == \A s \in Stages : \E c \in Contents : \A f \in Files :
                 target[s][f] \in {c, Nothing}

(* ensure() returns only while both bundles are there and valid, over every   *)
(* crash of earlier runs and beside any other run, but for a bundle that an   *)
(* overtaken run has taken away since.                                        *)
EnsuredIsValid == \A p \in Procs : run[p].at = "done" =>
                      \A s \in Stages \ robbed[p] : Valid(target[s])

(* Refreshes that are repeated get both bundles again and again, whatever     *)
(* they took from each other, also after a crash halfway through the removal  *)
(* of an invalid target.                                                      *)
EventuallyEnsured == []<>(\A s \in Stages : Valid(target[s]))
=============================================================================
