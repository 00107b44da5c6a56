------------------------- MODULE PrerequisiteStore -------------------------
(* scripts/common/prerequisite_lifecycle.py: ensure() finds two prerequisite  *)
(* bundles, migrates them from a legacy tree or bootstraps them, and promote  *)
(* publishes each under a fixed path: copy into a staging directory, remove   *)
(* an invalid target file by file, rename.  Runs of the one-click refresh     *)
(* (v22_040) call it without a lock, so several may be inside, and any may    *)
(* crash between two file operations.  The operators named ...Not are         *)
(* plausible bugs.                                                            *)
EXTENDS PrerequisiteBundles

NoRun == [at |-> "idle", stage |-> "V230", source |-> Legacy, got |-> {}]

history == <<overtaken, robbed>>
vars == <<target, legacy, staging, run, trouble, history>>

Init == /\ target \in [Stages -> {Empty, [f \in Files |-> Legacy]} \cup
                                 {[Empty EXCEPT ![f] = Legacy] : f \in Files}]
        /\ legacy \in SUBSET Stages
        /\ staging = [p \in Procs |-> Empty]
        /\ run = [p \in Procs |-> NoRun]
        /\ trouble = 0
        /\ overtaken = {} /\ robbed = [p \in Procs |-> {}]

Go(p, place) == run' = [run EXCEPT ![p].at = place]

Start(p) ==
    /\ run[p].at = "idle"
    /\ run' = [run EXCEPT ![p] = [NoRun EXCEPT !.at = "resolve"]]
    /\ UNCHANGED <<target, legacy, staging, trouble, history>>

(* Where ensure() goes when the bundles got of the stages up to s are there:  *)
(* resolve both, then return, or run the bootstrap's children.                *)
BothNot(got) == got # {}
Both(got) == got = Stages
Resolved(p, got) ==
    LET s == run[p].stage
    IN  run' = [run EXCEPT ![p] = [@ EXCEPT !.got = got, !.stage = "R1",
                    !.at = CASE s = "V230" -> "resolve"
                             [] s = "R1" /\ Both(got) -> "done"
                             [] OTHER -> "children"]]

(* resolve: the published bundle if it is valid, else the legacy one, promoted.*)
Resolve(p) ==
    /\ run[p].at = "resolve"
    /\ LET s == run[p].stage
       IN  CASE Valid(target[s]) -> Resolved(p, run[p].got \cup {s})
             [] ~Valid(target[s]) /\ s \in legacy ->
                  run' = [run EXCEPT ![p] = [@ EXCEPT !.at = "promote", !.source = Legacy]]
             [] OTHER -> Resolved(p, run[p].got)
    /\ UNCHANGED <<target, legacy, staging, trouble, history>>

(* Both children of the bootstrap succeed with valid bundles.                 *)
Children(p) ==
    /\ run[p].at = "children"
    /\ run' = [run EXCEPT ![p] = [@ EXCEPT !.at = "promote", !.source = p, !.stage = "V230"]]
    /\ UNCHANGED <<target, legacy, staging, trouble, history>>

(* What follows a promotion: resolve goes on, the bootstrap promotes R1.      *)
Promoted(p) ==
    IF run[p].source = Legacy
    THEN Resolved(p, run[p].got \cup {run[p].stage})
    ELSE run' = [run EXCEPT ![p] = [@ EXCEPT !.stage = "R1",
                    !.at = IF run[p].stage = "V230" THEN "promote" ELSE "done"]]

(* promote: a valid target is returned as it is, ...                          *)
KeepsNever(p) == FALSE
Keeps(p) == Valid(target[run[p].stage])

Promote(p) ==
    /\ run[p].at = "promote"
    /\ IF Keeps(p) THEN Promoted(p) ELSE Go(p, "copy")
    /\ UNCHANGED <<target, legacy, staging, trouble, history>>

(* ... else the source is copied into a directory with a name of its own, ... *)
Slot(p) == p

Copy(p) ==
    /\ run[p].at = "copy"
    /\ \/ \E f \in Files : /\ staging[Slot(p)][f] = Nothing
                           /\ staging' = [staging EXCEPT ![Slot(p)][f] = run[p].source]
                           /\ UNCHANGED run
       \/ Valid(staging[Slot(p)]) /\ Go(p, "remove") /\ UNCHANGED staging
    /\ UNCHANGED <<target, legacy, trouble, history>>

(* ... what exists at the target goes, file by file in any order, ...         *)
GoneNot(p) == TRUE
Gone(p) == target[run[p].stage] = Empty

\* History: if the bundle was valid, every run under way has lost it.
Robs(s) ==
    robbed' = [q \in Procs |-> IF Valid(target[s]) /\ run[q].at # "idle"
                               THEN robbed[q] \cup {s} ELSE robbed[q]]

Remove(p) ==
    /\ run[p].at = "remove"
    /\ LET s == run[p].stage
       IN  \/ \E f \in Files : /\ target[s][f] # Nothing
                               /\ target' = [target EXCEPT ![s] = [@ EXCEPT ![f] = Nothing]]
                               /\ Robs(s)
                               /\ UNCHANGED run
           \/ Gone(p) /\ Go(p, "rename") /\ UNCHANGED <<target, robbed>>
    /\ UNCHANGED <<legacy, staging, trouble, overtaken>>

(* ... and the staging directory takes its name, which must be free.          *)
\* History: nobody misses the bundle any more, and whoever else is replacing
\* it found it invalid too early.
Publishes(p) ==
    LET s == run[p].stage
    IN  /\ overtaken' = (overtaken \ {p}) \cup
               {q \in Procs \ {p} : /\ run[q].at \in {"copy", "remove", "rename"}
                                    /\ run[q].stage = s}
        /\ robbed' = [q \in Procs |-> robbed[q] \ {s}]

Rename(p) ==
    /\ run[p].at = "rename"
    /\ target[run[p].stage] = Empty
    /\ target' = [target EXCEPT ![run[p].stage] = staging[Slot(p)]]
    /\ staging' = [staging EXCEPT ![Slot(p)] = Empty]
    /\ Promoted(p)
    /\ Publishes(p)
    /\ UNCHANGED <<legacy, trouble>>

(* ensure() returned; the refresh goes on and a later one may begin.          *)
Return(p) ==
    /\ run[p].at = "done"
    /\ run' = [run EXCEPT ![p] = NoRun]
    /\ robbed' = [robbed EXCEPT ![p] = {}]
    /\ UNCHANGED <<target, legacy, staging, trouble, overtaken>>

(* A crash, a child that fails or whose bundle is refused, a file operation   *)
(* that raises (always so when the name to rename to is taken): the run ends, *)
(* its staging directory stays behind under a name nobody uses again.         *)
Breaks(p) ==
    /\ run[p].at \notin {"idle", "done"}
    /\ \/ trouble < MaxTrouble /\ trouble' = trouble + 1
       \/ run[p].at = "rename" /\ target[run[p].stage] # Empty /\ UNCHANGED trouble
    /\ run' = [run EXCEPT ![p] = NoRun]
    /\ staging' = [staging EXCEPT ![p] = Empty]
    /\ overtaken' = overtaken \ {p}
    /\ robbed' = [robbed EXCEPT ![p] = {}]
    /\ UNCHANGED <<target, legacy>>

Ensure(p) == \/ Start(p) \/ Resolve(p) \/ Children(p) \/ Promote(p) \/ Copy(p)
             \/ Remove(p) \/ Rename(p) \/ Return(p)

Next == \E p \in Procs : Ensure(p) \/ Breaks(p)

Spec == Init /\ [][Next]_vars

(* The refresh is run again after a run that broke, and a run goes on.        *)
FairSpec == Spec /\ \A p \in Procs : WF_vars(Ensure(p))

----------------------------------------------------------------------------
(* The type invariant.                                                        *)
TypeOK == /\ target \in [Stages -> [Files -> Contents \cup {Nothing}]]
          /\ legacy \subseteq Stages
          /\ staging \in [Procs -> [Files -> Contents \cup {Nothing}]]
          /\ run \in [Procs -> [at : {"idle", "resolve", "children", "promote", "copy",
                                      "remove", "rename", "done"},
                                stage : Stages, source : Contents, got : SUBSET Stages]]
          /\ trouble \in 0..MaxTrouble
          /\ overtaken \subseteq Procs
          /\ robbed \in [Procs -> SUBSET Stages]
=============================================================================
