------------------------- MODULE SharedHost_proofs -------------------------
(***************************************************************************)
(* Proofs about what the processes of one host share.  The worker slot of   *)
(* WorkerLease: it is exclusive for heavy process trees, a published        *)
(* quarantine keeps it, and a cancel() that returned is proof.  The bundles *)
(* of PrerequisiteStore, under the name Store: they are of one source, a    *)
(* valid one is taken away by an overtaken run only, and what ensure()      *)
(* returned is valid unless it was so taken away.                           *)
(***************************************************************************)
EXTENDS WorkerLease, PrerequisiteBundles, TLAPS

(* A job and a heavy call own the slot from acquire to release; a light call  *)
(* passes through the same places without it.                                 *)
Owns(t) == /\ t \in Jobs \/ stage[t] = "call"
           /\ pc[t] \in {"check", "child", "publish", "retain", "leave", "release"}

JobStages == \A j \in Jobs : pc[j] # "idle" => stage[j] \in {"legacy", "reader", "main"}
CallStages == \A t \in Callers :
                /\ stage[t] \in {"call", "status"}
                /\ pc[t] \in {"acquire", "leave", "release", "recheck"} => stage[t] = "call"
OwnerHolds == \A t \in Threads : Owns(t) => locked
OneOwner == \A t, u \in Threads : Owns(t) /\ Owns(u) => t = u
LostIsPublished == \A t \in lost : pc[t] = "publish" \/ quarantined
LostHasSlot == \A t \in lost : /\ pc[t] \in {"publish", "retain", "leave", "idle", "done"}
                               /\ stage[t] \in Heavy =>
                                    /\ locked
                                    /\ \A u \in Threads : Owns(u) => u = t
OneLost == \A t, u \in lost : stage[t] \in Heavy /\ stage[u] \in Heavy => t = u
CancelledIsDone == \A j \in cancelled : pc[j] = "done" /\ j \notin lost

IInv == /\ TypeOK
        /\ JobStages
        /\ CallStages
        /\ OwnerHolds
        /\ OneOwner
        /\ LostIsPublished
        /\ LostHasSlot
        /\ OneLost
        /\ CancelledIsDone
        /\ QuarantineKeepsSlot

(* A running heavy child owns the slot, so the invariant forbids two trees.   *)
LEMMA InvariantIsEnough == IInv => OneHeavyTree /\ CancelIsProof
<1> SUFFICES ASSUME IInv PROVE OneHeavyTree /\ CancelIsProof
  OBVIOUS
<1> USE DEF IInv
<1>1. ASSUME NEW t \in Threads, HeavyTree(t), t \notin lost
      PROVE  Owns(t)
  BY <1>1, ThreadsAreDistinct DEF HeavyTree, Owns, CallStages, Threads, Heavy
<1>2. ASSUME NEW t \in Threads, NEW u \in Threads, HeavyTree(t), HeavyTree(u)
      PROVE  t = u
  <2>1. CASE t \notin lost /\ u \notin lost
    BY <2>1, <1>1, <1>2 DEF OneOwner
  <2>2. CASE t \in lost /\ u \notin lost
    BY <2>2, <1>1, <1>2 DEF LostHasSlot, HeavyTree
  <2>3. CASE t \notin lost /\ u \in lost
    BY <2>3, <1>1, <1>2 DEF LostHasSlot, HeavyTree
  <2>4. CASE t \in lost /\ u \in lost
    BY <2>4, <1>2 DEF OneLost, HeavyTree
  <2> QED BY <2>1, <2>2, <2>3, <2>4
<1>3. OneHeavyTree
  BY <1>2 DEF OneHeavyTree
<1>4. CancelIsProof
  BY DEF CancelIsProof, CancelledIsDone
<1> QED BY <1>3, <1>4

(* Initially nobody is inside and nothing is lost.                            *)
LEMMA InitIInv == Init => IInv
BY DEF Init, IInv, TypeOK, JobStages, CallStages, OwnerHolds, OneOwner, LostIsPublished,
  LostHasSlot, OneLost, CancelledIsDone, QuarantineKeepsSlot, Owns, Places, Heavy, Light, Threads

(* Every step of every thread and of the owner of a job preserves IInv.       *)
LEMMA StepIInv == IInv /\ [Next]_vars => IInv'
<1> SUFFICES ASSUME IInv, [Next]_vars PROVE IInv'
  OBVIOUS
<1> USE ThreadsAreDistinct DEF IInv, TypeOK, JobStages, CallStages, OwnerHolds, OneOwner,
      LostIsPublished, LostHasSlot, OneLost, CancelledIsDone, QuarantineKeepsSlot,
      Owns, Go, Places, Heavy, Light, Threads
<1>1. ASSUME NEW t \in Threads, Admit(t) PROVE IInv'
  BY <1>1, SMTT(60) DEF Admit
<1>2. ASSUME NEW t \in Threads, Acquire(t) PROVE IInv'
  BY <1>2, SMTT(60) DEF Acquire
<1>3. ASSUME NEW t \in Threads, GiveUp(t) PROVE IInv'
  BY <1>3, SMTT(60) DEF GiveUp
<1>4. ASSUME NEW t \in Threads, Check(t) PROVE IInv'
  BY <1>4, SMTT(60) DEF Check
<1>5. ASSUME NEW t \in Threads, ChildEnds(t) PROVE IInv'
  BY <1>5, SMTT(60) DEF ChildEnds
<1>6. ASSUME NEW t \in Threads, ChildIsLost(t) PROVE IInv'
  BY <1>6, SMTT(60) DEF ChildIsLost
<1>7. ASSUME NEW t \in Threads, Publish(t) PROVE IInv'
  BY <1>7, SMTT(60) DEF Publish
<1>8. ASSUME NEW t \in Threads, Retain(t) PROVE IInv'
  BY <1>8, SMTT(60) DEF Retain
<1>9. ASSUME NEW t \in Threads, Leave(t) PROVE IInv'
  BY <1>9, SMTT(60) DEF Leave, After
<1>10. ASSUME NEW t \in Threads, Release(t) PROVE IInv'
  <2>1. Owns(t) /\ t \notin lost
    BY <1>10 DEF Release
  <2>2. \A u \in lost : stage[u] \notin Heavy
    BY <2>1
  <2>3. \A u \in Threads : Owns(u)' => Owns(u) /\ u # t
    BY <1>10 DEF Release
  <2>4. TypeOK' /\ JobStages' /\ CallStages'
    BY <1>10 DEF Release
  <2>5. OwnerHolds' /\ OneOwner'
    BY <1>10, <2>1, <2>3 DEF Release
  <2>6. LostIsPublished' /\ LostHasSlot' /\ OneLost' /\ CancelledIsDone'
    BY <1>10, <2>1, <2>2 DEF Release
  <2>7. QuarantineKeepsSlot'
    <3>1. pc'[t] = "recheck"
      BY <1>10 DEF Release
    <3> QED BY <3>1
  <2> QED BY <2>4, <2>5, <2>6, <2>7
<1>11. ASSUME NEW t \in Threads, Recheck(t) PROVE IInv'
  BY <1>11, SMTT(60) DEF Recheck, After
<1>12. ASSUME NEW j \in Jobs, Cancel(j) PROVE IInv'
  BY <1>12 DEF Cancel
<1>13. ASSUME NEW j \in Jobs, CancelReturns(j) PROVE IInv'
  BY <1>13 DEF CancelReturns
<1>14. ASSUME NEW j \in Jobs, Poll(j) PROVE IInv'
  BY <1>14 DEF Poll
<1>15. ASSUME NEW j \in Jobs, PollReturns(j) PROVE IInv'
  BY <1>15 DEF PollReturns
<1>17. ASSUME NEW t \in Threads, Refuse(t) PROVE IInv'
  BY <1>17 DEF Refuse
<1>16. CASE UNCHANGED vars
  BY <1>16 DEF vars
<1> QED
  BY <1>1, <1>2, <1>3, <1>4, <1>5, <1>6, <1>7, <1>8, <1>9, <1>10, <1>11, <1>12, <1>13, <1>14, <1>15, <1>16, <1>17 DEF Next, Run

(* The type invariant, for any sets of callers and jobs.                      *)
THEOREM SlotTypes == Spec => []TypeOK
<1>1. IInv => TypeOK
  BY DEF IInv
<1> QED
  BY <1>1, InitIInv, StepIInv, PTL DEF Spec

(* Never two heavy process trees, those that were lost included: a new one    *)
(* needs the lock, and the thread that lost a tree never gives it back.       *)
THEOREM HeavyTreesAreAlone == Spec => []OneHeavyTree
BY InitIInv, StepIInv, InvariantIsEnough, PTL DEF Spec

(* The quarantine, published by any thread at any point of another's release, *)
(* ends with the slot taken.                                                  *)
THEOREM SlotStaysTaken == Spec => []QuarantineKeepsSlot
<1>1. IInv => QuarantineKeepsSlot
  BY DEF IInv
<1> QED
  BY <1>1, InitIInv, StepIInv, PTL DEF Spec

(* A cancel() that returned proves that the job's own process tree ended.     *)
THEOREM CancelProvesCleanup == Spec => []CancelIsProof
BY InitIInv, StepIInv, InvariantIsEnough, PTL DEF Spec

----------------------------------------------------------------------------
(* The runs of PrerequisiteStore on the bundles.                              *)
Store == INSTANCE PrerequisiteStore

(* The types, but for the count of troubles, which bounds TLC and no more.    *)
Runs == [at : {"idle", "resolve", "children", "promote", "copy", "remove", "rename", "done"},
         stage : Store!Stages, source : Store!Contents, got : SUBSET Store!Stages]
Types == /\ target \in [Store!Stages -> [Files -> Store!Contents \cup {Nothing}]]
         /\ staging \in [Procs -> [Files -> Store!Contents \cup {Nothing}]]
         /\ run \in [Procs -> Runs]

(* What a promotion has staged is its own, ...                                *)
Moving == {"copy", "remove", "rename"}
OwnFiles == \A p \in Procs :
                IF run[p].at \in Moving
                THEN \A f \in Files : staging[p][f] \in {run[p].source, Nothing}
                ELSE staging[p] = Store!Empty

(* ... and whole before the target is touched.                                *)
StagedIsWhole == \A p \in Procs :
                     run[p].at \in {"remove", "rename"} => Store!Valid(staging[p])

StoreInv == /\ Types
            /\ OwnFiles
            /\ StagedIsWhole
            /\ Store!OneSource

(* What a run knows of the published bundles, whatever the others do: unless  *)
(* it was overtaken it moves only what is invalid, and what it has resolved   *)
(* or promoted so far is valid, or was taken away since.                      *)
Safe(q, s) == s \in robbed[q] \/ Store!Valid(target[s])

Histories == robbed \in [Procs -> SUBSET Store!Stages] /\ overtaken \subseteq Procs
IdleIsNoRun == \A p \in Procs : run[p].at = "idle" => run[p] = Store!NoRun
OnlyInvalid == \A p \in Procs : run[p].at \in Moving /\ p \notin overtaken =>
                   ~Store!Valid(target[run[p].stage])
GotIsSafe == \A p \in Procs : \A s \in run[p].got : Safe(p, s)
FirstIsSafe == \A p \in Procs :
                   run[p].source # Legacy /\ run[p].stage = "R1" => Safe(p, "V230")
DoneIsSafe == \A p \in Procs : run[p].at = "done" => \A s \in Store!Stages : Safe(p, s)

ResolvesFirst == \A p \in Procs : run[p].at = "resolve" => run[p].source = Legacy

Knowledge == /\ Histories
             /\ IdleIsNoRun
             /\ ResolvesFirst
             /\ OnlyInvalid
             /\ GotIsSafe
             /\ FirstIsSafe
             /\ DoneIsSafe

LEMMA StoreStarts == Store!Init => StoreInv /\ Knowledge
<1> SUFFICES ASSUME Store!Init PROVE StoreInv /\ Knowledge
  OBVIOUS
<1> USE DEF Store!Init, Store!NoRun, Store!Empty, Store!Stages, Store!Contents
<1>1. Types
  <2>1. target \in [{"V230", "R1"} -> [Files -> Procs \cup {Legacy} \cup {Nothing}]]
    OBVIOUS
  <2>2. staging \in [Procs -> [Files -> Procs \cup {Legacy} \cup {Nothing}]]
    OBVIOUS
  <2> QED BY <2>1, <2>2 DEF Types, Runs
<1>2. OwnFiles /\ StagedIsWhole
  BY DEF OwnFiles, StagedIsWhole, Moving
<1>3. Store!OneSource
  <2>1. \A s \in Store!Stages : \A f \in Files : target[s][f] \in {Legacy, Nothing}
    OBVIOUS
  <2> QED BY <2>1 DEF Store!OneSource
<1>4. Knowledge
  BY DEF Knowledge, Histories, IdleIsNoRun, ResolvesFirst, OnlyInvalid, GotIsSafe,
         FirstIsSafe, DoneIsSafe, Moving
<1> QED BY <1>1, <1>2, <1>3, <1>4 DEF StoreInv

(* A step is one run's: the others stay where they are.                       *)
LEMMA OneRunMoves ==
    ASSUME Types, NEW p \in Procs, Store!Ensure(p) \/ Store!Breaks(p)
    PROVE  /\ run'[p] \in Runs
           /\ run' = [run EXCEPT ![p] = run'[p]]
           /\ \A q \in Procs : q # p => run'[q] = run[q] /\ staging'[q] = staging[q]
<1>1. run[p] \in Runs /\ run \in [Procs -> Runs]
  BY DEF Types
<1>2. ASSUME NEW r \in Runs, run' = [run EXCEPT ![p] = r]
      PROVE  /\ run'[p] \in Runs /\ run' = [run EXCEPT ![p] = run'[p]]
             /\ \A q \in Procs : q # p => run'[q] = run[q]
  BY <1>2, <1>1
<1>3. run' = run => /\ run'[p] \in Runs /\ run' = [run EXCEPT ![p] = run'[p]]
                     /\ \A q \in Procs : q # p => run'[q] = run[q]
  BY <1>1
<1>4. ASSUME NEW place \in {"copy", "remove", "rename"}, Store!Go(p, place)
        PROVE  /\ run'[p] \in Runs /\ run' = [run EXCEPT ![p] = run'[p]]
               /\ \A q \in Procs : q # p => run'[q] = run[q]
  <2> DEFINE r == [run[p] EXCEPT !.at = place]
  <2>1. r \in Runs
    BY <1>1 DEF Runs
  <2>2. run' = [run EXCEPT ![p] = r]
    BY <1>4 DEF Store!Go
  <2> HIDE DEF r
  <2> QED BY <2>1, <2>2, <1>2
<1>5. ASSUME NEW got \in SUBSET Store!Stages, Store!Resolved(p, got)
      PROVE  /\ run'[p] \in Runs /\ run' = [run EXCEPT ![p] = run'[p]]
             /\ \A q \in Procs : q # p => run'[q] = run[q]
  <2> DEFINE at == CASE run[p].stage = "V230" -> "resolve"
                     [] run[p].stage = "R1" /\ Store!Both(got) -> "done"
                     [] OTHER -> "children"
  <2>1. at \in {"resolve", "done", "children"}
    BY <1>1 DEF Runs, Store!Stages
  <2> HIDE DEF at
  <2>2. run' = [run EXCEPT ![p] = [run[p] EXCEPT !.got = got, !.stage = "R1", !.at = at]]
    BY <1>5 DEF Store!Resolved, at
  <2>3. [run[p] EXCEPT !.got = got, !.stage = "R1", !.at = at] \in Runs
    BY <1>1, <2>1 DEF Runs, Store!Stages
  <2> QED BY <2>2, <2>3, <1>2
<1>6. ASSUME Store!Promoted(p)
      PROVE  /\ run'[p] \in Runs /\ run' = [run EXCEPT ![p] = run'[p]]
             /\ \A q \in Procs : q # p => run'[q] = run[q]
  <2>1. CASE run[p].source = Legacy
    <3>1. run[p].got \cup {run[p].stage} \in SUBSET Store!Stages
      BY <1>1 DEF Runs
    <3> QED BY <3>1, <2>1, <1>6, <1>5 DEF Store!Promoted
  <2>2. CASE run[p].source # Legacy
    <3> DEFINE r == [run[p] EXCEPT !.stage = "R1",
                        !.at = IF run[p].stage = "V230" THEN "promote" ELSE "done"]
    <3>1. r \in Runs
      BY <1>1 DEF Runs, Store!Stages
    <3>2. run' = [run EXCEPT ![p] = r]
      BY <2>2, <1>6 DEF Store!Promoted
    <3> HIDE DEF r
    <3> QED BY <3>1, <3>2, <1>2
  <2> QED BY <2>1, <2>2
<1>7. CASE Store!Start(p)
  <2> DEFINE r == [Store!NoRun EXCEPT !.at = "resolve"]
  <2>1. r \in Runs
    BY DEF Runs, Store!NoRun, Store!Stages, Store!Contents
  <2> HIDE DEF r
  <2> QED BY <2>1, <1>7, <1>2 DEF Store!Start, r
<1>8. CASE Store!Resolve(p)
  <2>1. run[p].got \cup {run[p].stage} \in SUBSET Store!Stages /\ run[p].got \in SUBSET Store!Stages
    BY <1>1 DEF Runs
  <2>2. CASE run' = [run EXCEPT ![p] = [@ EXCEPT !.at = "promote", !.source = Legacy]]
    <3>1. [run[p] EXCEPT !.at = "promote", !.source = Legacy] \in Runs
      BY <1>1 DEF Runs, Store!Contents
    <3>2. run' = [run EXCEPT ![p] = [run[p] EXCEPT !.at = "promote", !.source = Legacy]]
      BY <2>2
    <3> QED BY <3>1, <3>2, <1>2, <1>8 DEF Store!Resolve
  <2>3. CASE Store!Resolved(p, run[p].got \cup {run[p].stage})
    BY <2>1, <2>3, <1>5, <1>8 DEF Store!Resolve
  <2>4. CASE Store!Resolved(p, run[p].got)
    BY <2>1, <2>4, <1>5, <1>8 DEF Store!Resolve
  <2> QED BY <2>2, <2>3, <2>4, <1>8 DEF Store!Resolve
<1>9. CASE Store!Children(p)
  <2>1. [run[p] EXCEPT !.at = "promote", !.source = p, !.stage = "V230"] \in Runs
    BY <1>1 DEF Runs, Store!Stages, Store!Contents
  <2>2. run' = [run EXCEPT ![p] = [run[p] EXCEPT !.at = "promote", !.source = p,
                                                 !.stage = "V230"]]
    BY <1>9 DEF Store!Children
  <2> QED BY <2>1, <2>2, <1>2, <1>9 DEF Store!Children
<1>10. CASE Store!Promote(p)
  BY <1>10, <1>4, <1>6 DEF Store!Promote
<1>11. CASE Store!Copy(p)
  <2>1. \A q \in Procs : q # p => staging'[q] = staging[q]
    BY <1>11 DEF Store!Copy, Store!Slot, Types
  <2> QED BY <2>1, <1>11, <1>4, <1>3 DEF Store!Copy
<1>12. CASE Store!Remove(p)
  BY <1>12, <1>4, <1>3 DEF Store!Remove
<1>13. CASE Store!Rename(p)
  BY <1>13, <1>6 DEF Store!Rename, Store!Slot, Types
<1>14. CASE Store!Return(p) \/ Store!Breaks(p)
  <2>1. Store!NoRun \in Runs
    BY DEF Runs, Store!NoRun, Store!Stages, Store!Contents
  <2>2. \A q \in Procs : q # p => staging'[q] = staging[q]
    BY <1>14 DEF Store!Return, Store!Breaks, Types
  <2> QED BY <2>1, <2>2, <1>14, <1>2 DEF Store!Return, Store!Breaks
<1> QED BY <1>7, <1>8, <1>9, <1>10, <1>11, <1>12, <1>13, <1>14 DEF Store!Ensure

(* Where ensure() goes on after a resolve and after a promotion.              *)
LEMMA ResolvedRun ==
    ASSUME Types, NEW p \in Procs, NEW got, Store!Resolved(p, got)
    PROVE  /\ run'[p].got = got
           /\ run'[p].stage = "R1"
           /\ run'[p].source = run[p].source
           /\ run'[p].at \in {"resolve", "children", "done"}
           /\ run'[p].at = "done" => got = Store!Stages
<1> DEFINE at == CASE run[p].stage = "V230" -> "resolve"
                   [] run[p].stage = "R1" /\ Store!Both(got) -> "done"
                   [] OTHER -> "children"
<1>1. run[p] \in Runs /\ run \in [Procs -> Runs]
  BY DEF Types
<1>2. at \in {"resolve", "children", "done"} /\ (at = "done" => got = Store!Stages)
  BY <1>1 DEF Runs, Store!Stages, Store!Both
<1> HIDE DEF at
<1>3. run'[p] = [run[p] EXCEPT !.got = got, !.stage = "R1", !.at = at]
  BY <1>1 DEF Store!Resolved, at
<1> QED BY <1>1, <1>2, <1>3 DEF Runs

LEMMA PromotedRun ==
    ASSUME Types, NEW p \in Procs, Store!Promoted(p)
    PROVE  /\ run'[p].stage = "R1"
           /\ run'[p].source = run[p].source
           /\ run'[p].at \in {"resolve", "children", "promote", "done"}
           /\ run'[p].got \subseteq run[p].got \cup {run[p].stage}
           /\ run'[p].at = "done" =>
                \/ run'[p].got = Store!Stages
                \/ run[p].source # Legacy /\ run[p].stage = "R1"
           /\ run'[p].at = "resolve" => run[p].source = Legacy
<1>1. run[p] \in Runs /\ run \in [Procs -> Runs]
  BY DEF Types
<1>2. CASE run[p].source = Legacy
  BY <1>1, <1>2, ResolvedRun DEF Store!Promoted
<1>3. CASE run[p].source # Legacy
  <2>1. run'[p] = [run[p] EXCEPT !.stage = "R1",
                       !.at = IF run[p].stage = "V230" THEN "promote" ELSE "done"]
    BY <1>1, <1>3 DEF Store!Promoted
  <2> QED BY <1>1, <1>3, <2>1 DEF Runs, Store!Stages
<1> QED BY <1>2, <1>3

(* Up to the copy and after the rename nothing is staged, and the published   *)
(* files do not move.                                                         *)
LEMMA QuietStep ==
    ASSUME Types, NEW p \in Procs,
           \/ Store!Start(p) \/ Store!Resolve(p) \/ Store!Children(p)
           \/ Store!Promote(p) \/ Store!Return(p)
    PROVE  /\ UNCHANGED <<target, staging>>
           /\ run[p].at \notin Moving
           /\ run'[p].at \notin {"remove", "rename"}
           /\ run'[p].at = "copy" => /\ run' = [run EXCEPT ![p].at = "copy"]
                                     /\ ~Store!Valid(target[run[p].stage])
<1>1. run[p] \in Runs /\ run \in [Procs -> Runs]
  BY DEF Types
<1>2. CASE Store!Start(p)
  BY <1>1, <1>2 DEF Store!Start, Store!NoRun, Moving
<1>3. CASE Store!Resolve(p)
  <2>1. CASE run' = [run EXCEPT ![p] = [@ EXCEPT !.at = "promote", !.source = Legacy]]
    BY <1>1, <1>3, <2>1 DEF Store!Resolve, Moving, Runs
  <2>2. CASE \E got \in {run[p].got, run[p].got \cup {run[p].stage}} :
               Store!Resolved(p, got)
    BY <1>3, <2>2, ResolvedRun DEF Store!Resolve, Moving
  <2> QED BY <1>3, <2>1, <2>2 DEF Store!Resolve
<1>4. CASE Store!Children(p)
  BY <1>1, <1>4 DEF Store!Children, Moving, Runs
<1>5. CASE Store!Promote(p)
  <2>1. CASE Store!Keeps(p)
    BY <1>1, <1>5, <2>1, PromotedRun DEF Store!Promote, Moving
  <2>2. CASE ~Store!Keeps(p)
    BY <1>1, <1>5, <2>2 DEF Store!Promote, Store!Keeps, Store!Go, Moving, Runs
  <2> QED BY <2>1, <2>2
<1>6. CASE Store!Return(p)
  BY <1>1, <1>6 DEF Store!Return, Store!NoRun, Moving
<1> QED BY <1>2, <1>3, <1>4, <1>5, <1>6

LEMMA StoreStep ==
    ASSUME StoreInv, NEW p \in Procs, Store!Ensure(p) \/ Store!Breaks(p)
    PROVE  StoreInv'
<1>1. Types /\ run[p] \in Runs /\ run \in [Procs -> Runs]
  BY DEF StoreInv, Types
<1>2. /\ run'[p] \in Runs /\ run' \in [Procs -> Runs]
      /\ \A q \in Procs : q # p => run'[q] = run[q] /\ staging'[q] = staging[q]
  BY <1>1, OneRunMoves
<1>3. ASSUME target' \in [Store!Stages -> [Files -> Store!Contents \cup {Nothing}]],
             staging' \in [Procs -> [Files -> Store!Contents \cup {Nothing}]],
             IF run'[p].at \in Moving
             THEN \A f \in Files : staging'[p][f] \in {run'[p].source, Nothing}
             ELSE staging'[p] = Store!Empty,
             run'[p].at \in {"remove", "rename"} => Store!Valid(staging'[p]),
             Store!OneSource'
      PROVE  StoreInv'
  <2>1. Types'
    BY <1>2, <1>3 DEF Types
  <2>2. OwnFiles'
    BY <1>2, <1>3 DEF StoreInv, OwnFiles, Store!Empty
  <2>3. StagedIsWhole'
    BY <1>2, <1>3 DEF StoreInv, StagedIsWhole, Store!Valid
  <2> QED BY <2>1, <2>2, <2>3, <1>3 DEF StoreInv
<1>4. CASE \/ Store!Start(p) \/ Store!Resolve(p) \/ Store!Children(p)
           \/ Store!Promote(p) \/ Store!Return(p)
  <2>1. UNCHANGED <<target, staging>> /\ staging'[p] = Store!Empty
    BY <1>1, <1>4, QuietStep DEF StoreInv, OwnFiles
  <2>2. Store!OneSource'
    BY <2>1 DEF StoreInv, Store!OneSource
  <2> QED BY <1>1, <1>3, <1>4, <2>1, <2>2, QuietStep DEF Types, Moving, Store!Empty
<1>5. CASE Store!Copy(p)
  <2>1. target' = target /\ Store!OneSource'
    BY <1>5 DEF Store!Copy, StoreInv, Store!OneSource
  <2>2. ASSUME NEW f \in Files, UNCHANGED run,
               staging' = [staging EXCEPT ![p][f] = run[p].source]
        PROVE  StoreInv'
    <3>1. run[p].source \in Store!Contents
      BY <1>1 DEF Runs
    <3>2. staging' \in [Procs -> [Files -> Store!Contents \cup {Nothing}]]
      BY <1>1, <2>2, <3>1 DEF Types
    <3>3. run[p].at = "copy" /\ \A g \in Files : staging[p][g] \in {run[p].source, Nothing}
      BY <1>5 DEF Store!Copy, StoreInv, OwnFiles, Moving
    <3>4. \A g \in Files : staging'[p][g] \in {run[p].source, Nothing}
      BY <1>1, <2>2, <3>3 DEF Types
    <3> QED BY <1>1, <1>3, <2>1, <2>2, <3>2, <3>3, <3>4 DEF Types, Moving
  <2>3. ASSUME Store!Valid(staging[p]), Store!Go(p, "remove"), UNCHANGED staging
        PROVE  StoreInv'
    <3>1. run'[p].at = "remove" /\ run'[p].source = run[p].source /\ run[p].at = "copy"
      BY <1>1, <1>5, <2>3 DEF Store!Go, Store!Copy, Runs
    <3> QED BY <1>1, <1>3, <2>1, <2>3, <3>1 DEF Types, Moving, StoreInv, OwnFiles
  <2> QED BY <1>5, <2>2, <2>3 DEF Store!Copy, Store!Slot
<1>6. CASE Store!Remove(p)
  <2>1. staging' = staging /\ run[p].at = "remove"
    BY <1>6 DEF Store!Remove
  <2>2. /\ run'[p].at \in {"remove", "rename"} /\ run'[p].source = run[p].source
    BY <1>1, <1>6 DEF Store!Remove, Store!Go, Runs
  <2>3. /\ target' \in [Store!Stages -> [Files -> Store!Contents \cup {Nothing}]]
        /\ \A s \in Store!Stages : \A f \in Files : target'[s][f] \in {target[s][f], Nothing}
    <3> DEFINE s == run[p].stage
    <3>1. s \in Store!Stages
      BY <1>1 DEF Runs
    <3> HIDE DEF s
    <3>2. ASSUME NEW f \in Files,
                 target' = [target EXCEPT ![s] = [@ EXCEPT ![f] = Nothing]]
          PROVE  /\ target' \in [Store!Stages -> [Files -> Store!Contents \cup {Nothing}]]
                 /\ \A t \in Store!Stages : \A g \in Files :
                        target'[t][g] \in {target[t][g], Nothing}
      BY <1>1, <3>1, <3>2 DEF Types
    <3> QED BY <1>1, <1>6, <3>2 DEF Store!Remove, Types, s
  <2>4. Store!OneSource'
    BY <2>3 DEF StoreInv, Store!OneSource
  <2> QED BY <1>1, <1>3, <2>1, <2>2, <2>3, <2>4 DEF Types, Moving, StoreInv, OwnFiles, StagedIsWhole
<1>7. CASE Store!Rename(p)
  <2>1. /\ run[p].at = "rename" /\ run[p].stage \in Store!Stages
        /\ run[p].source \in Store!Contents
        /\ target' = [target EXCEPT ![run[p].stage] = staging[p]]
        /\ staging' = [staging EXCEPT ![p] = Store!Empty]
    BY <1>1, <1>7 DEF Store!Rename, Store!Slot, Runs
  <2>2. run'[p].at \notin Moving
    BY <1>1, <1>7, PromotedRun DEF Store!Rename, Moving
  <2>3. Store!Empty \in [Files -> Store!Contents \cup {Nothing}]
    BY DEF Store!Empty
  <2>4. /\ target' \in [Store!Stages -> [Files -> Store!Contents \cup {Nothing}]]
        /\ staging' \in [Procs -> [Files -> Store!Contents \cup {Nothing}]]
        /\ staging'[p] = Store!Empty
    BY <1>1, <2>1, <2>3 DEF Types
  <2>5. \A f \in Files : staging[p][f] \in {run[p].source, Nothing}
    BY <2>1 DEF StoreInv, OwnFiles, Moving
  <2>6. Store!OneSource'
    BY <1>1, <2>1, <2>5 DEF StoreInv, Store!OneSource, Types
  <2> QED BY <1>3, <2>2, <2>4, <2>6 DEF Moving
<1>8. CASE Store!Breaks(p)
  <2>1. /\ target' = target
        /\ staging' = [staging EXCEPT ![p] = Store!Empty]
        /\ run'[p].at = "idle"
    BY <1>1, <1>8 DEF Store!Breaks, Store!NoRun
  <2>2. Store!Empty \in [Files -> Store!Contents \cup {Nothing}]
    BY DEF Store!Empty
  <2>3. Store!OneSource'
    BY <2>1 DEF StoreInv, Store!OneSource
  <2> QED BY <1>1, <1>3, <2>1, <2>2, <2>3 DEF Types, Moving
<1> QED BY <1>4, <1>5, <1>6, <1>7, <1>8 DEF Store!Ensure

(* Every step of every run, and the stuttering ones.                          *)
LEMMA StoreNext ==
    ASSUME StoreInv, [Store!Next]_(Store!vars)
    PROVE  StoreInv'
<1>1. CASE Store!Next
  BY <1>1, StoreStep DEF Store!Next
<1>2. CASE UNCHANGED Store!vars
  BY <1>2 DEF Store!vars, StoreInv, Types, OwnFiles, StagedIsWhole, Store!OneSource,
              Store!Valid, Store!Empty
<1> QED BY <1>1, <1>2

(* Runs that race may remove each other's bundles, but a published file is of *)
(* the one source its bundle was copied from: the staging directory has a     *)
(* name of its own and takes the target's place whole                         *)
(* (prerequisite_lifecycle.py:68-79).                                         *)
THEOREM BundlesOfOneSource == Store!Spec => []OneSource
<1>1. Store!Init => StoreInv
  BY StoreStarts
<1>2. StoreInv /\ [Store!Next]_(Store!vars) => StoreInv'
  BY StoreNext
<1>3. StoreInv => OneSource
  BY DEF StoreInv, Store!OneSource, OneSource, Store!Stages, Stages, Store!Contents, Contents
<1> QED BY <1>1, <1>2, <1>3, PTL DEF Store!Spec

(* What a step makes of the bundles is known to every run: one that was safe  *)
(* stays so, and one that was invalid stays so for whoever is not overtaken.  *)
LEMMA WorldStep ==
    ASSUME StoreInv, Knowledge, NEW p \in Procs, Store!Ensure(p) \/ Store!Breaks(p)
    PROVE  /\ Histories'
           /\ \A q \in Procs : \A s \in Store!Stages :
                run[q].at # "idle" /\ run'[q].at # "idle" /\ Safe(q, s) => Safe(q, s)'
           /\ \A q \in Procs : q # p /\ run[q].at \in Moving /\ q \notin overtaken' =>
                /\ q \notin overtaken
                /\ Store!Valid(target'[run[q].stage]) => Store!Valid(target[run[q].stage])
           /\ p \in overtaken' => p \in overtaken
           /\ p \in overtaken /\ p \notin overtaken' => run'[p].at \notin Moving
           /\ target' # target => Store!Remove(p) \/ Store!Rename(p)
<1>1. Types /\ run[p] \in Runs /\ run \in [Procs -> Runs] /\ Histories
  BY DEF StoreInv, Types, Knowledge
<1>2. run'[p] \in Runs /\ \A q \in Procs : q # p => run'[q] = run[q]
  BY <1>1, OneRunMoves
<1>3. CASE UNCHANGED <<target, overtaken, robbed>>
  BY <1>1, <1>3 DEF Histories, Safe, Store!Valid
<1>4. CASE Store!Start(p) \/ Store!Resolve(p) \/ Store!Children(p) \/ Store!Promote(p)
           \/ Store!Copy(p)
  BY <1>3, <1>4 DEF Store!Start, Store!Resolve, Store!Children, Store!Promote, Store!Copy,
                    Store!history
<1>5. CASE Store!Return(p) \/ Store!Breaks(p)
  <2>1. /\ target' = target /\ run'[p].at = "idle"
        /\ robbed' = [robbed EXCEPT ![p] = {}]
        /\ overtaken' \in {overtaken, overtaken \ {p}}
    BY <1>1, <1>5 DEF Store!Return, Store!Breaks, Store!NoRun
  <2>2. Histories' /\ \A q \in Procs : q # p => robbed'[q] = robbed[q]
    BY <1>1, <2>1 DEF Histories
  <2> QED BY <2>1, <2>2 DEF Safe, Moving, Store!Valid
<1>6. CASE Store!Remove(p)
  <2> DEFINE s == run[p].stage
  <2>1. s \in Store!Stages /\ overtaken' = overtaken
    BY <1>1, <1>6 DEF Store!Remove, Runs
  <2>2. CASE UNCHANGED <<target, robbed>>
    BY <1>3, <2>1, <2>2
  <2>3. ASSUME NEW f \in Files, target' = [target EXCEPT ![s] = [@ EXCEPT ![f] = Nothing]],
               Store!Robs(s)
        PROVE  /\ ~Store!Valid(target'[s])
               /\ \A t \in Store!Stages : t # s => target'[t] = target[t]
               /\ Histories'
               /\ \A q \in Procs : robbed[q] \subseteq robbed'[q]
               /\ \A q \in Procs : run[q].at # "idle" /\ Store!Valid(target[s]) =>
                    s \in robbed'[q]
    <3> HIDE DEF s
    <3>1. /\ target'[s][f] = Nothing
          /\ \A t \in Store!Stages : t # s => target'[t] = target[t]
      BY <1>1, <2>1, <2>3 DEF Types
    <3>2. ~Store!Valid(target'[s])
      BY <3>1 DEF Store!Valid
    <3>3. /\ Histories'
          /\ \A q \in Procs : robbed[q] \subseteq robbed'[q]
          /\ \A q \in Procs : run[q].at # "idle" /\ Store!Valid(target[s]) => s \in robbed'[q]
      BY <1>1, <2>1, <2>3 DEF Store!Robs, Histories
    <3> QED BY <3>1, <3>2, <3>3
  <2>4. CASE \E f \in Files : /\ target' = [target EXCEPT ![s] = [@ EXCEPT ![f] = Nothing]]
                              /\ Store!Robs(s)
    <3>1. /\ ~Store!Valid(target'[s])
          /\ \A t \in Store!Stages : t # s => target'[t] = target[t]
          /\ Histories'
          /\ \A q \in Procs : robbed[q] \subseteq robbed'[q]
          /\ \A q \in Procs : run[q].at # "idle" /\ Store!Valid(target[s]) => s \in robbed'[q]
      BY <2>3, <2>4
    <3>2. \A q \in Procs : run[q].stage \in Store!Stages
      BY <1>1 DEF Runs
    <3> HIDE DEF s
    <3>3. \A q \in Procs : \A t \in Store!Stages :
             run[q].at # "idle" /\ Safe(q, t) => Safe(q, t)'
      BY <3>1 DEF Safe, Store!Valid
    <3>4. \A q \in Procs : Store!Valid(target'[run[q].stage]) => Store!Valid(target[run[q].stage])
      BY <3>1, <3>2 DEF Store!Valid
    <3> QED BY <1>6, <2>1, <3>1, <3>3, <3>4
  <2> QED BY <1>6, <2>2, <2>4 DEF Store!Remove
<1>7. CASE Store!Rename(p)
  <2> DEFINE s == run[p].stage
  <2>1. /\ s \in Store!Stages /\ run[p].at = "rename"
        /\ target' = [target EXCEPT ![s] = staging[p]]
        /\ overtaken' = (overtaken \ {p}) \cup
                          {q \in Procs \ {p} : run[q].at \in Moving /\ run[q].stage = s}
        /\ robbed' = [q \in Procs |-> robbed[q] \ {s}]
    BY <1>1, <1>7 DEF Store!Rename, Store!Publishes, Store!Slot, Runs, Moving
  <2>2. run'[p].at \notin Moving
    BY <1>1, <1>7, PromotedRun DEF Store!Rename, Moving
  <2>3. Store!Valid(staging[p])
    BY <2>1 DEF StoreInv, StagedIsWhole
  <2>4. /\ Store!Valid(target'[s])
        /\ \A t \in Store!Stages : t # s => target'[t] = target[t]
    <3> HIDE DEF s
    <3>1. target'[s] = staging[p] /\ \A t \in Store!Stages : t # s => target'[t] = target[t]
      BY <1>1, <2>1 DEF Types
    <3> QED BY <2>3, <3>1
  <2>5. Histories'
    BY <1>1, <2>1 DEF Histories
  <2>6. \A q \in Procs : run[q].stage \in Store!Stages
    BY <1>1 DEF Runs
  <2> HIDE DEF s
  <2>7. \A q \in Procs : \A t \in Store!Stages : Safe(q, t) => Safe(q, t)'
    BY <2>1, <2>4 DEF Safe, Store!Valid
  <2>8. \A q \in Procs : q # p /\ run[q].at \in Moving /\ q \notin overtaken' =>
             q \notin overtaken /\ run[q].stage # s
    BY <2>1
  <2>9. \A q \in Procs : run[q].stage # s => target'[run[q].stage] = target[run[q].stage]
    BY <2>4, <2>6
  <2>10. p \notin overtaken'
    BY <2>1
  <2> QED BY <1>7, <2>2, <2>5, <2>7, <2>8, <2>9, <2>10
<1> QED BY <1>4, <1>5, <1>6, <1>7 DEF Store!Ensure

(* Only a removal and a rename touch a published bundle, and a valid one only *)
(* the removal by an overtaken run.                                           *)
LEMMA KnowledgeStep ==
    ASSUME StoreInv, Knowledge, NEW p \in Procs, Store!Ensure(p) \/ Store!Breaks(p)
    PROVE  /\ Knowledge'
           /\ \A s \in Store!Stages : Store!Valid(target[s]) /\ target'[s] # target[s] =>
                p \in overtaken /\ run[p].at = "remove" /\ run[p].stage = s
<1>1. Types /\ run[p] \in Runs /\ run \in [Procs -> Runs]
  BY DEF StoreInv, Types
<1>2. /\ run'[p] \in Runs
      /\ \A q \in Procs : q # p => run'[q] = run[q]
  BY <1>1, OneRunMoves
<1>3. /\ Histories'
      /\ \A q \in Procs : \A s \in Store!Stages :
           run[q].at # "idle" /\ run'[q].at # "idle" /\ Safe(q, s) => Safe(q, s)'
      /\ \A q \in Procs : q # p /\ run[q].at \in Moving /\ q \notin overtaken' =>
           /\ q \notin overtaken
           /\ Store!Valid(target'[run[q].stage]) => Store!Valid(target[run[q].stage])
      /\ p \in overtaken /\ p \notin overtaken' => run'[p].at \notin Moving
      /\ target' # target => Store!Remove(p) \/ Store!Rename(p)
  BY WorldStep
<1>4. \A q \in Procs : run[q].got \subseteq Store!Stages /\ run[q] \in Runs
  BY <1>1 DEF Runs
<1>5. ASSUME run'[p].at = "idle" => run'[p] = Store!NoRun,
             run'[p].at = "resolve" => run'[p].source = Legacy,
             run'[p].at \in Moving /\ p \notin overtaken' => ~Store!Valid(target'[run'[p].stage]),
             \A s \in run'[p].got : Safe(p, s)',
             run'[p].source # Legacy /\ run'[p].stage = "R1" => Safe(p, "V230")',
             run'[p].at = "done" => \A s \in Store!Stages : Safe(p, s)'
      PROVE  Knowledge'
  <2>1. IdleIsNoRun'
    BY <1>2, <1>5 DEF Knowledge, IdleIsNoRun, Store!NoRun
  <2>2. OnlyInvalid'
    <3>1. ASSUME NEW q \in Procs, q # p, run'[q].at \in Moving, q \notin overtaken'
          PROVE  ~Store!Valid(target'[run'[q].stage])
      BY <1>2, <1>3, <3>1 DEF Knowledge, OnlyInvalid
    <3> QED BY <1>5, <3>1 DEF OnlyInvalid, Store!Valid
  <2>3. ASSUME NEW q \in Procs, q # p
        PROVE  /\ \A s \in run'[q].got : Safe(q, s)'
               /\ run'[q].source # Legacy /\ run'[q].stage = "R1" => Safe(q, "V230")'
               /\ run'[q].at = "done" => \A s \in Store!Stages : Safe(q, s)'
    <3>1. run'[q] = run[q]
      BY <1>2, <2>3
    <3>2. CASE run[q].at = "idle"
      BY <3>1, <3>2 DEF Knowledge, IdleIsNoRun, Store!NoRun
    <3>3. CASE run[q].at # "idle"
      <4>1. \A s \in Store!Stages : Safe(q, s) => Safe(q, s)'
        BY <1>3, <3>1, <3>3
      <4>2. /\ \A s \in run[q].got : Safe(q, s)
            /\ run[q].source # Legacy /\ run[q].stage = "R1" => Safe(q, "V230")
            /\ run[q].at = "done" => \A s \in Store!Stages : Safe(q, s)
        BY DEF Knowledge, GotIsSafe, FirstIsSafe, DoneIsSafe
      <4> QED BY <1>4, <3>1, <4>1, <4>2 DEF Store!Stages
    <3> QED BY <3>2, <3>3
  <2>4. GotIsSafe' /\ FirstIsSafe' /\ DoneIsSafe'
    BY <1>5, <2>3 DEF GotIsSafe, FirstIsSafe, DoneIsSafe, Safe, Store!Valid
  <2>6. ResolvesFirst'
    BY <1>2, <1>5 DEF Knowledge, ResolvesFirst
  <2> QED BY <1>3, <2>1, <2>2, <2>4, <2>6 DEF Knowledge
<1>6. /\ run[p].at = "resolve" => run[p].source = Legacy
      /\ run[p].at \in Moving /\ p \notin overtaken => ~Store!Valid(target[run[p].stage])
      /\ \A s \in run[p].got : Safe(p, s)
      /\ run[p].source # Legacy /\ run[p].stage = "R1" => Safe(p, "V230")
  BY DEF Knowledge, ResolvesFirst, OnlyInvalid, GotIsSafe, FirstIsSafe
<1>7. CASE Store!Start(p) \/ Store!Return(p) \/ Store!Breaks(p)
  <2>1. run'[p] \in {Store!NoRun, [Store!NoRun EXCEPT !.at = "resolve"]}
    BY <1>1, <1>7 DEF Store!Start, Store!Return, Store!Breaks
  <2>2. target' = target
    BY <1>7 DEF Store!Start, Store!Return, Store!Breaks
  <2> QED BY <1>5, <2>1, <2>2 DEF Store!NoRun, Moving
\* A run that goes on has lost nothing without knowing it.
<1>8. ASSUME run[p].at # "idle", run'[p].at # "idle", NEW s \in Store!Stages, Safe(p, s)
      PROVE  Safe(p, s)'
  BY <1>3, <1>8
<1>9. CASE Store!Resolve(p)
  <2>1. target' = target /\ run[p].at = "resolve" /\ run[p].source = Legacy
        /\ run[p].stage \in Store!Stages
    BY <1>1, <1>6, <1>9 DEF Store!Resolve, Runs
  <2>2. CASE run' = [run EXCEPT ![p] = [@ EXCEPT !.at = "promote", !.source = Legacy]]
    <3>1. /\ run'[p].at = "promote" /\ run'[p].source = Legacy
          /\ run'[p].got = run[p].got
      BY <1>1, <2>2 DEF Runs
    <3> QED BY <1>4, <1>5, <1>6, <1>8, <2>1, <3>1 DEF Moving
  <2>3. ASSUME NEW got \in SUBSET Store!Stages, Store!Resolved(p, got),
               \A s \in got : Safe(p, s)
        PROVE  Knowledge'
    <3>1. /\ run'[p].got = got /\ run'[p].source = Legacy
          /\ run'[p].at \in {"resolve", "children", "done"}
          /\ run'[p].at = "done" => got = Store!Stages
      BY <1>1, <2>1, <2>3, ResolvedRun
    <3>2. \A s \in got : Safe(p, s)'
      BY <1>8, <2>1, <2>3, <3>1
    <3> QED BY <1>5, <3>1, <3>2 DEF Moving
  <2>4. CASE Store!Valid(target[run[p].stage]) /\ Store!Resolved(p, run[p].got \cup {run[p].stage})
    <3>1. \A s \in run[p].got \cup {run[p].stage} : Safe(p, s)
      BY <1>6, <2>4 DEF Safe
    <3> QED BY <1>4, <2>1, <2>3, <2>4, <3>1
  <2>5. CASE Store!Resolved(p, run[p].got)
    BY <1>4, <1>6, <2>1, <2>3, <2>5
  <2> QED BY <1>9, <2>1, <2>2, <2>4, <2>5 DEF Store!Resolve
<1>10. CASE Store!Children(p)
  <2>1. /\ target' = target /\ run[p].at = "children"
        /\ run'[p].at = "promote" /\ run'[p].stage = "V230" /\ run'[p].got = run[p].got
    BY <1>1, <1>10 DEF Store!Children, Runs
  <2> QED BY <1>4, <1>5, <1>6, <1>8, <2>1 DEF Moving
<1>11. ASSUME Store!Promoted(p), run[p].at \in {"promote", "rename"},
              NEW now \in Store!Stages, now = run[p].stage, Safe(p, now)'
       PROVE  Knowledge'
  <2>1. run[p].stage \in Store!Stages /\ run[p].got \subseteq Store!Stages
    BY <1>1 DEF Runs
  <2>2. /\ run'[p].stage = "R1"
        /\ run'[p].source = run[p].source
        /\ run'[p].at \in {"resolve", "children", "promote", "done"}
        /\ run'[p].got \subseteq run[p].got \cup {run[p].stage}
        /\ run'[p].at = "done" =>
             \/ run'[p].got = Store!Stages
             \/ run[p].source # Legacy /\ run[p].stage = "R1"
        /\ run'[p].at = "resolve" => run[p].source = Legacy
    BY <1>1, <1>11, PromotedRun
  <2>3. ASSUME NEW s \in Store!Stages, Safe(p, s) PROVE Safe(p, s)'
    BY <1>8, <1>11, <2>2, <2>3
  <2>4. \A s \in run'[p].got : Safe(p, s)'
    BY <1>6, <1>11, <2>1, <2>2, <2>3
  <2>5. run[p].source # Legacy => Safe(p, "V230")'
    <3>1. CASE run[p].stage = "V230"
      BY <1>11, <3>1
    <3>2. CASE run[p].stage = "R1"
      BY <1>6, <2>3, <3>2 DEF Store!Stages
    <3> QED BY <2>1, <3>1, <3>2 DEF Store!Stages
  <2>6. run'[p].at = "done" => \A s \in Store!Stages : Safe(p, s)'
    <3>1. CASE run[p].source # Legacy /\ run[p].stage = "R1"
      <4>1. \A s \in Store!Stages : s = "V230" \/ s = now
        BY <1>11, <3>1 DEF Store!Stages
      <4> QED BY <1>11, <2>5, <3>1, <4>1
    <3> QED BY <2>2, <2>4, <3>1
  <2> QED BY <1>5, <2>2, <2>4, <2>5, <2>6 DEF Moving
<1>12. CASE Store!Promote(p)
  <2>1. UNCHANGED <<target, robbed, overtaken>> /\ run[p].at = "promote"
    BY <1>12 DEF Store!Promote, Store!history
  <2>2. CASE Store!Keeps(p)
    <3>1. PICK now \in Store!Stages : now = run[p].stage
      BY <1>1 DEF Runs
    <3>2. Safe(p, now)'
      BY <2>1, <2>2, <3>1 DEF Safe, Store!Keeps, Store!Valid
    <3> QED BY <1>11, <1>12, <2>1, <2>2, <3>1, <3>2 DEF Store!Promote
  <2>3. CASE ~Store!Keeps(p)
    <3>1. run'[p] = [run[p] EXCEPT !.at = "copy"]
      BY <1>1, <1>12, <2>3 DEF Store!Promote, Store!Go
    <3>2. /\ ~Store!Valid(target'[run'[p].stage]) /\ run'[p].at = "copy"
          /\ run'[p].stage = run[p].stage /\ run'[p].got = run[p].got
          /\ run'[p].source = run[p].source
      BY <1>1, <2>1, <2>3, <3>1 DEF Store!Keeps, Runs
    <3> QED BY <1>4, <1>5, <1>6, <1>8, <2>1, <3>2 DEF Store!Stages
  <2> QED BY <2>1, <2>2, <2>3
<1>13. CASE Store!Copy(p)
  <2>1. /\ UNCHANGED <<target, robbed, overtaken>>
        /\ run[p].at = "copy" /\ run'[p].at \in {"copy", "remove"}
        /\ run'[p].stage = run[p].stage /\ run'[p].got = run[p].got
        /\ run'[p].source = run[p].source
    BY <1>1, <1>13 DEF Store!Copy, Store!Go, Runs, Store!history
  <2> QED BY <1>4, <1>5, <1>6, <1>8, <2>1 DEF Moving, Store!Stages
<1>14. CASE Store!Remove(p)
  <2> DEFINE s == run[p].stage
  <2>1. /\ run[p].at = "remove" /\ run'[p].at \in {"remove", "rename"}
        /\ run'[p].stage = s /\ run'[p].got = run[p].got
        /\ run'[p].source = run[p].source /\ s \in Store!Stages
        /\ overtaken' = overtaken
    BY <1>1, <1>14 DEF Store!Remove, Store!Go, Runs
  <2>2. /\ \A t \in Store!Stages : t # s => target'[t] = target[t]
        /\ ~Store!Valid(target[s]) => ~Store!Valid(target'[s])
    <3> HIDE DEF s
    <3>1. ASSUME NEW f \in Files,
                 target' = [target EXCEPT ![s] = [@ EXCEPT ![f] = Nothing]]
          PROVE  /\ target'[s][f] = Nothing
                 /\ \A t \in Store!Stages : t # s => target'[t] = target[t]
      BY <1>1, <2>1, <3>1 DEF Types
    <3> QED BY <1>14, <3>1 DEF Store!Remove, Store!Valid, s
  <2>3. p \notin overtaken => ~Store!Valid(target[s])
    BY <1>6, <2>1 DEF Moving
  <2> HIDE DEF s
  <2>4. Knowledge'
    <3>1. \A t \in run'[p].got : Safe(p, t)'
      BY <1>4, <1>6, <1>8, <2>1
    <3>2. run'[p].source # Legacy /\ run'[p].stage = "R1" => Safe(p, "V230")'
      BY <1>6, <1>8, <2>1 DEF Store!Stages, s
    <3>3. p \notin overtaken' => ~Store!Valid(target'[run'[p].stage])
      BY <2>1, <2>2, <2>3
    <3> QED BY <1>5, <2>1, <3>1, <3>2, <3>3
  <2>5. \A t \in Store!Stages : Store!Valid(target[t]) /\ target'[t] # target[t] =>
            p \in overtaken /\ run[p].at = "remove" /\ run[p].stage = t
    BY <2>1, <2>2, <2>3 DEF s
  <2> QED BY <2>4, <2>5
<1>15. CASE Store!Rename(p)
  <2>1. /\ run[p].at = "rename" /\ run[p].stage \in Store!Stages
        /\ target[run[p].stage] = Store!Empty
        /\ target' = [target EXCEPT ![run[p].stage] = staging[p]]
        /\ Store!Promoted(p)
    BY <1>1, <1>15 DEF Store!Rename, Store!Slot, Runs
  <2>2. Store!Valid(staging[p]) /\ staging[p] \in [Files -> Store!Contents \cup {Nothing}]
    BY <1>1, <2>1 DEF StoreInv, StagedIsWhole, Types
  <2>3. /\ target'[run[p].stage] = staging[p]
        /\ \A s \in Store!Stages : s # run[p].stage => target'[s] = target[s]
    BY <1>1, <2>1 DEF Types
  <2>4. Knowledge'
    <3>1. PICK now \in Store!Stages : now = run[p].stage
      BY <2>1
    <3>2. Safe(p, now)'
      BY <2>2, <2>3, <3>1 DEF Safe, Store!Valid
    <3> QED BY <1>11, <2>1, <3>1, <3>2
  <2>5. ASSUME Store!Valid(target[run[p].stage]) PROVE target'[run[p].stage] = target[run[p].stage]
    <3>1. Files = {}
      BY <2>1, <2>5 DEF Store!Valid, Store!Empty
    <3> QED BY <2>1, <2>2, <2>3, <3>1 DEF Store!Empty
  <2> QED BY <2>3, <2>4, <2>5
<1>16. CASE Store!Start(p) \/ Store!Return(p) \/ Store!Breaks(p) \/ Store!Resolve(p)
            \/ Store!Children(p) \/ Store!Promote(p) \/ Store!Copy(p)
  <2>1. target' = target
    BY <1>16 DEF Store!Start, Store!Return, Store!Breaks, Store!Resolve, Store!Children,
                 Store!Promote, Store!Copy
  <2> QED BY <1>7, <1>9, <1>10, <1>12, <1>13, <1>16, <2>1
<1> QED BY <1>14, <1>15, <1>16 DEF Store!Ensure

LEMMA KnowledgeNext ==
    ASSUME StoreInv, Knowledge, [Store!Next]_(Store!vars)
    PROVE  /\ Knowledge'
           /\ \A s \in Store!Stages : Store!Valid(target[s]) /\ target'[s] # target[s] =>
                \E p \in Procs : p \in overtaken /\ run[p].at = "remove" /\ run[p].stage = s
<1>1. CASE Store!Next
  BY <1>1, KnowledgeStep DEF Store!Next
<1>2. CASE UNCHANGED Store!vars
  BY <1>2 DEF Store!vars, Store!history, Knowledge, Histories, IdleIsNoRun, ResolvesFirst,
              OnlyInvalid, GotIsSafe, FirstIsSafe, DoneIsSafe, Safe, Store!Valid
<1> QED BY <1>1, <1>2

LEMMA KnowledgeHolds == Store!Spec => [](StoreInv /\ Knowledge)
<1>1. Store!Init => StoreInv /\ Knowledge
  BY StoreStarts
<1>2. StoreInv /\ Knowledge /\ [Store!Next]_(Store!vars) => (StoreInv /\ Knowledge)'
  BY StoreNext, KnowledgeNext
<1> QED BY <1>1, <1>2, PTL DEF Store!Spec

(* ensure() returns only while both bundles are valid, but for one that an    *)
(* overtaken run took away since, for any number of refreshes at once and     *)
(* whatever the earlier ones left half done.                                  *)
THEOREM EnsuredBundlesAreValid == Store!Spec => []EnsuredIsValid
<1>1. Knowledge => EnsuredIsValid
  BY DEF Knowledge, DoneIsSafe, Safe, EnsuredIsValid, Store!Stages, Stages, Store!Valid, Valid
<1> QED BY <1>1, KnowledgeHolds, PTL

(* A valid bundle is touched only by a run that found it invalid before       *)
(* another run published it, for any number of refreshes at once              *)
(* (prerequisite_lifecycle.py:68-79).                                         *)
THEOREM ValidBundlesStay == Store!Spec => ValidIsKept
<1>1. StoreInv /\ Knowledge /\ [Store!Next]_(Store!vars)
          => [\A s \in Stages : Valid(target[s]) /\ target'[s] # target[s] =>
                \E p \in overtaken : run[p].at = "remove" /\ run[p].stage = s]_target
  BY KnowledgeNext DEF Store!Stages, Stages, Store!Valid, Valid
<1> QED BY <1>1, KnowledgeHolds, PTL DEF Store!Spec, ValidIsKept
=============================================================================
