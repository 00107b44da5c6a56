----------------------- MODULE ForwardShadow_proofs -----------------------
(***************************************************************************)
(* What holds of ForwardShadow for every number of processes, dates, keys  *)
(* and runs.  The lock file of a date names one attempt, no two processes  *)
(* are the same attempt, and only the process the lock names goes beyond   *)
(* it: so nobody else touches the stage or the transactions of its date    *)
(* between its recheck and its mark.                                       *)
(***************************************************************************)
EXTENDS ForwardShadow, TLAPS

Attempts ==
    /\ \A p \in Procs : run[p].attempt \in 0..runs
    /\ \A p \in Procs : run[p].at # "idle" => run[p].attempt # 0
    /\ \A p, q \in Procs : p # q /\ run[p].attempt # 0 => run[p].attempt # run[q].attempt

Holders == \A p \in Procs : run[p].at \in Locked => lock[run[p].id.date] = run[p].attempt

InStage == {"prepare", "component", "reconcile", "commit", "publish"}
Early == {"transactions", "staging", "assess", "lock", "mkdir", "prepare"}
Places ==
    \A p \in Procs :
        /\ run[p].at \in Early => run[p].role = 1
        /\ run[p].at = "component" => run[p].role <= Len(ROLES)
        /\ run[p].at \in InStage => stage[run[p].id] # Absent
        /\ run[p].at = "publish" => Of(run[p].id.date, trans) = {}
        /\ run[p].at = "mark" => trans[run[p].id] # Absent

Inv == TypeOK /\ Attempts /\ Holders /\ Places /\ OneTransactionPerDate

LEMMA Roles == Len(ROLES) = 3
BY DEF ROLES

(* Under the lock of a date a process is alone. *)
LEMMA Alone ==
  ASSUME Attempts, Holders, NEW p \in Procs, NEW q \in Procs, p # q,
         run[p].at \in Locked, run[q].at \in Locked
  PROVE  run[p].id.date # run[q].id.date
BY DEF Attempts, Holders, Locked

(* What a run writes into its stage leaves it a stage. *)
LEMMA StageUpdates ==
  ASSUME NEW s \in Staged, NEW n \in 0..MaxRuns, NEW b \in BOOLEAN, NEW r
  PROVE  /\ [s EXCEPT !.recon = n] \in Staged
         /\ [s EXCEPT !.recon = n, !.failed = b] \in Staged
         /\ [s EXCEPT !.files[r] = n] \in Staged
         /\ [s EXCEPT !.files[r] = n, !.failed = b] \in Staged
<1>1. [s.files EXCEPT ![r] = n] \in [1..Len(ROLES) -> 0..MaxRuns]
  BY DEF Staged
<1>2. /\ [s EXCEPT !.files[r] = n] = [s EXCEPT !.files = [s.files EXCEPT ![r] = n]]
      /\ [s EXCEPT !.files[r] = n, !.failed = b]
             = [[s EXCEPT !.files = [s.files EXCEPT ![r] = n]] EXCEPT !.failed = b]
  BY DEF Staged
<1> QED
  BY <1>1, <1>2 DEF Staged

LEMMA FlagUpdates ==
  ASSUME NEW s \in Staged, NEW b \in BOOLEAN
  PROVE  [s EXCEPT !.ident = b] \in Staged /\ [s EXCEPT !.failed = b] \in Staged
BY DEF Staged

LEMMA ChainUpdate ==
  ASSUME NEW s \in Staged, NEW h \in Seq(Ids)
  PROVE  [s EXCEPT !.chain = h] \in Staged
BY DEF Staged

(* A run that moves to another place, ends or has its next component before it is a run. *)
Runs == [at : Unlocked \cup Locked, id : Ids, mode : Modes, role : 1..(Len(ROLES) + 1),
         attempt : 0..MaxRuns, answer : Answers]

LEMMA RunMoves ==
  ASSUME NEW r \in Runs, NEW a \in Unlocked \cup Locked, NEW b \in Answers
  PROVE  [r EXCEPT !.at = a] \in Runs /\ [r EXCEPT !.at = a, !.answer = b] \in Runs
BY DEF Runs

LEMMA RunAdvances ==
  ASSUME NEW r \in Runs, NEW a \in Unlocked \cup Locked, NEW k \in 1..(Len(ROLES) + 1)
  PROVE  [r EXCEPT !.role = k, !.at = a] \in Runs
BY DEF Runs

LEMMA EmptyStaged == EmptyStage \in Staged
BY MaxRunsAssumption DEF EmptyStage, Staged

(* The predecessor a manifest names is a chain of identities. *)
LEMMA PreviousType == TypeOK => _previous_manifest_hash \in Seq(Ids)
<1> SUFFICES ASSUME TypeOK, committed_transactions # {}
             PROVE  trans[Latest].chain \in Seq(Ids)
  BY DEF _previous_manifest_hash
<1>1. {i.date : i \in committed_transactions} \in (SUBSET Dates) \ {{}}
  BY DEF committed_transactions, Ids
<1>2. \E i \in committed_transactions : \A j \in committed_transactions : j.date <= i.date
  BY <1>1, DatesAssumption
<1>3. Latest \in committed_transactions
  BY <1>2 DEF Latest
<1> QED
  BY <1>3 DEF committed_transactions, TypeOK, Published

(* Type correctness: every step keeps the files, the lock and the runs well formed. *)
LEMMA TypeInit == Init => TypeOK
BY Roles, MaxRunsAssumption
   DEF Init, TypeOK, Modes, Answers, Unlocked, Locked, Staged, Published, Ids

LEMMA TypeNext == TypeOK /\ Places /\ [Next]_vars => TypeOK'
<1> SUFFICES ASSUME TypeOK, Places, [Next]_vars PROVE TypeOK'
  OBVIOUS
<1> USE MaxRunsAssumption, AbsentAssumption, Roles
<1>0. run \in [Procs -> Runs]
  BY DEF TypeOK, Runs
<1>0a. ASSUME NEW p \in Procs, NEW r \in Runs, run' = [run EXCEPT ![p] = r]
       PROVE  run' \in [Procs -> Runs]
  BY <1>0, <1>0a
<1>1. ASSUME NEW p \in Procs, NEW a \in Unlocked \cup Locked, Goto(p, a)
      PROVE  run' \in [Procs -> Runs]
  <2>1. run[p] \in Runs
    BY <1>0
  <2>2. [run[p] EXCEPT !.at = a] \in Runs
    BY <2>1, RunMoves DEF Answers
  <2>3. run' = [run EXCEPT ![p] = [run[p] EXCEPT !.at = a]]
    BY <1>1 DEF Goto
  <2> QED
    BY <1>0a, <2>2, <2>3
<1>2. ASSUME NEW p \in Procs, NEW a \in Unlocked \cup Locked, NEW b \in Answers, Finish(p, a, b)
      PROVE  run' \in [Procs -> Runs]
  <2>1. run[p] \in Runs
    BY <1>0
  <2>2. [run[p] EXCEPT !.at = a, !.answer = b] \in Runs
    BY <2>1, RunMoves
  <2>3. run' = [run EXCEPT ![p] = [run[p] EXCEPT !.at = a, !.answer = b]]
    BY <1>2 DEF Finish
  <2> QED
    BY <1>0a, <2>2, <2>3
<1>3. ASSUME NEW i \in Ids, NEW s \in Staged, stage' = [stage EXCEPT ![i] = s]
      PROVE  stage' \in [Ids -> Staged \cup {Absent}]
  BY <1>3 DEF TypeOK, Runs
<1>4. ASSUME NEW p \in Procs, fail_stage(p), run[p].at \in InStage
      PROVE  /\ stage' \in [Ids -> Staged \cup {Absent}]
             /\ run' \in [Procs -> Runs]
  <2>1. stage[run[p].id] \in Staged /\ run[p].id \in Ids
    BY <1>4 DEF TypeOK, Places
  <2>2. [stage[run[p].id] EXCEPT !.failed = TRUE] \in Staged
    BY <2>1, FlagUpdates
  <2>3. stage' = [stage EXCEPT ![run[p].id] = [stage[run[p].id] EXCEPT !.failed = TRUE]]
    BY <1>4 DEF fail_stage
  <2>4. Finish(p, "release", "FAILED")
    BY <1>4 DEF fail_stage, Leave
  <2> QED
    BY <1>2, <1>3, <2>1, <2>2, <2>3, <2>4 DEF Locked, Answers
<1>5. ASSUME NEW p \in Procs, Step(p) PROVE TypeOK'
  <2>0. run[p].id \in Ids /\ run[p].id.date \in Dates /\ run[p].attempt \in 0..MaxRuns
        /\ run[p].role \in 1..4
    BY DEF TypeOK, Ids
  <2>1. CASE CheckTransactions(p) \/ CheckStaging(p) \/ assess_resume(p)
    <3>1. run' \in [Procs -> Runs]
      BY <1>1, <1>2, <2>1 DEF CheckTransactions, CheckStaging, assess_resume, Return,
         Unlocked, Locked, Answers
    <3> QED
      BY <2>1, <3>1 DEF CheckTransactions, CheckStaging, assess_resume, TypeOK, Runs
  <2>2. CASE acquire_lock(p)
    <3>1. run' \in [Procs -> Runs]
      BY <1>1, <1>2, <2>2 DEF acquire_lock, Return, Unlocked, Locked, Answers
    <3> QED
      BY <2>0, <2>2, <3>1 DEF acquire_lock, TypeOK, Runs
  <2>3. CASE MakeStage(p)
    <3>1. run' \in [Procs -> Runs]
      BY <1>1, <1>2, <2>3 DEF MakeStage, Leave, Unlocked, Locked, Answers
    <3> QED
      BY <1>3, <2>0, <2>3, <3>1, EmptyStaged DEF MakeStage, TypeOK, Runs
  <2>4. CASE PrepareStage(p)
    <3>1. run' \in [Procs -> Runs]
      BY <1>1, <2>4 DEF PrepareStage, Unlocked, Locked
    <3>2. stage[run[p].id] \in Staged
      BY <2>0, <2>4 DEF PrepareStage, TypeOK, Places, InStage
    <3>3. [stage[run[p].id] EXCEPT !.ident = TRUE] \in Staged
      BY <3>2, FlagUpdates
    <3>4. stage' = [stage EXCEPT ![run[p].id] = [stage[run[p].id] EXCEPT !.ident = TRUE]]
      BY <2>4 DEF PrepareStage
    <3> QED
      BY <1>3, <2>0, <2>4, <3>1, <3>3, <3>4 DEF PrepareStage, TypeOK, Runs
  <2>4a. ASSUME run[p].at \in InStage
         PROVE  stage[run[p].id] \in Staged
    BY <2>0, <2>4a DEF TypeOK, Places
  <2>5. CASE Component(p)
    <3>1. stage' = [stage EXCEPT ![run[p].id] =
                      [stage[run[p].id] EXCEPT !.files[run[p].role] = run[p].attempt]]
      BY <2>5 DEF Component
    <3>2. stage' \in [Ids -> Staged \cup {Absent}]
      BY <1>3, <2>0, <2>4a, StageUpdates, <2>5, <3>1 DEF Component, InStage
    <3>3. run[p].role + 1 \in 1..(Len(ROLES) + 1)
      BY <2>0, <2>5 DEF Component, Places
    <3>4. run' \in [Procs -> Runs]
      <4>1. run' = [run EXCEPT ![p] = [run[p] EXCEPT !.role = run[p].role + 1,
                      !.at = IF run[p].role = Len(ROLES) THEN "reconcile" ELSE "component"]]
        BY <2>5 DEF Component
      <4>2. [run[p] EXCEPT !.role = run[p].role + 1,
                      !.at = IF run[p].role = Len(ROLES) THEN "reconcile" ELSE "component"] \in Runs
        BY <1>0, <3>3, RunAdvances DEF Locked
      <4> QED
        BY <1>0a, <4>1, <4>2
    <3> QED
      BY <2>5, <3>2, <3>4 DEF Component, TypeOK, Runs
  <2>6. CASE ComponentFails(p)
    <3>1. PICK n \in {stage[run[p].id].files[run[p].role], run[p].attempt} :
            stage' = [stage EXCEPT ![run[p].id] =
                        [stage[run[p].id] EXCEPT !.files[run[p].role] = n, !.failed = TRUE]]
      BY <2>6 DEF ComponentFails
    <3>2. run[p].role \in 1..Len(ROLES) /\ stage[run[p].id] \in Staged
      BY <2>0, <2>4a, <2>6 DEF ComponentFails, Places, InStage
    <3>3. n \in 0..MaxRuns
      <4>1. stage[run[p].id].files[run[p].role] \in 0..MaxRuns
        BY <3>2 DEF Staged
      <4> QED
        BY <2>0, <4>1
    <3>4. stage' \in [Ids -> Staged \cup {Absent}]
      BY <1>3, <2>0, StageUpdates, <3>1, <3>2, <3>3
    <3>5. run' \in [Procs -> Runs]
      BY <1>2, <2>6 DEF ComponentFails, Leave, Locked, Answers
    <3> QED
      BY <2>6, <3>4, <3>5 DEF ComponentFails, TypeOK, Runs
  <2>7. CASE Reconcile(p)
    <3>1. stage[run[p].id] \in Staged
      BY <2>4a, <2>7 DEF Reconcile, InStage
    <3>2. /\ [stage[run[p].id] EXCEPT !.recon = run[p].attempt] \in Staged
          /\ [stage[run[p].id] EXCEPT !.recon = run[p].attempt, !.failed = TRUE] \in Staged
      BY <2>0, <3>1, StageUpdates
    <3>3. stage' \in [Ids -> Staged \cup {Absent}]
      BY <1>3, <2>0, <2>7, <3>2 DEF Reconcile
    <3>4. run' \in [Procs -> Runs]
      BY <1>1, <1>2, <2>7 DEF Reconcile, Leave, Locked, Answers
    <3> QED
      BY <2>7, <3>3, <3>4 DEF Reconcile, TypeOK, Runs
  <2>8. CASE CommitChecks(p)
    <3>1. stage[run[p].id] \in Staged
      BY <2>4a, <2>8 DEF CommitChecks, InStage
    <3>2. _previous_manifest_hash \in Seq(Ids)
      BY PreviousType
    <3>3. [stage[run[p].id] EXCEPT !.chain = Append(_previous_manifest_hash, run[p].id)] \in Staged
      <4>1. Append(_previous_manifest_hash, run[p].id) \in Seq(Ids)
        BY <2>0, <3>2
      <4> QED
        BY <3>1, <4>1, ChainUpdate
    <3>4. stage' \in [Ids -> Staged \cup {Absent}]
      BY <1>3, <2>0, <2>8, <3>3 DEF CommitChecks, TypeOK, Runs
    <3>5. run' \in [Procs -> Runs]
      BY <1>1, <1>2, <2>8 DEF CommitChecks, Leave, Locked, Answers
    <3> QED
      BY <2>8, <3>4, <3>5 DEF CommitChecks, TypeOK, Runs
  <2>9. CASE Publish(p)
    <3>1. stage[run[p].id] \in Staged
      BY <2>4a, <2>9 DEF Publish, InStage
    <3>2. [files |-> stage[run[p].id].files, recon |-> stage[run[p].id].recon,
           chain |-> stage[run[p].id].chain, marked |-> FALSE] \in Published
      BY <3>1 DEF Staged, Published
    <3>3. /\ stage' \in [Ids -> Staged \cup {Absent}]
          /\ trans' \in [Ids -> Published \cup {Absent}]
      BY <2>0, <2>9, <3>2 DEF Publish, TypeOK, Runs
    <3>4. run' \in [Procs -> Runs]
      BY <1>1, <1>2, <2>9 DEF Publish, Leave, Locked, Answers
    <3> QED
      BY <2>9, <3>3, <3>4 DEF Publish, TypeOK, Runs
  <2>10. CASE Mark(p)
    <3>1. trans[run[p].id] \in Published
      BY <2>0, <2>10 DEF Mark, Places, TypeOK, Runs
    <3>2. [trans[run[p].id] EXCEPT !.marked = TRUE] \in Published
      BY <3>1 DEF Published
    <3>3. trans' = [trans EXCEPT ![run[p].id] = [trans[run[p].id] EXCEPT !.marked = TRUE]]
      BY <2>10 DEF Mark
    <3>4. run' \in [Procs -> Runs]
      BY <1>2, <2>10 DEF Mark, Leave, Locked, Answers
    <3> QED
      BY <2>0, <2>10, <3>2, <3>3, <3>4 DEF Mark, TypeOK, Runs
  <2>11. CASE CommitFails(p)
    <3>1. CASE fail_stage(p) /\ run[p].at \in {"commit", "publish"}
      BY <1>4, <2>11, <3>1 DEF CommitFails, InStage, TypeOK, Runs
    <3>2. CASE run[p].at = "mark" /\ Leave(p, "FAILED") /\ UNCHANGED stage
      <4>1. run' \in [Procs -> Runs]
        BY <1>2, <3>2 DEF Leave, Locked, Answers
      <4> QED
        BY <2>11, <3>2, <4>1 DEF CommitFails, TypeOK, Runs
    <3> QED
      BY <2>11, <3>1, <3>2 DEF CommitFails
  <2>12. CASE Abort(p)
    <3>1. run' \in [Procs -> Runs]
      BY <1>2, <2>12 DEF Abort, Leave, Locked, Answers
    <3> QED
      BY <2>12, <3>1 DEF Abort, TypeOK, Runs
  <2>13. CASE release_lock(p)
    <3>1. run' \in [Procs -> Runs]
      BY <1>1, <2>13 DEF release_lock, Unlocked
    <3> QED
      BY <2>0, <2>13, <3>1 DEF release_lock, TypeOK, Runs
  <2> QED
    BY <1>5, <2>1, <2>2, <2>3, <2>4, <2>5, <2>6, <2>7, <2>8, <2>9, <2>10, <2>11, <2>12, <2>13
       DEF Step
<1>6. ASSUME NEW p \in Procs, NEW i \in Ids, NEW mode \in Modes, Start(p, i, mode)
      PROVE  TypeOK'
  <2>1. runs + 1 \in 0..MaxRuns /\ 1 \in 1..(Len(ROLES) + 1)
    BY <1>6 DEF Start, TypeOK, Runs
  <2>2. [at |-> "transactions", id |-> i, mode |-> mode, role |-> 1,
         attempt |-> runs + 1, answer |-> "NONE"] \in Runs
    BY <2>1 DEF Unlocked, Answers, Runs
  <2> QED
    BY <1>6, <2>1, <2>2 DEF Start, TypeOK, Runs
<1>7. ASSUME NEW p \in Procs, Crash(p) PROVE TypeOK'
  <2>1. run' \in [Procs -> Runs]
    BY <1>2, <1>7 DEF Crash, Return, Unlocked, Answers
  <2> QED
    BY <1>7, <2>1 DEF Crash, TypeOK, Runs
<1>8. ASSUME NEW d \in Dates, ReviewLock(d) PROVE TypeOK'
  BY <1>8 DEF ReviewLock, TypeOK, Runs
<1>9. CASE UNCHANGED vars
  BY <1>9 DEF vars, TypeOK, Runs
<1> QED
  BY <1>5, <1>6, <1>7, <1>8, <1>9 DEF Next

(***************************************************************************)
(* What a step of p can change.                                            *)
(***************************************************************************)
Frame(p) ==
    /\ runs' = runs
    /\ \A q \in Procs \ {p} : run'[q] = run[q]
    /\ \A q \in Procs : run'[q].attempt = run[q].attempt /\ run'[q].id = run[q].id
    /\ run[p].at # "idle"
    /\ \A i \in Ids : (i = run[p].id => run[p].at \notin Locked) =>
                          stage'[i] = stage[i] /\ trans'[i] = trans[i]

LEMMA StepFrame ==
  ASSUME TypeOK, NEW p \in Procs, Step(p)
  PROVE  Frame(p)
<1> DEFINE OtherRuns == /\ \A q \in Procs \ {p} : run'[q] = run[q]
                        /\ \A q \in Procs : run'[q].attempt = run[q].attempt /\ run'[q].id = run[q].id
           Dirs == \A i \in Ids : (i = run[p].id => run[p].at \notin Locked) =>
                                   stage'[i] = stage[i] /\ trans'[i] = trans[i]
<1>0. run[p].id \in Ids
  BY DEF TypeOK
<1>1. ASSUME NEW a, Goto(p, a) PROVE OtherRuns
  BY <1>1 DEF Goto, TypeOK
<1>2. ASSUME NEW a, NEW b, Finish(p, a, b) PROVE OtherRuns
  BY <1>2 DEF Finish, TypeOK
<1>3. Component(p) => OtherRuns
  BY DEF Component, TypeOK
<1>4. OtherRuns
  BY <1>1, <1>2, <1>3 DEF Step, Return, Leave, fail_stage, CheckTransactions, CheckStaging,
     assess_resume, acquire_lock, MakeStage, PrepareStage, ComponentFails, Reconcile,
     CommitChecks, Publish, Mark, CommitFails, Abort, release_lock
<1>5. CASE CheckTransactions(p) \/ CheckStaging(p) \/ assess_resume(p)
           \/ acquire_lock(p) \/ release_lock(p) \/ Abort(p)
  BY <1>4, <1>5 DEF CheckTransactions, CheckStaging, assess_resume, acquire_lock, release_lock,
     Abort, Frame
<1>6. CASE MakeStage(p)
  <2>1. runs' = runs /\ run[p].at \in Locked \ {"idle"}
    BY <1>6 DEF MakeStage, Locked
  <2>2. Dirs
    BY <1>0, <1>6 DEF MakeStage, TypeOK, Locked
  <2> QED
    BY <1>4, <2>1, <2>2 DEF Frame
<1>7. CASE PrepareStage(p)
  <2>1. runs' = runs /\ run[p].at \in Locked \ {"idle"}
    BY <1>7 DEF PrepareStage, Locked
  <2>2. Dirs
    BY <1>0, <1>7 DEF PrepareStage, TypeOK, Locked
  <2> QED
    BY <1>4, <2>1, <2>2 DEF Frame
<1>8. CASE Component(p)
  <2>1. runs' = runs /\ run[p].at \in Locked \ {"idle"}
    BY <1>8 DEF Component, Locked
  <2>2. Dirs
    BY <1>0, <1>8 DEF Component, TypeOK, Locked
  <2> QED
    BY <1>4, <2>1, <2>2 DEF Frame
<1>9. CASE ComponentFails(p)
  <2>1. runs' = runs /\ run[p].at \in Locked \ {"idle"}
    BY <1>9 DEF ComponentFails, Locked
  <2>2. Dirs
    BY <1>0, <1>9 DEF ComponentFails, TypeOK, Locked
  <2> QED
    BY <1>4, <2>1, <2>2 DEF Frame
<1>10. CASE Reconcile(p)
  <2>1. runs' = runs /\ run[p].at \in Locked \ {"idle"}
    BY <1>10 DEF Reconcile, Locked
  <2>2. Dirs
    BY <1>0, <1>10 DEF Reconcile, TypeOK, Locked
  <2> QED
    BY <1>4, <2>1, <2>2 DEF Frame
<1>11. CASE CommitChecks(p)
  <2>1. runs' = runs /\ run[p].at \in Locked \ {"idle"}
    BY <1>11 DEF CommitChecks, Locked
  <2>2. Dirs
    BY <1>0, <1>11 DEF CommitChecks, TypeOK, Locked
  <2> QED
    BY <1>4, <2>1, <2>2 DEF Frame
<1>12. CASE Publish(p)
  <2>1. runs' = runs /\ run[p].at \in Locked \ {"idle"}
    BY <1>12 DEF Publish, Locked
  <2>2. Dirs
    BY <1>0, <1>12 DEF Publish, TypeOK, Locked
  <2> QED
    BY <1>4, <2>1, <2>2 DEF Frame
<1>13. CASE Mark(p)
  <2>1. runs' = runs /\ run[p].at \in Locked \ {"idle"}
    BY <1>13 DEF Mark, Locked
  <2>2. Dirs
    BY <1>0, <1>13 DEF Mark, TypeOK, Locked
  <2> QED
    BY <1>4, <2>1, <2>2 DEF Frame
<1>14. CASE CommitFails(p)
  <2>1. runs' = runs /\ run[p].at \in Locked \ {"idle"}
    BY <1>14 DEF CommitFails, Locked
  <2>2. Dirs
    BY <1>0, <1>14 DEF CommitFails, fail_stage, TypeOK, Locked
  <2> QED
    BY <1>4, <2>1, <2>2 DEF Frame
<1> QED
  BY <1>5, <1>6, <1>7, <1>8, <1>9, <1>10, <1>11, <1>12, <1>13, <1>14 DEF Step

(* Where a step of p leads, and what it does to the lock of its date. *)
LEMMA StepLock ==
  ASSUME TypeOK, Holders, NEW p \in Procs, Step(p)
  PROVE  /\ run'[p].at \in Locked => lock'[run[p].id.date] = run[p].attempt
         /\ \A d \in Dates : lock'[d] # lock[d] =>
               \/ lock[d] = 0
               \/ lock[d] = run[p].attempt /\ run'[p].at = "idle"
<1>0. run[p].id.date \in Dates
  BY DEF TypeOK, Ids
<1>1. CASE CheckTransactions(p) \/ CheckStaging(p) \/ assess_resume(p)
  BY <1>1 DEF CheckTransactions, CheckStaging, assess_resume, Goto, Return, Finish, TypeOK, Locked
<1>2. CASE acquire_lock(p)
  BY <1>0, <1>2 DEF acquire_lock, Goto, Return, Finish, TypeOK, Locked
<1>3. CASE release_lock(p)
  BY <1>0, <1>3 DEF release_lock, Goto, Finish, TypeOK, Locked
<1>4. CASE run[p].at \in Locked /\ UNCHANGED lock
  BY <1>4 DEF Holders
<1> QED
  BY <1>1, <1>2, <1>3, <1>4 DEF Step, MakeStage, PrepareStage, Component, ComponentFails,
     Reconcile, CommitChecks, Publish, Mark, CommitFails, Abort, Locked

(***************************************************************************)
(* The invariant is kept by every step.                                    *)
(***************************************************************************)
LEMMA AttemptsNext == Inv /\ [Next]_vars => Attempts'
<1> SUFFICES ASSUME TypeOK, Attempts, [Next]_vars PROVE Attempts'
  BY DEF Inv
<1>1. ASSUME NEW p \in Procs, Step(p) PROVE Attempts'
  BY <1>1, StepFrame DEF Attempts, Frame
<1>2. ASSUME NEW p \in Procs, NEW i \in Ids, NEW mode \in Modes, Start(p, i, mode)
      PROVE  Attempts'
  <2>1. /\ \A q \in Procs \ {p} : run'[q] = run[q]
        /\ run'[p].attempt = runs + 1
        /\ runs' = runs + 1 /\ runs \in Nat
    BY <1>2, MaxRunsAssumption DEF Start, TypeOK
  <2> QED
    BY <2>1 DEF Attempts
<1>3. ASSUME NEW p \in Procs, Crash(p) PROVE Attempts'
  BY <1>3 DEF Crash, Return, Finish, Attempts, TypeOK
<1>4. ASSUME NEW d \in Dates, ReviewLock(d) PROVE Attempts'
  BY <1>4 DEF ReviewLock, Attempts
<1>5. CASE UNCHANGED vars
  BY <1>5 DEF vars, Attempts
<1> QED
  BY <1>1, <1>2, <1>3, <1>4, <1>5 DEF Next

LEMMA HoldersNext == Inv /\ [Next]_vars => Holders'
<1> SUFFICES ASSUME TypeOK, Attempts, Holders, [Next]_vars,
                    NEW q \in Procs, run'[q].at \in Locked
             PROVE  lock'[run'[q].id.date] = run'[q].attempt
  BY DEF Inv, Holders
<1>0. run[q].id.date \in Dates
  BY DEF TypeOK, Ids
<1>1. ASSUME NEW p \in Procs, Step(p)
      PROVE  lock'[run'[q].id.date] = run'[q].attempt
  <2>1. CASE p = q
    BY <1>1, <2>1, StepFrame, StepLock DEF Frame
  <2>2. CASE p # q
    <3>1. run'[q] = run[q] /\ run[p].at # "idle"
      BY <1>1, <2>2, StepFrame DEF Frame
    <3>2. lock[run[q].id.date] = run[q].attempt /\ run[q].attempt # 0
      BY <3>1 DEF Holders, Attempts, Locked
    <3>3. run[q].attempt # run[p].attempt
      BY <2>2, <3>2 DEF Attempts
    <3> QED
      BY <1>0, <1>1, <3>1, <3>2, <3>3, StepLock
  <2> QED
    BY <2>1, <2>2
<1>2. ASSUME NEW p \in Procs, NEW i \in Ids, NEW mode \in Modes, Start(p, i, mode)
      PROVE  lock'[run'[q].id.date] = run'[q].attempt
  BY <1>2 DEF Start, TypeOK, Holders, Locked
<1>3. ASSUME NEW p \in Procs, Crash(p)
      PROVE  lock'[run'[q].id.date] = run'[q].attempt
  BY <1>3 DEF Crash, Return, Finish, TypeOK, Holders, Locked
<1>4. ASSUME NEW d \in Dates, ReviewLock(d)
      PROVE  lock'[run'[q].id.date] = run'[q].attempt
  <2>1. run' = run /\ lock[run[q].id.date] = run[q].attempt /\ run[q].at # "idle"
    BY <1>4 DEF ReviewLock, Holders, Locked
  <2>2. run[q].id.date # d
    BY <1>4, <2>1 DEF ReviewLock, Live
  <2> QED
    BY <1>0, <1>4, <2>1, <2>2 DEF ReviewLock, TypeOK
<1>5. CASE UNCHANGED vars
  BY <1>5 DEF vars, Holders
<1> QED
  BY <1>1, <1>2, <1>3, <1>4, <1>5 DEF Next

PlacesOf(p) ==
    /\ run[p].at \in Early => run[p].role = 1
    /\ run[p].at = "component" => run[p].role <= Len(ROLES)
    /\ run[p].at \in InStage => stage[run[p].id] # Absent
    /\ run[p].at = "publish" => Of(run[p].id.date, trans) = {}
    /\ run[p].at = "mark" => trans[run[p].id] # Absent

(* A step of p disturbs nobody else's place. *)
LEMMA PlacesOther ==
  ASSUME TypeOK, Attempts, Holders, Places, NEW p \in Procs, Step(p), NEW q \in Procs \ {p}
  PROVE  PlacesOf(q)'
<1>1. Frame(p)
  BY StepFrame
<1>2. run'[q] = run[q] /\ run[q].id \in Ids
  BY <1>1 DEF Frame, TypeOK
<1>3. CASE run[q].at \in Locked
  <2>1. \A i \in Ids : i.date = run[q].id.date => stage'[i] = stage[i] /\ trans'[i] = trans[i]
    BY <1>1, <1>3, Alone DEF Frame
  <2> QED
    BY <1>2, <2>1 DEF PlacesOf, Places, Of
<1>4. CASE run[q].at \notin Locked
  BY <1>2, <1>4 DEF PlacesOf, Places, Locked, InStage
<1> QED
  BY <1>3, <1>4

(* A step of p leaves p at a place it may be at. *)
LEMMA PlacesSelf ==
  ASSUME TypeOK, Places, NEW p \in Procs, Step(p)
  PROVE  PlacesOf(p)'
<1> USE Roles
<1>0. /\ run[p].id \in Ids /\ run[p].role \in 1..4 /\ run[p].attempt \in 0..MaxRuns
      /\ run[p].at \in InStage => stage[run[p].id] \in Staged
      /\ run'[p].id = run[p].id
  BY StepFrame DEF TypeOK, Places, Frame
<1>1. ASSUME NEW a, Goto(p, a) PROVE run'[p].at = a /\ run'[p].role = run[p].role
  BY <1>1 DEF Goto, TypeOK
<1>2. ASSUME NEW a, NEW b, Finish(p, a, b) PROVE run'[p].at = a
  BY <1>2 DEF Finish, TypeOK
<1>3. ASSUME run'[p].at \in {"idle", "release"} PROVE PlacesOf(p)'
  BY <1>3 DEF PlacesOf, Early, InStage
<1>4. CASE CheckTransactions(p) \/ CheckStaging(p) \/ assess_resume(p) \/ acquire_lock(p)
  BY <1>1, <1>2, <1>3, <1>4 DEF CheckTransactions, CheckStaging, assess_resume, acquire_lock,
     Return, Places, PlacesOf, Early, InStage
<1>5. CASE MakeStage(p)
  <2>1. CASE Leave(p, "RECOVERY_REQUIRED")
    BY <1>2, <1>3, <2>1 DEF Leave
  <2>2. CASE Goto(p, "prepare")
    <3>1. stage'[run[p].id] # Absent
      BY <1>0, <1>5, EmptyStaged, AbsentAssumption, <2>2 DEF MakeStage, TypeOK
    <3> QED
      BY <1>0, <1>1, <1>5, <2>2, <3>1 DEF MakeStage, Places, PlacesOf, Early, InStage
  <2> QED
    BY <1>5, <2>1, <2>2 DEF MakeStage
<1>6. ASSUME NEW s \in Staged, stage' = [stage EXCEPT ![run[p].id] = s]
      PROVE  stage'[run'[p].id] # Absent
  BY <1>0, <1>6, AbsentAssumption DEF TypeOK
<1>7. CASE PrepareStage(p)
  <2>1. stage' = [stage EXCEPT ![run[p].id] = [stage[run[p].id] EXCEPT !.ident = TRUE]]
    BY <1>7 DEF PrepareStage
  <2>2. [stage[run[p].id] EXCEPT !.ident = TRUE] \in Staged
    BY <1>0, <1>7, FlagUpdates DEF PrepareStage, InStage
  <2>3. stage'[run'[p].id] # Absent
    BY <1>6, <2>1, <2>2
  <2> QED
    BY <1>0, <1>1, <1>7, <2>3 DEF PrepareStage, Places, PlacesOf, Early, InStage
<1>8. CASE Component(p)
  <2>1. stage' = [stage EXCEPT ![run[p].id] =
                    [stage[run[p].id] EXCEPT !.files[run[p].role] = run[p].attempt]]
    BY <1>8 DEF Component
  <2>2. [stage[run[p].id] EXCEPT !.files[run[p].role] = run[p].attempt] \in Staged
    BY <1>0, <1>8, StageUpdates DEF Component, InStage
  <2>3. stage'[run'[p].id] # Absent
    BY <1>6, <2>1, <2>2
  <2>4. run' = [run EXCEPT ![p] = [run[p] EXCEPT !.role = run[p].role + 1,
                  !.at = IF run[p].role = Len(ROLES) THEN "reconcile" ELSE "component"]]
    BY <1>8 DEF Component
  <2>5. /\ run'[p].role = run[p].role + 1
        /\ run'[p].at = IF run[p].role = Len(ROLES) THEN "reconcile" ELSE "component"
    BY <2>4 DEF TypeOK
  <2>6. run[p].role <= Len(ROLES)
    BY <1>8 DEF Component, Places
  <2> QED
    BY <1>0, <2>3, <2>5, <2>6 DEF PlacesOf, Early, InStage
<1>9. CASE Reconcile(p)
  <2>1. CASE Leave(p, "NOT_COMMITTED_DRY_RUN") \/ Leave(p, "FAILED")
    BY <1>2, <1>3, <2>1 DEF Leave
  <2>2. CASE Goto(p, "commit")
    <3>1. stage' = [stage EXCEPT ![run[p].id] =
                      [stage[run[p].id] EXCEPT !.recon = run[p].attempt]]
          \/ Leave(p, "FAILED")
      BY <1>9 DEF Reconcile
    <3>2. [stage[run[p].id] EXCEPT !.recon = run[p].attempt] \in Staged
      BY <1>0, <1>9, StageUpdates DEF Reconcile, InStage
    <3>3. stage'[run'[p].id] # Absent
      BY <1>1, <1>2, <1>6, <2>2, <3>1, <3>2 DEF Leave
    <3> QED
      BY <1>1, <2>2, <3>3 DEF PlacesOf, Early, InStage
  <2> QED
    BY <1>9, <2>1, <2>2 DEF Reconcile
<1>10. CASE CommitChecks(p)
  <2>1. CASE Leave(p, "RECOVERY_REQUIRED")
    BY <1>2, <1>3, <2>1 DEF Leave
  <2>2. CASE /\ RecheckClear(p)
             /\ stage' = [stage EXCEPT ![run[p].id].chain =
                            Append(_previous_manifest_hash, run[p].id)]
             /\ Goto(p, "publish")
    <3>1. Append(_previous_manifest_hash, run[p].id) \in Seq(Ids)
      BY <1>0, PreviousType
    <3>2. [stage[run[p].id] EXCEPT !.chain = Append(_previous_manifest_hash, run[p].id)]
            \in Staged
      BY <1>0, <1>10, <3>1, ChainUpdate DEF CommitChecks, InStage
    <3>3. stage'[run'[p].id] # Absent
      BY <1>6, <2>2, <3>2
    <3>4. Of(run[p].id.date, trans') = {}
      BY <1>10, <2>2 DEF CommitChecks, RecheckClear, Of
    <3> QED
      BY <1>0, <1>1, <2>2, <3>3, <3>4 DEF PlacesOf, Early, InStage
  <2> QED
    BY <1>10, <2>1, <2>2 DEF CommitChecks
<1>11. CASE Publish(p)
  <2>1. CASE Leave(p, "RECOVERY_REQUIRED")
    BY <1>2, <1>3, <2>1 DEF Leave
  <2>2. CASE Goto(p, "mark")
    <3>1. [files |-> stage[run[p].id].files, recon |-> stage[run[p].id].recon,
           chain |-> stage[run[p].id].chain, marked |-> FALSE] \in Published
      BY <1>0, <1>11 DEF Publish, InStage, Staged, Published
    <3>2. trans'[run[p].id] # Absent
      BY <1>0, <1>1, <1>2, <1>11, <2>2, <3>1, AbsentAssumption DEF Publish, Leave, TypeOK
    <3> QED
      BY <1>0, <1>1, <2>2, <3>2 DEF PlacesOf, Early, InStage
  <2> QED
    BY <1>11, <2>1, <2>2 DEF Publish
<1>12. CASE ComponentFails(p) \/ Mark(p) \/ CommitFails(p) \/ Abort(p) \/ release_lock(p)
  BY <1>1, <1>2, <1>3, <1>12 DEF ComponentFails, Mark, CommitFails, fail_stage, Abort,
     release_lock, Leave
<1> QED
  BY <1>4, <1>5, <1>7, <1>8, <1>9, <1>10, <1>11, <1>12 DEF Step

LEMMA PlacesNext == Inv /\ [Next]_vars => Places'
<1> SUFFICES ASSUME TypeOK, Attempts, Holders, Places, [Next]_vars, NEW q \in Procs
             PROVE  PlacesOf(q)'
  BY DEF Inv, Places, PlacesOf
<1>1. ASSUME NEW p \in Procs, Step(p) PROVE PlacesOf(q)'
  BY <1>1, PlacesOther, PlacesSelf
<1>2. ASSUME NEW p \in Procs, NEW i \in Ids, NEW mode \in Modes, Start(p, i, mode)
      PROVE  PlacesOf(q)'
  BY <1>2 DEF Start, TypeOK, Places, PlacesOf, Early, InStage, Of
<1>3. ASSUME NEW p \in Procs, Crash(p) PROVE PlacesOf(q)'
  BY <1>3 DEF Crash, Return, Finish, TypeOK, Places, PlacesOf, Early, InStage, Of
<1>4. ASSUME NEW d \in Dates, ReviewLock(d) PROVE PlacesOf(q)'
  BY <1>4 DEF ReviewLock, Places, PlacesOf, Of
<1>5. CASE UNCHANGED vars
  BY <1>5 DEF vars, Places, PlacesOf, Of
<1> QED
  BY <1>1, <1>2, <1>3, <1>4, <1>5 DEF Next

(* Only a run that found its date free, under its lock, publishes. *)
LEMMA OneNext == Inv /\ [Next]_vars => OneTransactionPerDate'
<1> SUFFICES ASSUME TypeOK, Places, OneTransactionPerDate, [Next]_vars
             PROVE  OneTransactionPerDate'
  BY DEF Inv
<1>1. ASSUME NEW p \in Procs, Publish(p) PROVE OneTransactionPerDate'
  <2>1. /\ run[p].id \in Ids
        /\ \A i \in Ids \ {run[p].id} : trans'[i] = trans[i]
        /\ \A i \in Ids : i.date = run[p].id.date => trans[i] = Absent
    BY <1>1 DEF Publish, TypeOK, Places, Of
  <2> QED
    BY <2>1 DEF OneTransactionPerDate
<1>2. ASSUME NEW p \in Procs, Mark(p) PROVE OneTransactionPerDate'
  <2>1. \A i \in Ids : trans'[i] # Absent => trans[i] # Absent
    BY <1>2 DEF Mark, TypeOK, Places
  <2> QED
    BY <2>1 DEF OneTransactionPerDate
<1>3. CASE UNCHANGED trans
  BY <1>3 DEF OneTransactionPerDate
<1> QED
  BY <1>1, <1>2, <1>3 DEF Next, Step, Start, Crash, ReviewLock, vars, CheckTransactions,
     CheckStaging, assess_resume, acquire_lock, MakeStage, PrepareStage, Component,
     ComponentFails, Reconcile, CommitChecks, CommitFails, Abort, release_lock

LEMMA InvInit == Init => Inv
BY TypeInit DEF Init, Inv, TypeOK, Attempts, Holders, Places, Locked, InStage, Early,
   OneTransactionPerDate

LEMMA InvInductive == Spec => []Inv
<1>1. Inv /\ [Next]_vars => Inv'
  BY TypeNext, AttemptsNext, HoldersNext, PlacesNext, OneNext DEF Inv
<1> QED
  BY <1>1, InvInit, PTL DEF Spec

(* Stages, transactions, locks and runs stay well formed whatever the runs of   *)
(* the runner do and wherever they die.                                         *)
THEOREM TypeInvariant == Spec => []TypeOK
BY InvInductive, PTL DEF Inv

(* No date is ever published twice (check_duplicate in commit, the date lock).  *)
THEOREM OnePerDate == Spec => []OneTransactionPerDate
BY InvInductive, PTL DEF Inv

(***************************************************************************)
(* What is in the stage of a run while the run works on it is its own.      *)
(***************************************************************************)
Own(d, n) == \A r \in 1..Len(ROLES) : d.files[r] = n
WorkOf(p) ==
    /\ run[p].at = "component" =>
         \A r \in 1..(run[p].role - 1) : stage[run[p].id].files[r] = run[p].attempt
    /\ run[p].at \in {"reconcile", "commit", "publish"} => Own(stage[run[p].id], run[p].attempt)
    /\ run[p].at \in {"commit", "publish"} => stage[run[p].id].recon = run[p].attempt
Work == \A p \in Procs : WorkOf(p)
OfOneRun ==
    \A i \in Ids : trans[i] # Absent =>
        \E n \in 1..runs : trans[i].recon = n /\ Own(trans[i], n)

LEMMA WorkOther ==
  ASSUME TypeOK, Attempts, Holders, Work, NEW p \in Procs, Step(p), NEW q \in Procs \ {p}
  PROVE  WorkOf(q)'
<1>1. Frame(p)
  BY StepFrame
<1>2. run'[q] = run[q] /\ run[q].id \in Ids
  BY <1>1 DEF Frame, TypeOK
<1>3. CASE run[q].at \in Locked
  <2>1. stage'[run[q].id] = stage[run[q].id]
    BY <1>1, <1>2, <1>3, Alone DEF Frame
  <2> QED
    BY <1>2, <2>1 DEF WorkOf, Work, Own
<1>4. CASE run[q].at \notin Locked
  BY <1>2, <1>4 DEF WorkOf, Locked
<1> QED
  BY <1>3, <1>4

LEMMA WorkSelf ==
  ASSUME TypeOK, Places, Work, NEW p \in Procs, Step(p)
  PROVE  WorkOf(p)'
<1> USE Roles
<1>0. /\ run[p].id \in Ids /\ run[p].role \in 1..4 /\ run[p].attempt \in 0..MaxRuns
      /\ run[p].at \in InStage => stage[run[p].id] \in Staged
      /\ run'[p].id = run[p].id /\ run'[p].attempt = run[p].attempt
  BY StepFrame DEF TypeOK, Places, Frame
<1>1. ASSUME NEW a, Goto(p, a) PROVE run'[p].at = a /\ run'[p].role = run[p].role
  BY <1>1 DEF Goto, TypeOK
<1>2. ASSUME NEW a, NEW b, Finish(p, a, b) PROVE run'[p].at = a
  BY <1>2 DEF Finish, TypeOK
<1>3. ASSUME run'[p].at \notin {"component", "reconcile", "commit", "publish"}
      PROVE  WorkOf(p)'
  BY <1>3 DEF WorkOf
<1>4. CASE \/ CheckTransactions(p) \/ CheckStaging(p) \/ assess_resume(p) \/ acquire_lock(p)
           \/ MakeStage(p) \/ ComponentFails(p) \/ Publish(p) \/ Mark(p) \/ CommitFails(p)
           \/ Abort(p) \/ release_lock(p)
  <2>1. CASE CheckTransactions(p) \/ CheckStaging(p) \/ assess_resume(p)
    BY <1>1, <1>2, <1>3, <2>1 DEF CheckTransactions, CheckStaging, assess_resume, Return
  <2>2. CASE acquire_lock(p) \/ MakeStage(p)
    BY <1>1, <1>2, <1>3, <2>2 DEF acquire_lock, MakeStage, Return, Leave
  <2>3. CASE ComponentFails(p) \/ Mark(p) \/ CommitFails(p)
    BY <1>2, <1>3, <2>3 DEF ComponentFails, Mark, CommitFails, fail_stage, Leave
  <2>4. CASE Publish(p)
    BY <1>1, <1>2, <1>3, <2>4 DEF Publish, Leave
  <2>5. CASE Abort(p) \/ release_lock(p)
    BY <1>1, <1>2, <1>3, <2>5 DEF Abort, release_lock, Leave
  <2> QED
    BY <1>4, <2>1, <2>2, <2>3, <2>4, <2>5
<1>5. CASE PrepareStage(p)
  BY <1>0, <1>1, <1>5 DEF PrepareStage, Places, Early, WorkOf
<1>6. CASE Component(p)
  <2>1. stage'[run[p].id] = [stage[run[p].id] EXCEPT !.files[run[p].role] = run[p].attempt]
    BY <1>0, <1>6 DEF Component, TypeOK
  <2>2. stage'[run[p].id].files = [stage[run[p].id].files EXCEPT ![run[p].role] = run[p].attempt]
    <3>1. stage[run[p].id] \in Staged
      BY <1>0, <1>6 DEF Component, InStage
    <3> QED
      BY <2>1, <3>1 DEF Staged
  <2>3. run' = [run EXCEPT ![p] = [run[p] EXCEPT !.role = run[p].role + 1,
                  !.at = IF run[p].role = Len(ROLES) THEN "reconcile" ELSE "component"]]
    BY <1>6 DEF Component
  <2>4. /\ run'[p].role = run[p].role + 1
        /\ run'[p].at = IF run[p].role = Len(ROLES) THEN "reconcile" ELSE "component"
    BY <2>3 DEF TypeOK
  <2>5. /\ run[p].role <= Len(ROLES)
        /\ stage[run[p].id].files \in [1..Len(ROLES) -> 0..MaxRuns]
        /\ \A r \in 1..(run[p].role - 1) : stage[run[p].id].files[r] = run[p].attempt
    BY <1>0, <1>6 DEF Component, Places, InStage, Staged, Work, WorkOf
  <2>6. \A r \in 1..run[p].role : stage'[run[p].id].files[r] = run[p].attempt
    BY <1>0, <2>2, <2>5
  <2> QED
    BY <1>0, <2>4, <2>5, <2>6 DEF WorkOf, Own
<1>7. CASE Reconcile(p)
  <2>1. CASE Leave(p, "NOT_COMMITTED_DRY_RUN") \/ Leave(p, "FAILED")
    BY <1>2, <1>3, <2>1 DEF Leave
  <2>2. CASE ~Leave(p, "FAILED") /\ Goto(p, "commit")
    <3>1. stage'[run[p].id] = [stage[run[p].id] EXCEPT !.recon = run[p].attempt]
      BY <1>0, <1>7, <2>2 DEF Reconcile, TypeOK
    <3>2. /\ stage'[run[p].id].files = stage[run[p].id].files
          /\ stage'[run[p].id].recon = run[p].attempt
      BY <1>0, <1>7, <3>1 DEF Reconcile, InStage, Staged
    <3> QED
      <4>1. run[p].at = "reconcile" /\ run'[p].at = "commit"
        BY <1>1, <1>7, <2>2 DEF Reconcile
      <4>2. \A r \in 1..Len(ROLES) : stage[run[p].id].files[r] = run[p].attempt
        BY <4>1 DEF Work, WorkOf, Own
      <4> QED
        BY <1>0, <3>2, <4>1, <4>2 DEF WorkOf, Own
  <2> QED
    BY <1>7, <2>1, <2>2 DEF Reconcile
<1>8. CASE CommitChecks(p)
  <2>1. CASE Leave(p, "RECOVERY_REQUIRED")
    BY <1>2, <1>3, <2>1 DEF Leave
  <2>2. CASE /\ stage' = [stage EXCEPT ![run[p].id].chain =
                            Append(_previous_manifest_hash, run[p].id)]
             /\ Goto(p, "publish")
    <3>1. stage'[run[p].id] = [stage[run[p].id] EXCEPT !.chain =
                                 Append(_previous_manifest_hash, run[p].id)]
      BY <1>0, <2>2 DEF TypeOK
    <3>2. /\ stage'[run[p].id].files = stage[run[p].id].files
          /\ stage'[run[p].id].recon = stage[run[p].id].recon
      BY <1>0, <1>8, <3>1 DEF CommitChecks, InStage, Staged
    <3> QED
      <4>1. run[p].at = "commit" /\ run'[p].at = "publish"
        BY <1>1, <1>8, <2>2 DEF CommitChecks
      <4>2. /\ Own(stage[run[p].id], run[p].attempt)
            /\ stage[run[p].id].recon = run[p].attempt
        BY <4>1 DEF Work, WorkOf
      <4> QED
        BY <1>0, <3>2, <4>1, <4>2 DEF WorkOf, Own
  <2> QED
    BY <1>8, <2>1, <2>2 DEF CommitChecks
<1> QED
  BY <1>4, <1>5, <1>6, <1>7, <1>8 DEF Step

LEMMA WorkNext == Inv /\ Work /\ [Next]_vars => Work'
<1> SUFFICES ASSUME TypeOK, Attempts, Holders, Places, Work, [Next]_vars, NEW q \in Procs
             PROVE  WorkOf(q)'
  BY DEF Inv, Work
<1>1. ASSUME NEW p \in Procs, Step(p) PROVE WorkOf(q)'
  BY <1>1, WorkOther, WorkSelf
<1>2. ASSUME NEW p \in Procs, NEW i \in Ids, NEW mode \in Modes, Start(p, i, mode)
      PROVE  WorkOf(q)'
  BY <1>2 DEF Start, TypeOK, Work, WorkOf, Own
<1>3. ASSUME NEW p \in Procs, Crash(p) PROVE WorkOf(q)'
  BY <1>3 DEF Crash, Return, Finish, TypeOK, Work, WorkOf, Own
<1>4. ASSUME NEW d \in Dates, ReviewLock(d) PROVE WorkOf(q)'
  BY <1>4 DEF ReviewLock, Work, WorkOf, Own
<1>5. CASE UNCHANGED vars
  BY <1>5 DEF vars, Work, WorkOf, Own
<1> QED
  BY <1>1, <1>2, <1>3, <1>4, <1>5 DEF Next

LEMMA OfOneRunNext == Inv /\ Work /\ OfOneRun /\ [Next]_vars => OfOneRun'
<1> SUFFICES ASSUME Inv, Work, OfOneRun, [Next]_vars PROVE OfOneRun'
  OBVIOUS
<1> TypeOK /\ Attempts /\ Places
  BY DEF Inv
<1> runs' \in Nat
  BY TypeNext, MaxRunsAssumption DEF TypeOK
<1> SUFFICES ASSUME NEW i \in Ids, trans'[i] # Absent
             PROVE  \E n \in 1..runs' : trans'[i].recon = n /\ Own(trans'[i], n)
  BY DEF OfOneRun, Own
<1>0. runs \in Nat /\ runs <= runs'
  <2>1. runs \in Nat
    BY MaxRunsAssumption DEF TypeOK
  <2>2. ASSUME NEW p \in Procs, Step(p) PROVE runs' = runs
    BY <2>2, StepFrame DEF Frame
  <2>3. runs' = runs \/ runs' = runs + 1
    BY <2>2 DEF Next, vars, Start, Crash, ReviewLock
  <2> QED
    BY <2>1, <2>3
<1>1. ASSUME NEW p \in Procs, Publish(p), i = run[p].id, trans[i] = Absent
      PROVE  \E n \in 1..runs' : trans'[i].recon = n /\ Own(trans'[i], n)
  <2>1. trans'[i] = [files |-> stage[i].files, recon |-> stage[i].recon,
                     chain |-> stage[i].chain, marked |-> FALSE]
    BY <1>1 DEF Publish, TypeOK
  <2>2. Own(stage[i], run[p].attempt) /\ stage[i].recon = run[p].attempt
    BY <1>1 DEF Publish, Work, WorkOf
  <2>3. run[p].attempt \in 1..runs'
    BY <1>0, <1>1 DEF Publish, Attempts
  <2> QED
    BY <2>1, <2>2, <2>3 DEF Own
<1>2. ASSUME NEW p \in Procs, Mark(p), i = run[p].id
      PROVE  \E n \in 1..runs' : trans'[i].recon = n /\ Own(trans'[i], n)
  <2>1. trans[i] \in Published
    BY <1>2 DEF Mark, Places, TypeOK
  <2>2. trans'[i] = [trans[i] EXCEPT !.marked = TRUE]
    BY <1>2 DEF Mark, TypeOK
  <2>3. trans'[i].recon = trans[i].recon /\ trans'[i].files = trans[i].files
    BY <2>1, <2>2 DEF Published
  <2> QED
    BY <1>0, <2>1, <2>3, AbsentAssumption DEF OfOneRun, Own
<1>3. CASE trans'[i] = trans[i]
  BY <1>0, <1>3 DEF OfOneRun, Own
<1>4. ASSUME NEW p \in Procs, Publish(p), i # run[p].id \/ trans[i] # Absent
      PROVE  trans'[i] = trans[i]
  BY <1>4 DEF Publish, TypeOK
<1>5. ASSUME NEW p \in Procs, Mark(p), i # run[p].id
      PROVE  trans'[i] = trans[i]
  BY <1>5 DEF Mark, TypeOK
<1>6. CASE UNCHANGED trans
  BY <1>3, <1>6
<1>7. (\E p \in Procs : Publish(p) \/ Mark(p)) \/ UNCHANGED trans
  BY DEF Next, Step, Start, Crash, ReviewLock, vars, CheckTransactions, CheckStaging,
     assess_resume, acquire_lock, MakeStage, PrepareStage, Component, ComponentFails, Reconcile,
     CommitChecks, CommitFails, Abort, release_lock
<1> DEFINE Goal == \E n \in 1..runs' : trans'[i].recon = n /\ Own(trans'[i], n)
<1>8. ASSUME NEW p \in Procs, Publish(p) PROVE Goal
  <2>1. CASE i = run[p].id /\ trans[i] = Absent
    BY <1>1, <1>8, <2>1
  <2>2. CASE i # run[p].id \/ trans[i] # Absent
    BY <1>3, <1>4, <1>8, <2>2
  <2> QED
    BY <2>1, <2>2
<1>9. ASSUME NEW p \in Procs, Mark(p) PROVE Goal
  <2>1. CASE i = run[p].id
    BY <1>2, <1>9, <2>1
  <2>2. CASE i # run[p].id
    BY <1>3, <1>5, <1>9, <2>2
  <2> QED
    BY <2>1, <2>2
<1> QED
  BY <1>6, <1>7, <1>8, <1>9

(* A resumed run publishes nothing the failed run before it had staged: every    *)
(* committed transaction was written by one run.                                 *)
THEOREM OneRun == Spec => []PublishedIsOfOneRun
<1>1. Init => Work /\ OfOneRun
  BY DEF Init, Work, WorkOf, OfOneRun
<1>2. Inv /\ Work /\ OfOneRun /\ [Next]_vars => (Work /\ OfOneRun)'
  BY WorkNext, OfOneRunNext
<1>3. OfOneRun => PublishedIsOfOneRun
  BY DEF OfOneRun, PublishedIsOfOneRun, Own, committed_transactions
<1> QED
  BY <1>1, <1>2, <1>3, InvInductive, PTL DEF Spec

(***************************************************************************)
(* What a run has answered.                                                 *)
(***************************************************************************)
Refusals == {"RECOVERY_REQUIRED", "FAILED", "NOT_COMMITTED_DRY_RUN"}
Unpublished == {"transactions", "staging", "assess", "lock", "mkdir", "prepare", "component",
                "reconcile", "commit", "publish"}

AnsweredAtEnd(p) == run[p].answer # "NONE" => run[p].at \in {"idle", "release"} /\ run[p].attempt # 0
NothingYet(p) == run[p].at \in Unpublished /\ trans[run[p].id] # Absent =>
                     trans[run[p].id].recon # run[p].attempt
OwnToMark(p) == run[p].at = "mark" =>
                    trans[run[p].id].recon = run[p].attempt /\ ~trans[run[p].id].marked
HonestOf(p) ==
    /\ run[p].answer \in {"COMMITTED", "ALREADY_COMMITTED_IDENTICAL"} =>
         run[p].id \in committed_transactions
    /\ run[p].answer = "CONFLICT_EXISTING_COMMIT" =>
         \E j \in committed_transactions : j.date = run[p].id.date /\ j # run[p].id
    /\ run[p].answer \in Refusals =>
         ~(run[p].id \in committed_transactions /\ trans[run[p].id].recon = run[p].attempt)
Told == \A p \in Procs : AnsweredAtEnd(p) /\ NothingYet(p) /\ OwnToMark(p) /\ HonestOf(p)

LEMMA Publishes ==
  ASSUME Inv, Work, NEW q \in Procs, Publish(q), trans' # trans
  PROVE  /\ trans[run[q].id] = Absent /\ trans'[run[q].id] # Absent
         /\ trans'[run[q].id].recon = run[q].attempt /\ ~trans'[run[q].id].marked
         /\ \A i \in Ids \ {run[q].id} : trans'[i] = trans[i]
         /\ run[q].id \in Ids /\ run[q].at = "publish"
         /\ committed_transactions' = committed_transactions
<1>0. run[q].id \in Ids /\ run[q].at = "publish" /\ trans \in [Ids -> Published \cup {Absent}]
      /\ stage[run[q].id] \in Staged
  BY DEF Inv, TypeOK, Publish, Places, InStage
<1>1. /\ trans[run[q].id] = Absent
      /\ trans' = [trans EXCEPT ![run[q].id] =
                     [files |-> stage[run[q].id].files, recon |-> stage[run[q].id].recon,
                      chain |-> stage[run[q].id].chain, marked |-> FALSE]]
  BY DEF Publish
<1>2. trans'[run[q].id] = [files |-> stage[run[q].id].files, recon |-> stage[run[q].id].recon,
                           chain |-> stage[run[q].id].chain, marked |-> FALSE]
  BY <1>0, <1>1
<1>3. trans'[run[q].id] \in Published
  BY <1>0, <1>2 DEF Staged, Published
<1>4. stage[run[q].id].recon = run[q].attempt
  BY <1>0 DEF Work, WorkOf
<1>5. \A i \in Ids \ {run[q].id} : trans'[i] = trans[i]
  BY <1>0, <1>1
<1>6. trans'[run[q].id].recon = run[q].attempt /\ ~trans'[run[q].id].marked
  BY <1>2, <1>4
<1> QED
  BY <1>0, <1>1, <1>3, <1>5, <1>6, AbsentAssumption DEF committed_transactions

LEMMA Marks ==
  ASSUME Inv, NEW q \in Procs, Mark(q)
  PROVE  /\ trans[run[q].id] # Absent /\ trans'[run[q].id] # Absent
         /\ trans'[run[q].id].recon = trans[run[q].id].recon
         /\ \A i \in Ids \ {run[q].id} : trans'[i] = trans[i]
         /\ run[q].id \in Ids /\ run[q].at = "mark"
         /\ committed_transactions' = committed_transactions \cup {run[q].id}
<1>0. run[q].id \in Ids /\ run[q].at = "mark" /\ trans \in [Ids -> Published \cup {Absent}]
      /\ trans[run[q].id] \in Published
  BY DEF Inv, TypeOK, Mark, Places
<1>1. trans' = [trans EXCEPT ![run[q].id] = [trans[run[q].id] EXCEPT !.marked = TRUE]]
  BY DEF Mark
<1>2. trans'[run[q].id] = [trans[run[q].id] EXCEPT !.marked = TRUE]
  BY <1>0, <1>1
<1>3. trans'[run[q].id] \in Published /\ trans'[run[q].id].recon = trans[run[q].id].recon
      /\ trans'[run[q].id].marked
  BY <1>0, <1>2 DEF Published
<1>4. \A i \in Ids \ {run[q].id} : trans'[i] = trans[i]
  BY <1>0, <1>1
<1> QED
  BY <1>0, <1>3, <1>4, AbsentAssumption DEF committed_transactions

LEMMA TransMoves ==
  ASSUME [Next]_vars, trans' # trans
  PROVE  \E q \in Procs : Publish(q) \/ Mark(q)
  BY DEF Next, Step, Start, Crash, ReviewLock, vars, CheckTransactions, CheckStaging,
     assess_resume, acquire_lock, MakeStage, PrepareStage, Component, ComponentFails, Reconcile,
     CommitChecks, CommitFails, Abort, release_lock

\* What was answered, and what an unpublished or published run knows, is kept by others.
LEMMA ToldKept ==
  ASSUME Inv, Work, Told, [Next]_vars, NEW p \in Procs, run'[p] = run[p]
  PROVE  AnsweredAtEnd(p)' /\ NothingYet(p)' /\ OwnToMark(p)' /\ HonestOf(p)'
<1>0. run[p].id \in Ids /\ AnsweredAtEnd(p) /\ NothingYet(p) /\ OwnToMark(p) /\ HonestOf(p)
  BY DEF Inv, TypeOK, Told
<1>1. AnsweredAtEnd(p)'
  BY <1>0 DEF AnsweredAtEnd
<1>2. CASE trans' = trans
  BY <1>0, <1>1, <1>2 DEF NothingYet, OwnToMark, HonestOf, committed_transactions
<1>3. ASSUME NEW q \in Procs \ {p}, Publish(q), trans' # trans
      PROVE  NothingYet(p)' /\ OwnToMark(p)' /\ HonestOf(p)'
  <2>1. run[p].at # "idle" => run[q].attempt # run[p].attempt
    BY <1>3, Publishes DEF Inv, Attempts
  <2>2. run[p].at = "mark" => run[p].id # run[q].id
    BY <1>3, Publishes DEF Inv, Places
  <2>3. NothingYet(p)'
    BY <1>0, <1>3, <2>1, Publishes DEF NothingYet, Unpublished
  <2>4. OwnToMark(p)'
    BY <1>0, <1>3, <2>2, Publishes DEF OwnToMark
  <2>5. HonestOf(p)'
    <3>1. run[p].id \in committed_transactions => run[p].id # run[q].id
      BY <1>3, Publishes DEF committed_transactions
    <3> QED
      BY <1>0, <1>3, <3>1, Publishes DEF HonestOf
  <2> QED
    BY <2>3, <2>4, <2>5
<1>4. ASSUME NEW q \in Procs \ {p}, Mark(q)
      PROVE  NothingYet(p)' /\ OwnToMark(p)' /\ HonestOf(p)'
  <2>1. trans[run[q].id].recon = run[q].attempt /\ run[q].attempt # 0
    BY <1>4, Marks DEF Told, OwnToMark, Inv, Attempts
  <2>2. run[q].attempt # run[p].attempt
    BY <2>1 DEF Inv, Attempts
  <2>3. NothingYet(p)'
    BY <1>0, <1>4, <2>1, <2>2, Marks DEF NothingYet
  <2>4. OwnToMark(p)'
    BY <1>0, <1>4, <2>1, <2>2, Marks DEF OwnToMark
  <2>5. HonestOf(p)'
    BY <1>0, <1>4, <2>1, <2>2, Marks DEF HonestOf
  <2> QED
    BY <2>3, <2>4, <2>5
<1>5. ASSUME Publish(p) \/ Mark(p) PROVE FALSE
  BY <1>0, <1>5 DEF Publish, Mark, Goto, Leave, Finish, Inv, TypeOK
<1>6. trans' # trans => \E q \in Procs \ {p} : Publish(q) \/ Mark(q)
  BY <1>5, TransMoves
<1> QED
  BY <1>1, <1>2, <1>3, <1>4, <1>6

LEMMA ToldSelf ==
  ASSUME Inv, Work, Told, NEW p \in Procs, Step(p), [Next]_vars
  PROVE  AnsweredAtEnd(p)' /\ NothingYet(p)' /\ OwnToMark(p)' /\ HonestOf(p)'
<1> DEFINE Goal == AnsweredAtEnd(p)' /\ NothingYet(p)' /\ OwnToMark(p)' /\ HonestOf(p)'
<1>0. /\ run[p].id \in Ids /\ AnsweredAtEnd(p) /\ NothingYet(p) /\ OwnToMark(p) /\ HonestOf(p)
      /\ run'[p].id = run[p].id /\ run'[p].attempt = run[p].attempt /\ run[p].at # "idle"
      /\ run[p].attempt # 0
  BY StepFrame DEF Inv, TypeOK, Told, Frame, Attempts
<1>1. ASSUME NEW a, Goto(p, a) PROVE run'[p].at = a /\ run'[p].answer = run[p].answer
  BY <1>1 DEF Goto, Inv, TypeOK
<1>2. ASSUME NEW a, NEW b, Finish(p, a, b) PROVE run'[p].at = a /\ run'[p].answer = b
  BY <1>2 DEF Finish, Inv, TypeOK
<1>3. ASSUME trans' = trans, run[p].at \in Unpublished, run'[p].at \in Unpublished,
             run'[p].answer = run[p].answer
      PROVE  Goal
  <2>1. run[p].answer = "NONE"
    BY <1>0, <1>3 DEF AnsweredAtEnd, Unpublished
  <2> QED
    BY <1>0, <1>3, <2>1 DEF AnsweredAtEnd, NothingYet, OwnToMark, HonestOf, Unpublished, Refusals
<1>4. ASSUME trans' = trans, run[p].at \in Unpublished, run'[p].at \in {"idle", "release"},
             run'[p].answer \in Refusals
      PROVE  Goal
  <2>1. run'[p].id \in committed_transactions' => trans'[run'[p].id].recon # run'[p].attempt
    BY <1>0, <1>4 DEF NothingYet, committed_transactions
  <2> QED
    BY <1>0, <1>4, <2>1 DEF AnsweredAtEnd, NothingYet, OwnToMark, HonestOf, Unpublished, Refusals
<1>5. CASE CheckTransactions(p)
  <2> DEFINE same == {j \in committed_transactions : j.date = run[p].id.date}
  <2>0. trans' = trans /\ run[p].at = "transactions"
    BY <1>5 DEF CheckTransactions
  <2>1. CASE \/ same = {} /\ (Goto(p, "assess") \/ Goto(p, "staging"))
             \/ same = {} /\ Return(p, "RECOVERY_REQUIRED")
    BY <1>1, <1>2, <1>3, <1>4, <2>0, <2>1 DEF Return, Refusals, Unpublished
  <2>2. ASSUME NEW j \in same,
               Return(p, IF j.key = run[p].id.key THEN "ALREADY_COMMITTED_IDENTICAL"
                                                  ELSE "CONFLICT_EXISTING_COMMIT")
        PROVE  Goal
    <3>1. j \in Ids /\ j \in committed_transactions' /\ j.date = run[p].id.date
      BY <2>0 DEF committed_transactions
    <3>2. run'[p].at = "idle"
      BY <1>2, <2>2 DEF Return
    <3>3. j.key = run[p].id.key => run'[p].answer = "ALREADY_COMMITTED_IDENTICAL"
      BY <1>2, <2>2 DEF Return
    <3>4. j.key # run[p].id.key => run'[p].answer = "CONFLICT_EXISTING_COMMIT"
      BY <1>2, <2>2 DEF Return
    <3>5. j.key = run[p].id.key => j = run[p].id
      BY <1>0, <3>1 DEF Ids
    <3>6. AnsweredAtEnd(p)' /\ NothingYet(p)' /\ OwnToMark(p)'
      BY <1>0, <3>2 DEF AnsweredAtEnd, NothingYet, OwnToMark, Unpublished
    <3>7. HonestOf(p)'
      BY <1>0, <3>1, <3>3, <3>4, <3>5 DEF HonestOf, Refusals
    <3> QED
      BY <3>6, <3>7
  <2> QED
    BY <1>5, <2>1, <2>2 DEF CheckTransactions
<1>6. CASE CheckStaging(p) \/ assess_resume(p) \/ acquire_lock(p) \/ MakeStage(p)
           \/ PrepareStage(p) \/ ComponentFails(p) \/ Reconcile(p) \/ CommitChecks(p) \/ Abort(p)
  BY <1>1, <1>2, <1>3, <1>4, <1>6 DEF CheckStaging, assess_resume, acquire_lock, MakeStage,
     PrepareStage, ComponentFails, Reconcile, CommitChecks, Abort, Return, Leave, Refusals,
     Unpublished
<1>7. CASE Component(p)
  <2>1. run' = [run EXCEPT ![p] = [run[p] EXCEPT !.role = run[p].role + 1,
                  !.at = IF run[p].role = Len(ROLES) THEN "reconcile" ELSE "component"]]
    BY <1>7 DEF Component
  <2>2. run'[p].at \in Unpublished /\ run'[p].answer = run[p].answer
    BY <2>1 DEF Inv, TypeOK, Unpublished
  <2> QED
    BY <1>3, <1>7, <2>2 DEF Component, Unpublished
<1>8. CASE Publish(p)
  <2>1. CASE trans' = trans /\ Leave(p, "RECOVERY_REQUIRED")
    BY <1>2, <1>4, <1>8, <2>1 DEF Publish, Leave, Refusals, Unpublished
  <2>2. CASE trans' # trans
    <3>1. run'[p].at = "mark" /\ run'[p].answer = run[p].answer /\ run[p].answer = "NONE"
      BY <1>0, <1>1, <1>8, <2>2 DEF Publish, AnsweredAtEnd
    <3> QED
      BY <1>0, <1>8, <2>2, <3>1, Publishes
         DEF AnsweredAtEnd, NothingYet, OwnToMark, HonestOf, Unpublished, Refusals
  <2>3. CASE trans' = trans /\ trans[run[p].id] = Absent
    <3>1. trans' = [trans EXCEPT ![run[p].id] =
                      [files |-> stage[run[p].id].files, recon |-> stage[run[p].id].recon,
                       chain |-> stage[run[p].id].chain, marked |-> FALSE]]
      BY <1>8, <2>3 DEF Publish
    <3>2. stage[run[p].id] \in Staged
      BY <1>0, <1>8 DEF Publish, Inv, TypeOK, Places, InStage
    <3>3. [files |-> stage[run[p].id].files, recon |-> stage[run[p].id].recon,
           chain |-> stage[run[p].id].chain, marked |-> FALSE] \in Published
      BY <3>2 DEF Staged, Published
    <3>4. trans'[run[p].id] # Absent
      BY <1>0, <3>1, <3>3, AbsentAssumption DEF Inv, TypeOK
    <3> QED
      BY <2>3, <3>4
  <2> QED
    BY <1>8, <2>1, <2>2, <2>3 DEF Publish
<1>9. CASE Mark(p)
  <2>1. run'[p].at = "release" /\ run'[p].answer = "COMMITTED"
    BY <1>2, <1>9 DEF Mark, Leave
  <2> QED
    BY <1>0, <1>9, <2>1, Marks
       DEF AnsweredAtEnd, NothingYet, OwnToMark, HonestOf, Unpublished, Refusals
<1>10. CASE CommitFails(p)
  <2>1. CASE run[p].at \in {"commit", "publish"} /\ fail_stage(p)
    BY <1>2, <1>4, <1>10, <2>1 DEF CommitFails, fail_stage, Leave, Refusals, Unpublished
  <2>2. CASE run[p].at = "mark" /\ Leave(p, "FAILED")
    <3>1. run'[p].at = "release" /\ run'[p].answer = "FAILED" /\ trans' = trans
      BY <1>2, <1>10, <2>2 DEF CommitFails, Leave
    <3>2. run[p].id \notin committed_transactions'
      BY <1>0, <2>2, <3>1 DEF OwnToMark, committed_transactions
    <3> QED
      BY <1>0, <3>1, <3>2
         DEF AnsweredAtEnd, NothingYet, OwnToMark, HonestOf, Unpublished, Refusals
  <2> QED
    BY <1>10, <2>1, <2>2 DEF CommitFails
<1>11. CASE release_lock(p)
  <2>1. run'[p].at = "idle" /\ run'[p].answer = run[p].answer /\ trans' = trans
    BY <1>1, <1>11 DEF release_lock
  <2> QED
    BY <1>0, <2>1 DEF AnsweredAtEnd, NothingYet, OwnToMark, HonestOf, Unpublished,
       committed_transactions
<1> QED
  BY <1>5, <1>6, <1>7, <1>8, <1>9, <1>10, <1>11 DEF Step

LEMMA ToldNext == Inv /\ Work /\ OfOneRun /\ Told /\ [Next]_vars => Told'
<1> SUFFICES ASSUME Inv, Work, OfOneRun, Told, [Next]_vars, NEW q \in Procs
             PROVE  AnsweredAtEnd(q)' /\ NothingYet(q)' /\ OwnToMark(q)' /\ HonestOf(q)'
  BY DEF Told
<1>0. run \in [Procs -> [at : Unlocked \cup Locked, id : Ids, mode : Modes,
                         role : 1..(Len(ROLES) + 1), attempt : 0..MaxRuns, answer : Answers]]
  BY DEF Inv, TypeOK
<1>1. ASSUME NEW p \in Procs, Step(p)
      PROVE  AnsweredAtEnd(q)' /\ NothingYet(q)' /\ OwnToMark(q)' /\ HonestOf(q)'
  <2>1. p # q => run'[q] = run[q]
    BY <1>1, StepFrame DEF Inv, Frame
  <2> QED
    BY <1>1, <2>1, ToldKept, ToldSelf
<1>2. ASSUME NEW p \in Procs, NEW i \in Ids, NEW mode \in Modes, Start(p, i, mode)
      PROVE  AnsweredAtEnd(q)' /\ NothingYet(q)' /\ OwnToMark(q)' /\ HonestOf(q)'
  <2>1. CASE p # q
    <3>1. run'[q] = run[q]
      BY <1>0, <1>2, <2>1 DEF Start
    <3> QED
      BY <3>1, ToldKept
  <2>2. CASE p = q
    <3>1. /\ run'[q].at = "transactions" /\ run'[q].id = i /\ run'[q].attempt = runs + 1
          /\ run'[q].answer = "NONE" /\ trans' = trans
      BY <1>0, <1>2, <2>2 DEF Start
    <3>2. runs \in Nat
      BY MaxRunsAssumption DEF Inv, TypeOK
    <3>3. trans[i] # Absent => trans[i].recon # runs + 1
      BY <3>2 DEF OfOneRun
    <3> QED
      BY <3>1, <3>3 DEF AnsweredAtEnd, NothingYet, OwnToMark, HonestOf, Refusals
  <2> QED
    BY <2>1, <2>2
<1>3. ASSUME NEW p \in Procs, Crash(p)
      PROVE  AnsweredAtEnd(q)' /\ NothingYet(q)' /\ OwnToMark(q)' /\ HonestOf(q)'
  <2>1. CASE p # q
    <3>1. run'[q] = run[q]
      BY <1>0, <1>3, <2>1 DEF Crash, Return, Finish
    <3> QED
      BY <3>1, ToldKept
  <2>2. CASE p = q
    <3>1. run'[q].at = "idle" /\ run'[q].answer = "NONE"
      BY <1>0, <1>3, <2>2 DEF Crash, Return, Finish
    <3> QED
      BY <3>1 DEF AnsweredAtEnd, NothingYet, OwnToMark, HonestOf, Refusals, Unpublished
  <2> QED
    BY <2>1, <2>2
<1>4. CASE UNCHANGED run
  BY <1>4, ToldKept
<1> QED
  BY <1>1, <1>2, <1>3, <1>4 DEF Next, ReviewLock, vars

(* No answer of the runner is ever refuted: what was reported committed is there, *)
(* and a run that reported a refusal or a failure has appended nothing, also when *)
(* it failed between the rename and COMMIT.json (run and commit).                 *)
THEOREM Answered == Spec => []AnswersAreHonest
<1>1. Init => Inv /\ Work /\ OfOneRun /\ Told
  BY InvInit DEF Init, Work, WorkOf, OfOneRun, Told, AnsweredAtEnd, NothingYet, OwnToMark,
     HonestOf, Unpublished, Refusals
<1>2. Inv /\ Work /\ OfOneRun /\ Told /\ [Next]_vars => (Inv /\ Work /\ OfOneRun /\ Told)'
  <2>1. Inv /\ [Next]_vars => Inv'
    BY TypeNext, AttemptsNext, HoldersNext, PlacesNext, OneNext DEF Inv
  <2> QED
    BY <2>1, WorkNext, OfOneRunNext, ToldNext
<1>3. Told => AnswersAreHonest
  BY DEF Told, HonestOf, AnswersAreHonest, Refusals
<1> QED
  BY <1>1, <1>2, <1>3, PTL DEF Spec

(***************************************************************************)
(* The runner implements the calendar.                                      *)
(***************************************************************************)
NotDry == \A p \in Procs : run[p].at \in {"commit", "publish", "mark"} => run[p].mode # "dry-run"
CalInv == Inv /\ Work /\ OfOneRun /\ Told /\ NotDry

Days == [d \in Dates |-> {Entry(i) : i \in Of(d, trans)}]
Who(p) == [id |-> run[p].id, mode |-> run[p].mode, attempt |-> run[p].attempt]
Whos == [p \in Procs |-> Who(p)]
Said == [p \in Procs |-> run[p].answer]
Date(p) == run[p].id.date
Made(p, marked) == [id |-> run[p].id, by |-> {run[p].attempt}, marked |-> marked]

(* A step moves a run, and lets it answer, but gives it no other identity.      *)
LEMMA StepKeeps ==
  ASSUME TypeOK, NEW p \in Procs, Step(p)
  PROVE  /\ Whos' = Whos
         /\ Said' = [Said EXCEPT ![p] = Said'[p]]
         /\ \A q \in Procs : run'[q].mode = run[q].mode
<1>0. run \in [Procs -> Runs] /\ run[p] \in Runs
  BY DEF TypeOK, Runs
<1> DEFINE Kept == /\ \A q \in Procs \ {p} : run'[q] = run[q]
                   /\ run'[p].id = run[p].id /\ run'[p].mode = run[p].mode
                   /\ run'[p].attempt = run[p].attempt
<1>1. ASSUME NEW a, Goto(p, a) PROVE Kept
  BY <1>0, <1>1 DEF Goto, Runs
<1>2. ASSUME NEW a, NEW b, Finish(p, a, b) PROVE Kept
  <2>1. run' = [run EXCEPT ![p] = [run[p] EXCEPT !.at = a, !.answer = b]]
    BY <1>0, <1>2 DEF Finish
  <2> QED
    BY <1>0, <2>1 DEF Runs
<1>3. Component(p) => Kept
  <2>1. ASSUME NEW r, NEW a, run' = [run EXCEPT ![p] = [run[p] EXCEPT !.role = r, !.at = a]]
        PROVE  Kept
    BY <1>0, <2>1 DEF Runs
  <2>2. ASSUME Component(p)
        PROVE  run' = [run EXCEPT ![p] = [run[p] EXCEPT !.role = run[p].role + 1,
                  !.at = IF run[p].role = Len(ROLES) THEN "reconcile" ELSE "component"]]
    BY <1>0, <2>2 DEF Component
  <2> HIDE DEF Kept
  <2> QED
    BY <2>1, <2>2
<1>4. Kept
  BY <1>1, <1>2, <1>3 DEF Step, Return, Leave, fail_stage, CheckTransactions, CheckStaging,
     assess_resume, acquire_lock, MakeStage, PrepareStage, ComponentFails, Reconcile,
     CommitChecks, Publish, Mark, CommitFails, Abort, release_lock
<1> QED
  BY <1>4 DEF Whos, Who, Said

(* Reconcile sends a dry run to the release, and the rest keeps its mode.       *)
LEMMA NotDryNext == TypeOK /\ NotDry /\ [Next]_vars => NotDry'
<1> SUFFICES ASSUME TypeOK, NotDry, [Next]_vars, NEW q \in Procs,
                    run'[q].at \in {"commit", "publish", "mark"}
             PROVE  run'[q].mode # "dry-run"
  BY DEF NotDry
<1>0. run \in [Procs -> Runs]
  BY DEF TypeOK, Runs
<1>1. CASE run'[q] = run[q]
  BY <1>1 DEF NotDry
<1>2. ASSUME Step(q) PROVE run'[q].mode # "dry-run"
  <2>1. run'[q].mode = run[q].mode
    BY <1>2, StepKeeps
  <2>2. ASSUME NEW a, NEW b, Finish(q, a, b), a \in {"idle", "release"} PROVE FALSE
    BY <1>0, <2>2 DEF Finish, Runs
  <2>3. ASSUME NEW a, Goto(q, a), a \notin {"commit", "publish", "mark"} PROVE FALSE
    BY <1>0, <2>3 DEF Goto, Runs
  <2>4. CASE CheckTransactions(q) \/ CheckStaging(q) \/ assess_resume(q) \/ acquire_lock(q)
             \/ MakeStage(q) \/ PrepareStage(q) \/ ComponentFails(q) \/ CommitFails(q)
             \/ Abort(q) \/ release_lock(q) \/ Mark(q)
    BY <2>2, <2>3, <2>4 DEF CheckTransactions, CheckStaging, assess_resume, acquire_lock,
       MakeStage, PrepareStage, ComponentFails, CommitFails, fail_stage, Abort, release_lock,
       Mark, Return, Leave
  <2>5. CASE Component(q)
    <3>1. run'[q].at \in {"component", "reconcile"}
      BY <1>0, <2>5 DEF Component, Runs
    <3> QED
      BY <3>1
  <2>6. CASE Reconcile(q)
    BY <2>1, <2>2, <2>6 DEF Reconcile, Leave
  <2>7. CASE CommitChecks(q) \/ Publish(q)
    BY <2>1, <2>7 DEF CommitChecks, Publish, NotDry
  <2> QED
    BY <1>2, <2>4, <2>5, <2>6, <2>7 DEF Step
<1>3. ASSUME NEW p \in Procs, Step(p) \/ Crash(p) \/ (\E i \in Ids, m \in Modes : Start(p, i, m))
      PROVE  \/ run'[q] = run[q]
             \/ p = q /\ Step(p)
  <2>1. CASE Step(p)
    BY <2>1, StepFrame DEF Frame
  <2>2. CASE Crash(p)
    <3>1. run'[p].at = "idle" /\ (p # q => run'[q] = run[q])
      BY <1>0, <2>2 DEF Crash, Return, Finish, Runs
    <3> QED
      BY <3>1
  <2>3. ASSUME NEW i \in Ids, NEW m \in Modes, Start(p, i, m)
        PROVE  run'[q] = run[q]
    <3>1. run'[p].at = "transactions" /\ (p # q => run'[q] = run[q])
      BY <1>0, <2>3 DEF Start, Runs
    <3> QED
      BY <3>1
  <2> QED
    BY <1>3, <2>1, <2>2, <2>3
<1> QED
  BY <1>1, <1>2, <1>3 DEF Next, ReviewLock, vars

(* The entries of a date are what its transactions say.                         *)
LEMMA DayIs ==
  ASSUME TypeOK, NEW d \in Dates
  PROVE  /\ Days[d] = {Entry(i) : i \in Of(d, trans)}
         /\ Days'[d] = {Entry(i)' : i \in Of(d, trans')}
BY DEF Days

LEMMA DaysStay == trans' = trans => Days' = Days
BY DEF Days, Entry, Of

LEMMA EntryOfOne ==
  ASSUME OfOneRun, NEW i \in Ids, trans[i] # Absent
  PROVE  \E n \in 1..runs : trans[i].recon = n /\ Entry(i).by = {n}
<1>1. PICK n \in 1..runs : trans[i].recon = n /\ Own(trans[i], n)
  BY DEF OfOneRun
<1>2. Entry(i).by = {n}
  BY <1>1 DEF Entry, Own
<1> QED
  BY <1>1, <1>2

LEMMA SameNames ==
  ASSUME NEW p \in Procs
  PROVE  /\ Calendar!Date(p) = Date(p)
         /\ \A b \in BOOLEAN : Calendar!Made(p, b) = Made(p, b)
BY DEF Calendar!Date, Calendar!Made, Date, Made

LEMMA EntryStays ==
  ASSUME NEW i, trans'[i] = trans[i]
  PROVE  Entry(i)' = Entry(i)
BY DEF Entry

LEMMA Publishing ==
  ASSUME CalInv, NEW p \in Procs, Publish(p), trans' # trans
  PROVE  Calendar!Publish(p)
<1>0. /\ run[p].id \in Ids /\ Date(p) \in Dates /\ run[p].attempt = run[p].attempt
      /\ run[p].at = "publish" /\ Of(Date(p), trans) = {}
  BY DEF CalInv, Inv, TypeOK, Publish, Places, Ids, Date
<1>1. /\ \A i \in Ids \ {run[p].id} : trans'[i] = trans[i]
      /\ trans'[run[p].id] # Absent
      /\ trans'[run[p].id].recon = run[p].attempt /\ trans'[run[p].id].marked = FALSE
      /\ trans'[run[p].id].files = stage[run[p].id].files
  <2>1. trans' = [trans EXCEPT ![run[p].id] =
                     [files |-> stage[run[p].id].files, recon |-> stage[run[p].id].recon,
                      chain |-> stage[run[p].id].chain, marked |-> FALSE]]
    BY DEF Publish
  <2>2. trans \in [Ids -> Published \cup {Absent}]
    BY DEF CalInv, Inv, TypeOK
  <2> QED
    BY <1>0, <2>1, <2>2, Publishes DEF CalInv
<1>2. \A r \in 1..Len(ROLES) : stage[run[p].id].files[r] = run[p].attempt
  BY <1>0 DEF CalInv, Work, WorkOf, Own
<1> PICK me \in Ids : me = run[p].id
  BY <1>0
<1>3. Entry(me)' = Made(p, FALSE)
  <2>1. {trans'[me].files[r] : r \in 1..Len(ROLES)} = {run[p].attempt}
    BY <1>1, <1>2, Roles
  <2> QED
    BY <1>1, <2>1 DEF Entry, Made
<1>4. Days' = [Days EXCEPT ![Date(p)] = {Made(p, FALSE)}]
  <2>1. Of(Date(p), trans') = {me}
    BY <1>0, <1>1 DEF Of, Date
  <2>2. \A d \in Dates \ {Date(p)} : Of(d, trans') = Of(d, trans)
    BY <1>0, <1>1 DEF Of, Date
  <2>3. \A d \in Dates \ {Date(p)} : \A i \in Of(d, trans) : Entry(i)' = Entry(i)
    BY <1>1, EntryStays DEF Of, Date
  <2>4. \A d \in Dates \ {Date(p)} : Days'[d] = Days[d]
    BY <2>2, <2>3 DEF Days
  <2>5. Days'[Date(p)] = {Made(p, FALSE)}
    BY <1>0, <1>3, <2>1 DEF Days
  <2> QED
    BY <2>4, <2>5 DEF Days
<1>5. Days[Date(p)] = {}
  BY <1>0 DEF Days
<1>6. /\ Said[p] = "NONE" /\ Whos[p].mode # "dry-run"
  BY <1>0 DEF CalInv, Told, AnsweredAtEnd, NotDry, Said, Whos, Who
<1>7. run'[p].answer = run[p].answer
  BY <1>1, AbsentAssumption DEF Publish, Goto, CalInv, Inv, TypeOK
<1>8. Step(p)
  BY DEF Step
<1>9. Whos' = Whos /\ Said' = Said
  BY <1>7, <1>8, StepKeeps DEF CalInv, Inv, Said
<1> QED
  BY <1>4, <1>5, <1>6, <1>9, SameNames DEF Calendar!Publish, Days, Whos, Who, Said

LEMMA Committing ==
  ASSUME CalInv, NEW p \in Procs, Mark(p)
  PROVE  Calendar!Commit(p)
<1> PICK me \in Ids : me = run[p].id
  BY DEF CalInv, Inv, TypeOK
<1>0. /\ Date(p) \in Dates /\ me.date = Date(p)
      /\ run[p].at = "mark" /\ trans[me] # Absent
      /\ trans[me].recon = run[p].attempt /\ ~trans[me].marked
      /\ trans[me] \in Published
  BY DEF CalInv, Inv, TypeOK, Mark, Places, Ids, Date, Told, OwnToMark
<1>1. /\ \A i \in Ids \ {me} : trans'[i] = trans[i]
      /\ trans'[me] # Absent /\ trans'[me] = [trans[me] EXCEPT !.marked = TRUE]
  <2>1. trans' = [trans EXCEPT ![me] = [trans[me] EXCEPT !.marked = TRUE]]
    BY DEF Mark
  <2>2. trans \in [Ids -> Published \cup {Absent}]
    BY DEF CalInv, Inv, TypeOK
  <2> QED
    BY <1>0, <2>1, <2>2, Marks DEF CalInv
<1>2. Entry(me) = Made(p, FALSE)
  <2>1. Entry(me).by = {run[p].attempt}
    BY <1>0, EntryOfOne DEF CalInv
  <2>2. trans[me].marked = FALSE
    BY <1>0 DEF Published
  <2> QED
    BY <1>0, <2>1, <2>2 DEF Entry, Made
<1>3. Entry(me)' = Made(p, TRUE)
  <2>1. /\ trans'[me].files = trans[me].files /\ trans'[me].recon = trans[me].recon
        /\ trans'[me].marked = TRUE
    BY <1>0, <1>1 DEF Published
  <2>2. Entry(me).by = {run[p].attempt}
    BY <1>2 DEF Made
  <2>3. Entry(me)' = [id |-> me, by |-> Entry(me).by, marked |-> TRUE]
    BY <2>1 DEF Entry
  <2> QED
    BY <2>2, <2>3 DEF Made
<1>4. Of(Date(p), trans) = {me}
  BY <1>0 DEF CalInv, Inv, OneTransactionPerDate, Of
<1>5. Days' = [Days EXCEPT ![Date(p)] = {Made(p, TRUE)}]
  <2>1. Of(Date(p), trans') = {me}
    BY <1>0, <1>1, <1>4 DEF Of
  <2>2. \A d \in Dates \ {Date(p)} : Of(d, trans') = Of(d, trans)
    BY <1>0, <1>1 DEF Of
  <2>3. \A d \in Dates \ {Date(p)} : \A i \in Of(d, trans) : Entry(i)' = Entry(i)
    BY <1>0, <1>1, EntryStays DEF Of
  <2>4. \A d \in Dates \ {Date(p)} : Days'[d] = Days[d]
    BY <2>2, <2>3 DEF Days
  <2>5. Days'[Date(p)] = {Made(p, TRUE)}
    BY <1>0, <1>3, <2>1 DEF Days
  <2> QED
    BY <2>4, <2>5 DEF Days
<1>6. Days[Date(p)] = {Made(p, FALSE)}
  BY <1>0, <1>2, <1>4 DEF Days
<1>7. Said[p] = "NONE"
  BY <1>0 DEF CalInv, Told, AnsweredAtEnd, Said
<1>8. Step(p)
  BY DEF Step
<1>9. run'[p].answer = "COMMITTED"
  BY DEF Mark, Leave, Finish, CalInv, Inv, TypeOK
<1>10. Whos' = Whos /\ Said' = [Said EXCEPT ![p] = "COMMITTED"]
  BY <1>8, <1>9, StepKeeps DEF CalInv, Inv, Said
<1> QED
  BY <1>5, <1>6, <1>7, <1>10, SameNames DEF Calendar!Commit, Days, Whos, Who, Said

(* A new run has a number that nobody has had.                                  *)
LEMMA Beginning ==
  ASSUME CalInv, NEW p \in Procs, NEW i \in Ids, NEW mode \in Modes, Start(p, i, mode)
  PROVE  Calendar!Begin(p)
<1>0. run \in [Procs -> Runs] /\ runs \in Nat /\ trans' = trans
  BY MaxRunsAssumption DEF CalInv, Inv, TypeOK, Runs, Start
<1>1. /\ run'[p].id = i /\ run'[p].mode = mode /\ run'[p].attempt = runs + 1
      /\ run'[p].answer = "NONE"
      /\ \A q \in Procs \ {p} : run'[q] = run[q]
  BY <1>0 DEF Start
<1>2. Whos' = [Whos EXCEPT ![p] = Whos'[p]] /\ Said' = [Said EXCEPT ![p] = "NONE"]
  BY <1>1 DEF Whos, Who, Said
<1>3. Whos'[p] = [id |-> i, mode |-> mode, attempt |-> runs + 1]
  BY <1>1 DEF Whos, Who
<1>4. \A q \in Procs : Whos[q].attempt # runs + 1
  BY <1>0 DEF CalInv, Inv, Attempts, Whos, Who
<1>5. ASSUME NEW d \in Dates, NEW e \in Days[d] PROVE runs + 1 \notin e.by
  <2>1. PICK j \in Of(d, trans) : e = Entry(j)
    BY DEF Days
  <2>2. PICK n \in 1..runs : Entry(j).by = {n}
    BY <2>1, EntryOfOne DEF Of, CalInv
  <2> QED
    BY <1>0, <2>1, <2>2
<1>6. Days' = Days
  BY <1>0, DaysStay
<1>7. Whos'[p] \in [id : Calendar!Ids, mode : Calendar!Modes, attempt : {Whos'[p].attempt}]
  BY <1>3 DEF Calendar!Ids, Ids, Calendar!Modes, Modes
<1>8. /\ \A q \in Procs : Whos[q].attempt # Whos'[p].attempt
      /\ \A d \in Dates : \A e \in Days[d] : Whos'[p].attempt \notin e.by
  BY <1>3, <1>4, <1>5
<1> QED
  BY <1>2, <1>6, <1>7, <1>8 DEF Calendar!Begin, Days, Whos, Who, Said

(* Only a mark reports a commit of its own, and only a run that has not         *)
(* answered answers.                                                            *)
LEMMA AnswersOnce ==
  ASSUME CalInv, NEW p \in Procs, Step(p), ~Mark(p), run'[p].answer # run[p].answer
  PROVE  run[p].answer = "NONE" /\ run'[p].answer # "COMMITTED"
<1>0. run \in [Procs -> Runs] /\ run[p] \in Runs
  BY DEF CalInv, Inv, TypeOK, Runs
<1>1. ASSUME NEW a, Goto(p, a) PROVE FALSE
  BY <1>0, <1>1 DEF Goto, Runs
<1>2. ASSUME NEW a, NEW b, Finish(p, a, b) PROVE run'[p].answer = b
  <2>1. run' = [run EXCEPT ![p] = [run[p] EXCEPT !.at = a, !.answer = b]]
    BY <1>0, <1>2 DEF Finish
  <2> QED
    BY <1>0, <2>1 DEF Runs
<1>3. ~Component(p)
  <2>1. Component(p) => run' = [run EXCEPT ![p] = [run[p] EXCEPT !.role = run[p].role + 1,
                  !.at = IF run[p].role = Len(ROLES) THEN "reconcile" ELSE "component"]]
    BY <1>0 DEF Component
  <2> QED
    BY <1>0, <2>1 DEF Runs
<1>4. ~release_lock(p)
  BY <1>1 DEF release_lock
<1>5. run'[p].answer # "COMMITTED" /\ run[p].at \notin {"idle", "release"}
  BY <1>1, <1>2, <1>3, <1>4 DEF Step, Return, Leave, fail_stage, CheckTransactions, CheckStaging,
     assess_resume, acquire_lock, MakeStage, PrepareStage, ComponentFails, Reconcile,
     CommitChecks, Publish, CommitFails, Abort
<1> QED
  BY <1>5 DEF CalInv, Told, AnsweredAtEnd

LEMMA Replying ==
  ASSUME CalInv, Inv', Told', NEW p \in Procs, Step(p), ~Mark(p), trans' = trans,
         run'[p].answer # run[p].answer
  PROVE  Calendar!Reply(p)
<1> PICK me \in Ids : me = run[p].id
  BY DEF CalInv, Inv, TypeOK
<1>0. /\ run'[p].id = me /\ run'[p].attempt = run[p].attempt
      /\ me.date = Date(p) /\ Date(p) \in Dates
  BY StepFrame DEF CalInv, Inv, Frame, Date, Ids
<1>1. /\ run[p].answer = "NONE" /\ run'[p].answer # "COMMITTED"
      /\ run'[p].answer \in Answers
  BY AnswersOnce DEF Inv, TypeOK
<1>2. HonestOf(p)'
  BY DEF Told
<1>3. committed_transactions' = committed_transactions
  BY DEF committed_transactions
<1>4. ASSUME NEW j \in committed_transactions, j.date = Date(p)
      PROVE  \E e \in Days[Date(p)] : e.marked /\ e.id = j
  <2>1. Entry(j) \in Days[Date(p)] /\ Entry(j).marked /\ Entry(j).id = j
    BY <1>0, <1>4 DEF Days, Of, committed_transactions, Entry
  <2> QED
    BY <2>1
<1>5. CASE run'[p].answer = "ALREADY_COMMITTED_IDENTICAL"
  <2>1. me \in committed_transactions
    BY <1>0, <1>2, <1>3, <1>5 DEF HonestOf
  <2> QED
    BY <1>0, <1>1, <1>4, <1>5, <2>1, StepKeeps, DaysStay, SameNames
       DEF Calendar!Reply, Calendar!TrueOf, Days, Whos, Who, Said, CalInv, Inv
<1>6. CASE run'[p].answer = "CONFLICT_EXISTING_COMMIT"
  <2>1. \E j \in committed_transactions : j.date = Date(p) /\ j # me
    BY <1>0, <1>2, <1>3, <1>6 DEF HonestOf
  <2>2. \E e \in Days[Date(p)] : e.marked /\ e.id # me
    BY <1>4, <2>1
  <2> QED
    BY <1>0, <1>1, <1>6, <2>2, StepKeeps, DaysStay, SameNames
       DEF Calendar!Reply, Calendar!TrueOf, Days, Whos, Who, Said, CalInv, Inv
<1>7. CASE run'[p].answer \in Refusals
  <2>1. ~(me \in committed_transactions /\ trans[me].recon = run[p].attempt)
    BY <1>0, <1>2, <1>3, <1>7 DEF HonestOf
  <2>2. Made(p, TRUE) \notin Days[Date(p)]
    <3>1. SUFFICES ASSUME NEW j \in Of(Date(p), trans), Entry(j) = Made(p, TRUE)
                   PROVE  FALSE
      BY <1>0 DEF Days
    <3>2. j = me /\ trans[me].marked /\ Entry(me).by = {run[p].attempt}
      BY <3>1 DEF Entry, Made
    <3>3. trans[me].recon = run[p].attempt /\ trans[me] # Absent
      BY <3>1, <3>2, EntryOfOne DEF CalInv, Of
    <3> QED
      BY <2>1, <3>2, <3>3 DEF committed_transactions
  <2> QED
    BY <1>0, <1>1, <1>7, <2>2, StepKeeps, DaysStay, SameNames
       DEF Calendar!Reply, Calendar!TrueOf, Days, Whos, Who, Said, CalInv, Inv, Refusals
<1> QED
  BY <1>1, <1>5, <1>6, <1>7 DEF Answers, Refusals

LEMMA CalStep ==
  ASSUME CalInv, Inv', Told', [Next]_vars
  PROVE  [Calendar!Next]_(Calendar!vars)
<1>0. run \in [Procs -> Runs]
  BY DEF CalInv, Inv, TypeOK, Runs
<1>1. ASSUME Days' = Days, Whos' = Whos, Said' = Said
      PROVE  [Calendar!Next]_(Calendar!vars)
  BY <1>1 DEF Calendar!vars, Days, Whos, Who, Said
<1>2. ASSUME NEW p \in Procs, Step(p)
      PROVE  [Calendar!Next]_(Calendar!vars)
  <2>1. CASE Mark(p)
    BY <2>1, Committing DEF Calendar!Next
  <2>2. CASE ~Mark(p) /\ trans' # trans
    <3>1. Publish(p)
      BY <1>2, <2>2 DEF Step, CheckTransactions, CheckStaging, assess_resume, acquire_lock,
         MakeStage, PrepareStage, Component, ComponentFails, Reconcile, CommitChecks,
         CommitFails, Abort, release_lock
    <3> QED
      BY <2>2, <3>1, Publishing DEF Calendar!Next
  <2>3. CASE ~Mark(p) /\ trans' = trans /\ run'[p].answer # run[p].answer
    BY <1>2, <2>3, Replying DEF Calendar!Next
  <2>4. CASE trans' = trans /\ run'[p].answer = run[p].answer
    <3>1. Said' = Said /\ Whos' = Whos
      BY <1>2, <2>4, StepKeeps DEF CalInv, Inv, Said
    <3> QED
      BY <1>1, <2>4, <3>1, DaysStay
  <2> QED
    BY <2>1, <2>2, <2>3, <2>4
<1>3. ASSUME NEW p \in Procs, Crash(p)
      PROVE  [Calendar!Next]_(Calendar!vars)
  <2>1. run' = [run EXCEPT ![p] = [run[p] EXCEPT !.at = "idle", !.answer = "NONE"]]
    BY <1>0, <1>3 DEF Crash, Return, Finish
  <2>2. Whos' = Whos /\ Said' = [Said EXCEPT ![p] = "NONE"]
    BY <1>0, <2>1 DEF Whos, Who, Said, Runs
  <2>3. Days' = Days
    BY <1>3, DaysStay DEF Crash
  <2>4. Calendar!Die(p)
    BY <2>2, <2>3 DEF Calendar!Die, Days, Whos, Who, Said
  <2> QED
    BY <2>4 DEF Calendar!Next
<1>4. CASE UNCHANGED <<trans, run>>
  BY <1>1, <1>4, DaysStay DEF Whos, Who, Said
<1> QED
  BY <1>2, <1>3, <1>4, Beginning DEF Next, ReviewLock, vars, Calendar!Next

(* The directories, the lock files and the runs are one calendar: a date has    *)
(* one entry, made by one run that is no dry run, committed by that run alone,  *)
(* and what runs report of it is true (runner.run, commit, check_duplicate).    *)
THEOREM RunnerKeepsCalendar == Spec => CalendarSpec
<1>1. Init => CalInv
  BY InvInit DEF Init, Work, WorkOf, OfOneRun, Told, AnsweredAtEnd, NothingYet, OwnToMark,
     HonestOf, Unpublished, Refusals, NotDry, CalInv
<1>2. CalInv /\ [Next]_vars => CalInv'
  <2>1. Inv /\ [Next]_vars => Inv'
    BY TypeNext, AttemptsNext, HoldersNext, PlacesNext, OneNext DEF Inv
  <2> QED
    BY <2>1, WorkNext, OfOneRunNext, ToldNext, NotDryNext DEF CalInv, Inv
<1>3. CalInv /\ CalInv' /\ [Next]_vars => [Calendar!Next]_(Calendar!vars)
  BY CalStep DEF CalInv
<1>4. Init => Calendar!Init
  <2> SUFFICES ASSUME Init PROVE Calendar!Init
    OBVIOUS
  <2>1. Days = [d \in Dates |-> {}]
    BY DEF Init, Days, Of
  <2>2. Whos \in [Procs -> [id : Calendar!Ids, mode : Calendar!Modes, attempt : {0}]]
    BY DEF Init, Whos, Who, Calendar!Ids, Ids, Calendar!Modes
  <2>3. Said = [p \in Procs |-> "NONE"]
    BY DEF Init, Said
  <2> QED
    BY <2>1, <2>2, <2>3 DEF Calendar!Init, Days, Whos, Who, Said
<1> QED
  BY <1>1, <1>2, <1>3, <1>4, PTL DEF Spec, CalendarSpec, Calendar!Spec
=============================================================================
