--------------------------- MODULE ForwardShadow ---------------------------
(***************************************************************************)
(* The append-only daily transaction of the forward-shadow runner          *)
(* (scripts/v22/forward_shadow: runner.py, protocol.py, manifest.py).      *)
(*                                                                         *)
(* One run of the command line is one process.  It looks for what is       *)
(* already there for its date, takes the lock file of the date, stages the *)
(* outputs of three components, reconciles them, writes the manifest, moves *)
(* the stage into the transactions with one rename and writes COMMIT.json  *)
(* last.  Every file operation another process or a crash can come between *)
(* is a step of its own.  The look before the lock is not protected by it; *)
(* the look inside commit() is.                                            *)
(*                                                                         *)
(* A run identity is a date and a key (the hash of everything else the run *)
(* depends on); run_id, and with it the names of the stage and of the      *)
(* transaction, is a function of it.  A process id is the number of the    *)
(* attempt.  The hash of a manifest is the sequence of identities its      *)
(* chain of predecessors runs through, its own last.                       *)
(***************************************************************************)
EXTENDS Integers, Sequences, FiniteSets

CONSTANTS Procs,        \* slots in which runs execute side by side
          Dates,        \* target dates
          Keys,         \* what a rerun with other inputs changes
          MaxRuns,      \* bound on the number of runs
          Absent        \* no such directory

Ids == [date : Dates, key : Keys]
Modes == {"production", "dry-run", "resume"}
ROLES == <<"ALPHA", "RISK", "EXECUTION">>
Staged == [files : [1..Len(ROLES) -> 0..MaxRuns], recon : 0..MaxRuns,
           ident : BOOLEAN, failed : BOOLEAN, chain : Seq(Ids)]
Published == [files : [1..Len(ROLES) -> 0..MaxRuns], recon : 0..MaxRuns,
              chain : Seq(Ids), marked : BOOLEAN]

\* Any dates have a latest one.
ASSUME DatesAssumption ==
    /\ Dates \subseteq Nat
    /\ \A S \in (SUBSET Dates) \ {{}} : \E d \in S : \A e \in S : e <= d
ASSUME MaxRunsAssumption == MaxRuns \in Nat
ASSUME AbsentAssumption == Absent \notin Staged /\ Absent \notin Published

VARIABLES stage,        \* staging_root/<run_id>
          trans,        \* transactions/<run_id>
          lock,         \* locks/<date>.lock: the attempt written in it, 0 when there is none
          run,          \* the run each process executes
          runs          \* attempts so far

vars == <<stage, trans, lock, run, runs>>

Answers == {"NONE", "COMMITTED", "ALREADY_COMMITTED_IDENTICAL", "CONFLICT_EXISTING_COMMIT",
            "RECOVERY_REQUIRED", "FAILED", "NOT_COMMITTED_DRY_RUN"}
Unlocked == {"idle", "transactions", "staging", "assess", "lock"}
Locked == {"mkdir", "prepare", "component", "reconcile", "commit", "publish", "mark", "release"}

TypeOK ==
    /\ stage \in [Ids -> Staged \cup {Absent}]
    /\ trans \in [Ids -> Published \cup {Absent}]
    /\ lock \in [Dates -> 0..MaxRuns]
    /\ run \in [Procs -> [at : Unlocked \cup Locked, id : Ids, mode : Modes,
                          role : 1..(Len(ROLES) + 1), attempt : 0..MaxRuns, answer : Answers]]
    /\ runs \in 0..MaxRuns

Init ==
    /\ stage = [i \in Ids |-> Absent]
    /\ trans = [i \in Ids |-> Absent]
    /\ lock = [d \in Dates |-> 0]
    /\ \E i \in Ids : run = [p \in Procs |-> [at |-> "idle", id |-> i, mode |-> "production",
                                              role |-> 1, attempt |-> 0, answer |-> "NONE"]]
    /\ runs = 0

-----------------------------------------------------------------------------
(* What a reader of the two directories finds.                             *)

Live == {run[p].attempt : p \in {q \in Procs : run[q].at # "idle"}}
Of(d, dirs) == {i \in Ids : i.date = d /\ dirs[i] # Absent}
committed_transactions == {i \in Ids : trans[i] # Absent /\ trans[i].marked}
partial_transactions == {i \in Ids : trans[i] # Absent /\ ~trans[i].marked}
\* a stage is found by the run_identity.json in it
StagedFor(d) == {i \in Of(d, stage) : stage[i].ident}

Latest == CHOOSE i \in committed_transactions :
              \A j \in committed_transactions : j.date <= i.date
_previous_manifest_hash ==
    IF committed_transactions = {} THEN <<>> ELSE trans[Latest].chain

Goto(p, at) == run' = [run EXCEPT ![p].at = at]
Finish(p, at, answer) == run' = [run EXCEPT ![p].at = at, ![p].answer = answer]
\* a return before the lock is taken leaves nothing; one after it goes through finally
Return(p, answer) == Finish(p, "idle", answer)
Leave(p, answer) == Finish(p, "release", answer)

fail_stage(p) ==
    /\ stage' = [stage EXCEPT ![run[p].id].failed = TRUE]
    /\ Leave(p, "FAILED")

-----------------------------------------------------------------------------
(* A run, up to the lock.                                                  *)

Start(p, i, mode) ==
    /\ run[p].at = "idle"
    /\ runs < MaxRuns
    /\ runs' = runs + 1
    /\ run' = [run EXCEPT ![p] = [at |-> "transactions", id |-> i, mode |-> mode, role |-> 1,
                                  attempt |-> runs + 1, answer |-> "NONE"]]
    /\ UNCHANGED <<stage, trans, lock>>

\* check_duplicate: the committed transactions first, then the incomplete ones
CheckTransactions(p) ==
    LET i == run[p].id
        same == {j \in committed_transactions : j.date = i.date}
    IN  /\ run[p].at = "transactions"
        /\ \/ \E j \in same :
                Return(p, IF j.key = i.key THEN "ALREADY_COMMITTED_IDENTICAL"
                                           ELSE "CONFLICT_EXISTING_COMMIT")
           \/ same = {} /\ run[p].mode = "resume" /\ Goto(p, "assess")
           \/ /\ same = {} /\ run[p].mode # "resume"
              /\ IF \E j \in partial_transactions : j.date = i.date
                 THEN Return(p, "RECOVERY_REQUIRED")
                 ELSE Goto(p, "staging")
        /\ UNCHANGED <<stage, trans, lock, runs>>

\* check_duplicate: what is staged for the date
CheckStaging(p) ==
    /\ run[p].at = "staging"
    /\ IF StagedFor(run[p].id.date) # {} THEN Return(p, "RECOVERY_REQUIRED") ELSE Goto(p, "lock")
    /\ UNCHANGED <<stage, trans, lock, runs>>

assess_resume(p) ==
    LET s == stage[run[p].id] IN
    /\ run[p].at = "assess"
    /\ IF s # Absent /\ s.ident /\ s.failed THEN Goto(p, "lock") ELSE Return(p, "RECOVERY_REQUIRED")
    /\ UNCHANGED <<stage, trans, lock, runs>>

\* O_CREAT | O_EXCL; whatever the lock file says, a run that meets one ends
acquire_lock(p) ==
    LET d == run[p].id.date IN
    /\ run[p].at = "lock"
    /\ IF lock[d] = 0
       THEN lock' = [lock EXCEPT ![d] = run[p].attempt] /\ Goto(p, "mkdir")
       ELSE Return(p, "RECOVERY_REQUIRED") /\ UNCHANGED lock
    /\ UNCHANGED <<stage, trans, runs>>

-----------------------------------------------------------------------------
(* Under the lock of the date.                                             *)

EmptyStage == [files |-> [r \in 1..Len(ROLES) |-> 0], recon |-> 0,
               ident |-> FALSE, failed |-> FALSE, chain |-> <<>>]

\* prepare_stage up to stage.mkdir()
MakeStage(p) ==
    LET i == run[p].id IN
    /\ run[p].at = "mkdir"
    /\ IF stage[i] # Absent
       THEN /\ IF run[p].mode = "resume" THEN Goto(p, "prepare") ELSE Leave(p, "RECOVERY_REQUIRED")
            /\ UNCHANGED stage
       ELSE stage' = [stage EXCEPT ![i] = EmptyStage] /\ Goto(p, "prepare")
    /\ UNCHANGED <<trans, lock, runs>>

\* prepare_stage: run_identity.json and state.json
PrepareStage(p) ==
    /\ run[p].at = "prepare"
    /\ stage' = [stage EXCEPT ![run[p].id].ident = TRUE]
    /\ Goto(p, "component")
    /\ UNCHANGED <<trans, lock, runs>>

\* one component, in the order of ROLES: run, validated and staged
Component(p) ==
    LET r == run[p].role IN
    /\ run[p].at = "component"
    /\ stage' = [stage EXCEPT ![run[p].id].files[r] = run[p].attempt]
    /\ run' = [run EXCEPT ![p].role = r + 1,
                          ![p].at = IF r = Len(ROLES) THEN "reconcile" ELSE "component"]
    /\ UNCHANGED <<trans, lock, runs>>

\* it raises before its output is staged, or its staged output is not PASS
ComponentFails(p) ==
    LET i == run[p].id IN
    /\ run[p].at = "component"
    /\ \E n \in {stage[i].files[run[p].role], run[p].attempt} :
         stage' = [stage EXCEPT ![i] = [@ EXCEPT !.files[run[p].role] = n, !.failed = TRUE]]
    /\ Leave(p, "FAILED")
    /\ UNCHANGED <<trans, lock, runs>>

\* reconciliation.json is written, whatever it says
Reconcile(p) ==
    LET i == run[p].id IN
    /\ run[p].at = "reconcile"
    /\ \/ /\ stage' = [stage EXCEPT ![i].recon = run[p].attempt]
          /\ IF run[p].mode = "dry-run" THEN Leave(p, "NOT_COMMITTED_DRY_RUN") ELSE Goto(p, "commit")
       \/ /\ stage' = [stage EXCEPT ![i] = [@ EXCEPT !.recon = run[p].attempt, !.failed = TRUE]]
          /\ Leave(p, "FAILED")
    /\ UNCHANGED <<trans, lock, runs>>

-----------------------------------------------------------------------------
(* commit().                                                               *)

RecheckNot(p) == run[p].id \in StagedFor(run[p].id.date)
\* the second check_duplicate: it returns the first stage of the date that the
\* directory lists, and a run may go on when that is its own
RecheckClear(p) ==
    LET i == run[p].id IN
    /\ Of(i.date, trans) = {}
    /\ i \in StagedFor(i.date)

\* the recheck, the hashes of what is staged, the predecessor and the manifest
CommitChecks(p) ==
    LET i == run[p].id IN
    /\ run[p].at = "commit"
    /\ \/ /\ RecheckClear(p)
          /\ stage' = [stage EXCEPT ![i].chain = Append(_previous_manifest_hash, i)]
          /\ Goto(p, "publish")
       \/ /\ ~RecheckClear(p) \/ StagedFor(i.date) \ {i} # {}
          /\ Leave(p, "RECOVERY_REQUIRED")
          /\ UNCHANGED stage
    /\ UNCHANGED <<trans, lock, runs>>

\* os.replace(stage, transaction)
Publish(p) ==
    LET i == run[p].id IN
    /\ run[p].at = "publish"
    /\ IF trans[i] # Absent
       THEN Leave(p, "RECOVERY_REQUIRED") /\ UNCHANGED <<stage, trans>>
       ELSE /\ trans' = [trans EXCEPT ![i] = [files |-> stage[i].files, recon |-> stage[i].recon,
                                              chain |-> stage[i].chain, marked |-> FALSE]]
            /\ stage' = [stage EXCEPT ![i] = Absent]
            /\ Goto(p, "mark")
    /\ UNCHANGED <<lock, runs>>

\* COMMIT.json, written last
Mark(p) ==
    /\ run[p].at = "mark"
    /\ trans' = [trans EXCEPT ![run[p].id].marked = TRUE]
    /\ Leave(p, "COMMITTED")
    /\ UNCHANGED <<stage, lock, runs>>

\* an OSError inside commit(): a stage that is still there is marked failed
CommitFails(p) ==
    /\ \/ run[p].at \in {"commit", "publish"} /\ fail_stage(p)
       \/ run[p].at = "mark" /\ Leave(p, "FAILED") /\ UNCHANGED stage
    /\ UNCHANGED <<trans, lock, runs>>

\* an OSError nothing catches: finally still releases the lock
Abort(p) ==
    /\ run[p].at \in {"mkdir", "prepare", "component", "reconcile"}
    /\ Leave(p, "FAILED")
    /\ UNCHANGED <<stage, trans, lock, runs>>

release_lock(p) ==
    LET d == run[p].id.date IN
    /\ run[p].at = "release"
    /\ lock' = [lock EXCEPT ![d] = IF @ = run[p].attempt THEN 0 ELSE @]
    /\ Goto(p, "idle")
    /\ UNCHANGED <<stage, trans, runs>>

-----------------------------------------------------------------------------
(* The process dies; a person removes the lock file of a dead process.     *)

Crash(p) ==
    /\ run[p].at # "idle"
    /\ Return(p, "NONE")
    /\ UNCHANGED <<stage, trans, lock, runs>>

ReviewLock(d) ==
    /\ lock[d] # 0 /\ lock[d] \notin Live
    /\ lock' = [lock EXCEPT ![d] = 0]
    /\ UNCHANGED <<stage, trans, run, runs>>

Step(p) ==
    \/ CheckTransactions(p) \/ CheckStaging(p) \/ assess_resume(p) \/ acquire_lock(p)
    \/ MakeStage(p) \/ PrepareStage(p) \/ Component(p) \/ ComponentFails(p) \/ Reconcile(p)
    \/ CommitChecks(p) \/ Publish(p) \/ Mark(p) \/ CommitFails(p) \/ Abort(p) \/ release_lock(p)

Next ==
    \/ \E p \in Procs :
         \/ \E i \in Ids, mode \in Modes : Start(p, i, mode)
         \/ Step(p)
         \/ Crash(p)
    \/ \E d \in Dates : ReviewLock(d)

Spec == Init /\ [][Next]_vars

-----------------------------------------------------------------------------
(* Properties.                                                             *)

\* At most one transaction exists for a date, complete or not, whatever runs raced
\* for it, failed, were resumed or died: no date is published twice and a date left
\* half published is never published over (check_duplicate in commit, the date lock).
\* This and PublishedIsOfOneRun follow from CalendarSpec, which is what the run checks.
OneTransactionPerDate ==
    \A i, j \in Ids : trans[i] # Absent /\ trans[j] # Absent /\ i.date = j.date => i = j

\* All a committed transaction holds was written by one run: a resumed stage never
\* contributes an output of the run that failed in it.
PublishedIsOfOneRun ==
    \A i \in committed_transactions :
        \E n \in 1..runs : trans[i].recon = n /\ \A r \in 1..Len(ROLES) : trans[i].files[r] = n

\* What a run answered stays true: a run that reported a commit, its own or an
\* identical earlier one, has it, a reported conflict has its other commit, and a
\* run that reported neither has appended nothing (runner.py's statuses).  Proved
\* (ForwardShadow_proofs!Answered), not in a run.
AnswersAreHonest ==
    \A p \in Procs :
        LET i == run[p].id
            own == i \in committed_transactions
        IN  CASE run[p].answer \in {"COMMITTED", "ALREADY_COMMITTED_IDENTICAL"} -> own
              [] run[p].answer = "CONFLICT_EXISTING_COMMIT" ->
                     \E j \in committed_transactions : j.date = i.date /\ j # i
              [] run[p].answer \in {"RECOVERY_REQUIRED", "FAILED", "NOT_COMMITTED_DRY_RUN"} ->
                     ~(own /\ trans[i].recon = run[p].attempt)
              [] OTHER -> TRUE

\* "The final manifest records ... the preceding daily manifest SHA-256"
\* (docs/research_governance/a2_forward_shadow_unified_r1.md:109): in the order of their
\* dates, every committed manifest names the one before it and the first names none,
\* which is what validate_history_chain checks.  No run checks it: dates that are run out of
\* their order break it (README).
Predecessor(i) == SubSeq(trans[i].chain, 1, Len(trans[i].chain) - 1)
ChainIsSound ==
    \A i \in committed_transactions :
        LET before == {j \in committed_transactions : j.date < i.date}
        IN  IF before = {} THEN Predecessor(i) = <<>>
            ELSE \E j \in before : /\ \A k \in before : k.date <= j.date
                                   /\ Predecessor(i) = trans[j].chain

\* The transactions, the locks and the stages of any number of processes are one
\* calendar: a date gets one entry, the work of one run that was no dry run, which
\* only that run can commit, and every answer is true when it is given.
Entry(i) == [id |-> i, by |-> {trans[i].recon} \cup {trans[i].files[r] : r \in 1..Len(ROLES)},
             marked |-> trans[i].marked]
Calendar == INSTANCE ShadowCalendar WITH
    day <- [d \in Dates |-> {Entry(i) : i \in Of(d, trans)}],
    who <- [p \in Procs |-> [id |-> run[p].id, mode |-> run[p].mode, attempt |-> run[p].attempt]],
    answer <- [p \in Procs |-> run[p].answer]
CalendarSpec == Calendar!Spec
=============================================================================
