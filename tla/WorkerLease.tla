---------------------------- MODULE WorkerLease ----------------------------
(* The single slot for heavy child processes (applied_source.py): the module  *)
(* lock _WORKER_LOCK, the sticky quarantine _WORKER_QUARANTINE_REASON, the    *)
(* calls of DailySource._call and the one-shot jobs of _ExecutionChartsJob.   *)
(* A call is heavy (holds the lock around its child process tree) or light    *)
(* (a metadata read that runs beside the holder).  When a runner cannot prove *)
(* that its process tree ended, the quarantine is published and the lock is   *)
(* kept for ever.  The lock is a threading.Lock: it has no owner, and a       *)
(* release is not checked against the thread that acquired it.                *)
EXTENDS Naturals

CONSTANTS Callers,  \* threads that use DailySource._call
          Jobs      \* chart job objects; each runs its own thread once

(* A job's thread is created for it and never calls _call for itself.         *)
ASSUME ThreadsAreDistinct == Callers \cap Jobs = {}

Threads == Callers \cup Jobs

VARIABLES locked,      \* _WORKER_LOCK.locked()
          quarantined, \* _WORKER_QUARANTINE_REASON is set; never cleared
          pc,          \* where each thread is
          stage,       \* the child a thread runs or is about to run
          lost,        \* threads whose process tree was not proven to have ended
          cancel,      \* jobs whose _cancel_event is set
          polling,     \* jobs whose poll() has passed the quarantine test
          ended,       \* jobs whose poll() returned an exit code
          cancelled    \* jobs whose cancel() returned without an error

vars == <<locked, quarantined, pc, stage, lost, cancel, polling, ended, cancelled>>

Heavy == {"call", "legacy", "main"}   \* children that run under the lock
Light == {"status", "reader"}         \* metadata children

Go(t, place) == pc' = [pc EXCEPT ![t] = place]

Init == /\ locked = FALSE
        /\ quarantined = FALSE
        /\ pc = [t \in Threads |-> "idle"]
        /\ stage = [t \in Threads |-> "status"]
        /\ lost = {}
        /\ cancel = {}
        /\ polling = {}
        /\ ended = {}
        /\ cancelled = {}

(* _call and _ExecutionChartsJob.__init__: nothing is admitted under the      *)
(* quarantine; only a light call goes on without the lock.                    *)
Admit(t) ==
    /\ pc[t] = "idle"
    /\ ~quarantined
    /\ \E s \in IF t \in Jobs THEN {"legacy", "reader"} ELSE {"call", "status"} :
         /\ stage' = [stage EXCEPT ![t] = s]
         /\ Go(t, IF s = "status" THEN "check" ELSE "acquire")
    /\ UNCHANGED <<locked, quarantined, lost, cancel, polling, ended, cancelled>>

(* _WORKER_LOCK.acquire(timeout=...)                                          *)
Acquire(t) ==
    /\ pc[t] = "acquire"
    /\ ~locked
    /\ locked' = TRUE
    /\ Go(t, "check")
    /\ UNCHANGED <<quarantined, stage, lost, cancel, polling, ended, cancelled>>

(* A call gives up after its timeout (CANONICAL_SOURCE_WORKER_BUSY), a job    *)
(* tries again until it is cancelled.                                         *)
GiveUp(t) ==
    /\ pc[t] = "acquire"
    /\ \/ t \in Callers /\ locked /\ Go(t, "idle")
       \/ t \in cancel /\ Go(t, "done")
    /\ UNCHANGED <<locked, quarantined, stage, lost, cancel, polling, ended, cancelled>>

(* A job whose thread starts after the publication is refused before it       *)
(* waits; its handler publishes again, which only takes a free lock.          *)
Refuse(t) ==
    /\ pc[t] = "acquire"
    /\ t \in Jobs
    /\ quarantined
    /\ locked' = TRUE
    /\ Go(t, "done")
    /\ UNCHANGED <<quarantined, stage, lost, cancel, polling, ended, cancelled>>

(* _require_worker_available() again, now that the slot is owned (a light     *)
(* call: before its child).  A job that is refused publishes once more.       *)
Check(t) ==
    /\ pc[t] = "check"
    /\ Go(t, CASE ~quarantined -> "child"
               [] quarantined /\ t \in Jobs -> "publish"
               [] quarantined /\ stage[t] = "call" -> "leave"
               [] OTHER -> "idle")
    /\ UNCHANGED <<locked, quarantined, stage, lost, cancel, polling, ended, cancelled>>

(* run_provider returns and the process tree is known to have ended.  A job   *)
(* goes on from the legacy child to the metadata reader and from an accepted  *)
(* reader to the main child, unless it is cancelled or the stage failed.      *)
ChildEnds(t) ==
    /\ pc[t] = "child"
    /\ \/ /\ stage[t] = "status"
          /\ Go(t, "idle")
          /\ UNCHANGED stage
       \/ /\ stage[t] # "status"
          /\ Go(t, "leave")
          /\ UNCHANGED stage
       \/ /\ stage[t] = "legacy" /\ t \notin cancel
          /\ stage' = [stage EXCEPT ![t] = "reader"]
          /\ Go(t, "check")
       \/ /\ stage[t] = "reader" /\ t \notin cancel
          /\ stage' = [stage EXCEPT ![t] = "main"]
          /\ UNCHANGED pc
    /\ UNCHANGED <<locked, quarantined, lost, cancel, polling, ended, cancelled>>

(* run_provider returns without proof (_owned_cleanup_failure).               *)
ChildIsLost(t) ==
    /\ pc[t] = "child"
    /\ lost' = lost \cup {t}
    /\ Go(t, "publish")
    /\ UNCHANGED <<locked, quarantined, stage, cancel, polling, ended, cancelled>>

(* Mutant: the failure is remembered by the job only.                         *)
PublishNot(t) ==
    /\ pc[t] = "publish"
    /\ Go(t, "retain")
    /\ UNCHANGED <<locked, quarantined, stage, lost, cancel, polling, ended, cancelled>>

(* _quarantine_owned_worker, first statement: publish the reason ...          *)
Publish(t) ==
    /\ pc[t] = "publish"
    /\ quarantined' = TRUE
    /\ Go(t, "retain")
    /\ UNCHANGED <<locked, stage, lost, cancel, polling, ended, cancelled>>

(* Mutant: the lock is left to its next user.                                 *)
RetainNot(t) ==
    /\ pc[t] = "retain"
    /\ Go(t, IF t \in Jobs THEN "leave" ELSE "idle")
    /\ UNCHANGED <<locked, quarantined, stage, lost, cancel, polling, ended, cancelled>>

(* ... then acquire(blocking=False): after it the lock is taken, by this      *)
(* thread or by its current holder.  A call's own finally skips the release   *)
(* (cleanup_unverified); a job's finally still goes through it.               *)
Retain(t) ==
    /\ pc[t] = "retain"
    /\ locked' = TRUE
    /\ Go(t, IF t \in Jobs THEN "leave" ELSE "idle")
    /\ UNCHANGED <<quarantined, stage, lost, cancel, polling, ended, cancelled>>

After(t) == IF t \in Jobs THEN "done" ELSE "idle"

(* _release_worker_lock_if_verified, in its three steps: read the reason,     *)
(* release, read the reason again and take the lock back.                     *)
Leave(t) ==
    /\ pc[t] = "leave"
    /\ Go(t, IF quarantined THEN After(t) ELSE "release")
    /\ UNCHANGED <<locked, quarantined, stage, lost, cancel, polling, ended, cancelled>>

(* Mutant: the release does not look at the reason again.                     *)
RecheckNot(t) ==
    /\ pc[t] = "recheck"
    /\ Go(t, After(t))
    /\ UNCHANGED <<locked, quarantined, stage, lost, cancel, polling, ended, cancelled>>

Release(t) ==
    /\ pc[t] = "release"
    /\ locked' = FALSE
    /\ Go(t, "recheck")
    /\ UNCHANGED <<quarantined, stage, lost, cancel, polling, ended, cancelled>>

Recheck(t) ==
    /\ pc[t] = "recheck"
    /\ locked' = (locked \/ quarantined)
    /\ Go(t, After(t))
    /\ UNCHANGED <<quarantined, stage, lost, cancel, polling, ended, cancelled>>

(* Mutant: the end of the thread is taken for the end of the tree.            *)
CancelReturnsEarly(j) ==
    /\ j \in cancel
    /\ pc[j] = "done"
    /\ cancelled' = cancelled \cup {j}
    /\ UNCHANGED <<locked, quarantined, pc, stage, lost, cancel, polling, ended>>

(* cancel(): set the event; after the join, fail if the thread lives or the   *)
(* quarantine is set, else return: the caller then drops the handle.          *)
Cancel(j) ==
    /\ pc[j] # "idle"
    /\ cancel' = cancel \cup {j}
    /\ UNCHANGED <<locked, quarantined, pc, stage, lost, polling, ended, cancelled>>

CancelReturns(j) ==
    /\ j \in cancel
    /\ pc[j] = "done"
    /\ ~quarantined
    /\ cancelled' = cancelled \cup {j}
    /\ UNCHANGED <<locked, quarantined, pc, stage, lost, cancel, polling, ended>>

(* poll(): read the quarantine first, then whether the thread is done.        *)
Poll(j) ==
    /\ pc[j] # "idle"
    /\ ~quarantined
    /\ polling' = polling \cup {j}
    /\ UNCHANGED <<locked, quarantined, pc, stage, lost, cancel, ended, cancelled>>

PollReturns(j) ==
    /\ j \in polling
    /\ polling' = polling \ {j}
    /\ ended' = IF pc[j] = "done" THEN ended \cup {j} ELSE ended
    /\ UNCHANGED <<locked, quarantined, pc, stage, lost, cancel, cancelled>>

(* The steps a thread takes by itself once its call or job was admitted.      *)
Run(t) == \/ Acquire(t) \/ GiveUp(t) \/ Refuse(t) \/ Check(t) \/ ChildEnds(t) \/ ChildIsLost(t)
          \/ Publish(t) \/ Retain(t) \/ Leave(t) \/ Release(t) \/ Recheck(t)

Next == \/ \E t \in Threads : Admit(t) \/ Run(t)
        \/ \E j \in Jobs : \/ Cancel(j) \/ CancelReturns(j)
                           \/ Poll(j) \/ PollReturns(j)

Spec == Init /\ [][Next]_vars

(* Every acquire and every child has a timeout, and no statement between      *)
(* them blocks: an admitted thread keeps running.                             *)
FairSpec == Spec /\ \A t \in Threads : WF_vars(Run(t))

----------------------------------------------------------------------------
Places == {"idle", "acquire", "check", "child", "publish", "retain", "leave",
           "release", "recheck", "done"}

(* The type invariant of the slot.                                            *)
TypeOK == /\ locked \in BOOLEAN
          /\ quarantined \in BOOLEAN
          /\ pc \in [Threads -> Places]
          /\ stage \in [Threads -> Heavy \cup Light]
          /\ lost \subseteq Threads
          /\ cancel \subseteq Jobs
          /\ polling \subseteq Jobs
          /\ ended \subseteq Jobs
          /\ cancelled \subseteq Jobs

(* A heavy process tree of t is running, or may still be.                     *)
HeavyTree(t) == /\ stage[t] \in Heavy
                /\ pc[t] = "child" \/ t \in lost

(* "Reuse the canonical resource owner for the entire owned process tree"     *)
(* (applied_source.py:694): never two heavy trees at once, where a tree that  *)
(* was not proven to have ended still counts, although a thread without the   *)
(* lock (a light call) can publish the quarantine at any point of another's.  *)
OneHeavyTree == \A t, u \in Threads : HeavyTree(t) /\ HeavyTree(u) => t = u

(* "retain this same lock again if it became free before that publication was *)
(* seen" (applied_source.py:84): once the quarantine is published and nobody  *)
(* is inside the publication or the release, the slot is taken.               *)
QuarantineKeepsSlot ==
    quarantined => locked \/ \E t \in Threads : pc[t] \in {"retain", "recheck"}

(* A cancel() that returned is proof that the job's own tree has ended        *)
(* (the caller drops the handle, cohort.py:2305).                             *)
CancelIsProof == cancelled \cap lost = {}

(* "Thread exit is not owned-tree completion" (applied_source.py:776): an     *)
(* exit code from poll() means that the tree has ended.  No run checks it: the *)
(* status routes break it (README).                                           *)
PollIsProof == ended \cap lost = {}

(* A published quarantine closes the slot for good, whatever the threads that *)
(* were inside it when it was published do.                                   *)
QuarantineIsolates == quarantined ~> [](locked /\ \A t \in Threads : pc[t] # "child")
============================================================================
