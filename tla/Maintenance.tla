---------------------------- MODULE Maintenance ----------------------------
(* The manual maintenance lease of cohort.py over its two trading owners: the *)
(* cohort of paper books and the broker account (best_broker.py).  A client   *)
(* begins a lease, which suspends both owners, waits until they are drained,  *)
(* prepares inputs, runs the chart job and ends the lease, which starts both  *)
(* owners again if they were running and nobody asked them to stop since.     *)
(* HTTP handlers run on threads of their own, so every call interleaves with  *)
(* every other and with the two workers; what a lock makes atomic is one      *)
(* action.  The runs use the manual mode (manual_data_updates) with a broker. *)
EXTENDS Naturals

CONSTANTS Threads,   \* HTTP handler threads
          Calls,     \* the calls that clients make in this instance
          NoThread   \* holder of a free lock

ASSUME NoThreadIsNone == NoThread \notin Threads \cup {"worker"} /\ "worker" \notin Threads

Owners == {"cohort", "broker"}

VARIABLES stop,        \* stop[o]: stop_event of the owner is set
          halted,      \* halt_event is set (both owners; never cleared here)
          worker,      \* worker[o]: off, loop, gate (tick passed its gate), tick
          tickLock,    \* holder of tick_lock: NoThread, "worker" or a thread
          brokerError, \* meta["broker_error"] is not empty
          job,         \* _execution_charts_job and how it was requested
          rec,         \* _maintenance; drained is a ghost: it was PAUSED and not FINISHED since
          lease,       \* holder of _maintenance_lock over several actions
          restorer,    \* _maintenance_restore_thread
          stopper,     \* _maintenance_stopping_thread
          handler,     \* of each thread: its place, its call, its place after a nested stop
          over,        \* ghost: the start, or new lease, that t's stop or end has met
          lastStop     \* ghost: how the last user stop that returned met starts

owners  == <<stop, halted, worker, tickLock, brokerError>>
ghosts  == <<over, lastStop>>
vars    == <<owners, job, rec, lease, restorer, stopper, handler, ghosts>>

Idle == [at |-> "idle", call |-> "none", back |-> "idle"]
NoLease == [phase |-> "NONE", op |-> FALSE, restore |-> FALSE, cancel |-> FALSE,
            prepared |-> FALSE, watch |-> FALSE, drained |-> FALSE]

Init == /\ \E running \in BOOLEAN :
             /\ stop = [o \in Owners |-> ~running]
             /\ worker = [o \in Owners |-> IF running THEN "loop" ELSE "off"]
        /\ halted = FALSE
        /\ tickLock = NoThread
        /\ brokerError = FALSE
        /\ job = "none"
        /\ rec = NoLease
        /\ lease = NoThread
        /\ restorer = NoThread
        /\ stopper = NoThread
        /\ handler = [t \in Threads |-> Idle]
        /\ over = [t \in Threads |-> "none"]
        /\ lastStop = "none"

Go(t, place) == handler' = [handler EXCEPT ![t] = IF place = "idle" THEN Idle
                                                  ELSE [@ EXCEPT !.at = place]]
Free(t) == lease \in {NoThread, t}          \* _maintenance_lock, reentrant
At(t, place) == handler[t].at = place
JobRuns == job \in {"plain", "leased", "killing", "lost"}

(* _maintenance_active, _workers_drained, _cleanup_verified (of a record r    *)
(* and a job j).  The operators named ...Not are plausible bugs.              *)
Active == rec.phase \notin {"NONE", "FINISHED"}
DrainedNot == (\A o \in Owners : stop[o]) /\ tickLock = NoThread
Drained == /\ \A o \in Owners : worker[o] = "off"
           /\ tickLock = NoThread
CleanInNot(r, j) == Drained /\ j = "none"
CleanIn(r, j) == Drained /\ j = "none" /\ ~r.op
Clean == CleanIn(rec, job)

(* _maintenance_start_guard                                                   *)
MayStart(t) == Active => ~rec.cancel /\ restorer = t

(* _maintenance_user_stop                                                     *)
UserStoppedNot == IF Active THEN [rec EXCEPT !.phase = "CANCELLED"] ELSE rec
UserStopped == IF Active
               THEN [rec EXCEPT !.restore = FALSE, !.cancel = TRUE, !.phase = "CANCELLED"]
               ELSE rec

(* _cancel_execution_charts: the job is gone, or still needs cleanup.         *)
CancelJob == CASE job \in {"plain", "leased", "killing"} -> job' \in {"none", "killing"}
               [] job \in {"ok", "bad"} -> job' = "none"
               [] OTHER -> UNCHANGED job

Starting(t) == /\ handler[t].call \in {"start", "bstart"}
               /\ ~At(t, "idle")

----------------------------------------------------------------------------
(* A call arrives at an idle handler thread.                                  *)
Entry == [ucharts |-> "request", begin |-> "begin", status |-> "status", prepare |-> "prepare",
          charts |-> "charts", end |-> "end", abort |-> "end", start |-> "guard",
          bstart |-> "bguard", stop |-> "stop", bstop |-> "bstop", halt |-> "stop"]

ASSUME CallsAssumption == Calls \subseteq DOMAIN Entry

(* Every stop that is under way meets a start, or a lease that may restore    *)
(* what it found: a new one, or a finished one that is active again.          *)
Overtaken == [u \in Threads |-> IF over[u] = "none" THEN "none" ELSE "issued"]

Company == IF \E u \in Threads : Starting(u) THEN "started" ELSE "alone"

Invoke(t) ==
    /\ At(t, "idle")
    /\ \E c \in Calls :
         /\ handler' = [handler EXCEPT ![t] = [Idle EXCEPT !.at = Entry[c], !.call = c]]
         /\ over' = CASE c \in {"start", "bstart"} -> Overtaken
                      [] c \in {"stop", "halt", "bstop"} -> [over EXCEPT ![t] = Company]
                      [] OTHER -> over
         /\ lastStop' = IF c \in {"start", "bstart", "stop", "halt", "bstop"} THEN "none" ELSE lastStop
    /\ UNCHANGED <<owners, job, rec, lease, restorer, stopper>>

(* The two owners' own loops (cohort._run and tick, best_broker._run and      *)
(* tick): the gate is read first, the cohort's tick then needs tick_lock and  *)
(* the broker's looks at its stop event under its lock.                       *)
GateOpen(o) == ~stop[o] /\ ~Active

Gate(o) ==
    /\ worker[o] = "loop"
    /\ GateOpen(o)
    /\ worker' = [worker EXCEPT ![o] = "gate"]
    /\ UNCHANGED <<stop, halted, tickLock, brokerError, job, rec, lease, restorer,
                   stopper, handler, ghosts>>

TickBegins(o) ==
    /\ worker[o] = "gate"
    /\ \/ /\ o = "cohort" /\ tickLock = NoThread
          /\ worker' = [worker EXCEPT ![o] = "tick"]
          /\ tickLock' = "worker"
       \/ /\ o = "cohort" /\ tickLock # NoThread
          /\ worker' = [worker EXCEPT ![o] = "loop"]
          /\ UNCHANGED tickLock
       \/ /\ o = "broker" /\ \A t \in Threads : ~At(t, "connect")
          /\ worker' = [worker EXCEPT ![o] = IF stop[o] THEN "loop" ELSE "tick"]
          /\ UNCHANGED tickLock
    /\ UNCHANGED <<stop, halted, brokerError, job, rec, lease, restorer, stopper,
                   handler, ghosts>>

(* The end of a tick; the cohort's also supervises a chart job               *)
(* (_execution_charts_tick): takes its result, or cancels it when it is no    *)
(* longer eligible.                                                           *)
TickEnds(o) ==
    /\ worker[o] = "tick"
    /\ worker' = [worker EXCEPT ![o] = "loop"]
    /\ IF o = "broker"
       THEN UNCHANGED <<tickLock, job>>
       ELSE /\ tickLock' = NoThread
            /\ \/ ~stop[o] /\ JobRuns /\ UNCHANGED job
               \/ CancelJob
    /\ UNCHANGED <<stop, halted, brokerError, rec, lease, restorer, stopper,
                   handler, ghosts>>

(* The loop sees its stop event; the cohort's finally cancels the chart job.  *)
WorkerExits(o) ==
    /\ worker[o] = "loop"
    /\ stop[o]
    /\ worker' = [worker EXCEPT ![o] = "off"]
    /\ IF o = "cohort" THEN CancelJob ELSE UNCHANGED job
    /\ UNCHANGED <<stop, halted, tickLock, brokerError, rec, lease, restorer,
                   stopper, handler, ghosts>>

(* The chart job's own thread: it ends with an exit code, or loses its tree   *)
(* (WorkerLease), after which poll() never answers and cancel() fails.  A job *)
(* whose cancel() timed out can still end with code 0: the code is that of    *)
(* the stages it finished (applied_source.py:751).                            *)
JobEnds ==
    /\ job \in {"plain", "leased", "killing"}
    /\ job' \in {"ok", "bad", "lost"}
    /\ UNCHANGED <<owners, rec, lease, restorer, stopper, handler, ghosts>>

----------------------------------------------------------------------------
(* Cohort.start: the guard without a lock ...                                 *)
StartGuard(t) ==
    /\ At(t, "guard")
    /\ Go(t, CASE MayStart(t) -> "start"
                [] ~MayStart(t) /\ handler[t].call = "end" -> "fail"
                [] OTHER -> "idle")
    /\ restorer' = IF ~MayStart(t) /\ handler[t].call = "end" THEN NoThread ELSE restorer
    /\ UNCHANGED <<owners, job, rec, lease, stopper, ghosts>>

(* ... then under the cohort's lock the refusals, and a live worker is only   *)
(* acknowledged, without the broker's hook.                                   *)
StartChecks(t) ==
    /\ At(t, "start")
    /\ \A u \in Threads : ~At(u, "clear")
    /\ Go(t, CASE halted -> IF handler[t].call = "end" THEN "fail" ELSE "idle"
                [] ~halted /\ worker["cohort"] # "off" ->
                     IF handler[t].call = "end" THEN "decide" ELSE "idle"
                [] OTHER -> "clear")
    /\ restorer' = IF handler[t].call = "end" /\ (halted \/ worker["cohort"] # "off")
                   THEN NoThread ELSE restorer
    /\ UNCHANGED <<owners, job, rec, lease, stopper, ghosts>>

(* stop_event.clear() and the new worker; a stop or halt raised since the     *)
(* refusals were tested is wiped.                                             *)
StartClears(t) ==
    /\ At(t, "clear")
    /\ stop' = [stop EXCEPT !["cohort"] = FALSE]
    /\ worker' = [worker EXCEPT !["cohort"] = "loop"]
    /\ Go(t, "bguard")
    /\ UNCHANGED <<halted, tickLock, brokerError, job, rec, lease, restorer, stopper,
                   ghosts>>

(* Where BestBroker.start returns to, and what its failure does: the cohort's *)
(* _hook records it, the operator's own call is refused.                      *)
Started(t, fails) ==
    /\ Go(t, IF handler[t].call = "end" THEN "decide" ELSE "idle")
    /\ restorer' = IF handler[t].call = "end" THEN NoThread ELSE restorer
    /\ brokerError' = IF handler[t].call = "bstart" THEN brokerError ELSE fails

BrokerGuard(t) ==
    /\ At(t, "bguard")
    /\ IF MayStart(t)
       THEN Go(t, "bstart") /\ UNCHANGED <<restorer, brokerError>>
       ELSE Started(t, TRUE)
    /\ UNCHANGED <<stop, halted, worker, tickLock, job, rec, lease, stopper, ghosts>>

(* Under the broker's lock, which a tick or another start may hold.           *)
BrokerChecks(t) ==
    /\ At(t, "bstart")
    /\ worker["broker"] # "tick"
    /\ \A u \in Threads : ~At(u, "connect")
    /\ IF worker["broker"] # "off"
       THEN Started(t, FALSE)
       ELSE Go(t, "connect") /\ UNCHANGED <<restorer, brokerError>>
    /\ UNCHANGED <<stop, halted, worker, tickLock, job, rec, lease, stopper, ghosts>>

(* _connect() asks the account; then the stop event is cleared, whatever      *)
(* happened to it while the connection was made.                              *)
BrokerClears(t) ==
    /\ At(t, "connect")
    /\ \/ /\ stop' = [stop EXCEPT !["broker"] = FALSE]
          /\ worker' = [worker EXCEPT !["broker"] = "loop"]
          /\ Started(t, FALSE)
       \/ Started(t, TRUE) /\ UNCHANGED <<stop, worker>>
    /\ UNCHANGED <<halted, tickLock, job, rec, lease, stopper, ghosts>>

----------------------------------------------------------------------------
(* Cohort.stop, Cohort.halt and BestBroker.stop of a user: the events first,  *)
(* without any lock ...                                                       *)
SignalStop(t) ==
    /\ At(t, "stop")
    /\ stop' = [stop EXCEPT !["cohort"] = TRUE]
    /\ halted' = (halted \/ handler[t].call = "halt")
    /\ Go(t, "override")
    /\ UNCHANGED <<worker, tickLock, brokerError, job, rec, lease, restorer, stopper,
                   ghosts>>

(* ... then the lease loses its right to start the owners again, ...          *)
OverrideLease(t) ==
    /\ At(t, "override")
    /\ Free(t)
    /\ rec' = UserStopped
    /\ Go(t, "bstop")
    /\ UNCHANGED <<owners, job, lease, restorer, stopper, ghosts>>

(* ... the events again, and the broker's stop with the same order.           *)
SignalBroker(t) ==
    /\ At(t, "bstop")
    /\ stop' = [o \in Owners |-> stop[o] \/ o = "broker" \/ handler[t].call # "bstop"]
    /\ stopper' = IF handler[t].call = "bstop" THEN stopper ELSE NoThread
    /\ Go(t, "boverride")
    /\ UNCHANGED <<halted, worker, tickLock, brokerError, job, rec, lease, restorer,
                   ghosts>>

BrokerOverrides(t) ==
    /\ At(t, "boverride")
    /\ Free(t)
    /\ rec' = UserStopped
    /\ stop' = [stop EXCEPT !["broker"] = TRUE]
    /\ Go(t, "bstopped")
    /\ UNCHANGED <<halted, worker, tickLock, brokerError, job, lease, restorer, stopper,
                   ghosts>>

(* The owners' locks, for their status texts only: nothing is signalled again  *)
(* once they are held.  Last the chart job: a cleanup that is pending makes    *)
(* the call fail after all of its effects.                                    *)
LocksAreFree == /\ worker["broker"] # "tick"
                /\ \A u \in Threads : ~At(u, "clear") /\ ~At(u, "connect")

StopReturns(t) ==
    /\ At(t, "bstopped")
    /\ LocksAreFree
    /\ IF handler[t].call = "bstop" THEN UNCHANGED job ELSE CancelJob
    /\ lastStop' = CASE handler[t].call # "bstop" -> over[t]
                      [] handler[t].call = "bstop" /\ over[t] = "alone" -> "broker"
                      [] OTHER -> "none"
    /\ over' = [over EXCEPT ![t] = "none"]
    /\ Go(t, "idle")
    /\ UNCHANGED <<owners, rec, lease, restorer, stopper>>

(* stop(_maintenance=True), nested in a lease operation: it does not revoke   *)
(* the lease unless another stop() took _maintenance_stopping_thread from it. *)
LeaseStops(t) ==
    /\ At(t, "lstop")
    /\ stop' = [stop EXCEPT !["cohort"] = TRUE]
    /\ stopper' = t
    /\ Go(t, "lstop2")
    /\ UNCHANGED <<halted, worker, tickLock, brokerError, job, rec, lease, restorer,
                   ghosts>>

LeaseStopsBroker(t) ==
    /\ At(t, "lstop2")
    /\ stopper # t => Free(t)
    /\ stop' = [stop EXCEPT !["broker"] = TRUE]
    /\ rec' = IF stopper = t THEN rec ELSE UserStopped
    /\ stopper' = NoThread
    /\ Go(t, "lstop3")
    /\ UNCHANGED <<halted, worker, tickLock, brokerError, job, lease, restorer, ghosts>>

LeaseStopped(t) ==
    /\ At(t, "lstop3")
    /\ LocksAreFree
    /\ CancelJob
    /\ Go(t, handler[t].back)
    /\ UNCHANGED <<owners, rec, lease, restorer, stopper, ghosts>>

ThenStop(t, place) == handler' = [handler EXCEPT ![t].at = "lstop", ![t].back = place]

----------------------------------------------------------------------------
(* begin_manual_maintenance: a lease reserves the record if none is active    *)
(* and the owners agree; the same id again only reads the status.             *)
Begin(t) ==
    /\ At(t, "begin")
    /\ Free(t)
    /\ \/ /\ ~Active /\ stop["cohort"] = stop["broker"]
          /\ rec' = [NoLease EXCEPT !.phase = "GUARDING", !.op = TRUE,
                                    !.restore = ~stop["cohort"]]
          /\ over' = Overtaken
          /\ Go(t, "suspend")
       \/ /\ Active \/ stop["cohort"] # stop["broker"]
          /\ Go(t, "idle")
          /\ UNCHANGED <<rec, over>>
       \/ /\ rec # NoLease
          /\ Go(t, "status")
          /\ UNCHANGED <<rec, over>>
    /\ UNCHANGED <<owners, job, lease, restorer, stopper, lastStop>>

(* "Suspend new sends immediately."                                           *)
Suspend(t) ==
    /\ At(t, "suspend")
    /\ stop' = [o \in Owners |-> TRUE]
    /\ Go(t, "check")
    /\ UNCHANGED <<halted, worker, tickLock, brokerError, job, rec, lease, restorer,
                   stopper, ghosts>>

(* Source, window, pending orders, halt, chart job and heavy owner.           *)
CheckIdle(t) ==
    /\ At(t, "check")
    /\ \/ ~halted /\ job = "none" /\ ThenStop(t, "drain")
       \/ Go(t, "refuse")
    /\ UNCHANGED <<owners, job, rec, lease, restorer, stopper, ghosts>>

BeginFails(t) ==
    /\ At(t, "refuse")
    /\ Free(t)
    /\ rec' = [rec EXCEPT !.phase = "FAILED", !.restore = FALSE, !.op = FALSE]
    /\ ThenStop(t, "idle")
    /\ UNCHANGED <<owners, job, lease, restorer, stopper, ghosts>>

DrainingNot == [rec EXCEPT !.phase = "DRAINING"]
Draining == [rec EXCEPT !.phase = "DRAINING", !.op = FALSE]

Drain(t) ==
    /\ At(t, "drain")
    /\ Free(t)
    /\ rec' = Draining
    /\ Go(t, "status")
    /\ UNCHANGED <<owners, job, lease, restorer, stopper, ghosts>>

----------------------------------------------------------------------------
(* maintenance_status: the watchdog over an admitted job, its cancellation,   *)
(* its exit code, and PAUSED once a draining lease is clean.                  *)
Watched(r) ==
    LET revoked == [r EXCEPT !.cancel = TRUE, !.restore = FALSE, !.phase = "FAILED"]
    IN  CASE job = "none" \/ ~r.watch -> {r}
          [] halted /\ job # "none" /\ r.watch -> {revoked}
          [] OTHER -> {r, revoked}

AfterCancel(r) == CASE ~r.cancel \/ job \in {"none", "lost"} -> {job}
                    [] r.cancel /\ job \in {"ok", "bad"} -> {"none"}
                    [] OTHER -> {"none", "killing"}

Exited(r, j) ==
    CASE j = "ok" -> [r EXCEPT !.phase = IF r.cancel THEN "CANCELLED" ELSE "CHARTS_FINISHED"]
      [] j = "bad" -> [r EXCEPT !.phase = IF r.cancel THEN "CANCELLED" ELSE "FAILED",
                                !.restore = FALSE]
      [] OTHER -> r

Settled(r, j) == IF r.phase = "DRAINING" /\ CleanIn(r, j)
                 THEN [r EXCEPT !.phase = "PAUSED", !.drained = TRUE] ELSE r

(* The record and the job after a status call that found the record r.        *)
Statuses(r) == UNION {{LET k == IF j \in {"ok", "bad"} THEN "none" ELSE j
                       IN  <<Settled(Exited(w, j), k), k>> : j \in AfterCancel(w)} :
                      w \in Watched(r)}

(* The exit code of a job that was requested without a lease makes a finished *)
(* lease active again, with the right to restore that it had.                 *)
Reopens(r) == ~Active /\ r.phase \notin {"NONE", "FINISHED"} /\ r.restore /\ ~r.cancel

Status(t) ==
    /\ At(t, "status")
    /\ Free(t)
    /\ \/ rec = NoLease /\ UNCHANGED <<rec, job, ghosts>>
       \/ \E o \in Statuses(rec) :
            /\ rec # NoLease
            /\ rec' = o[1]
            /\ job' = o[2]
            /\ over' = IF Reopens(o[1]) THEN Overtaken ELSE over
            /\ lastStop' = IF Reopens(o[1]) THEN "none" ELSE lastStop
    /\ Go(t, "idle")
    /\ UNCHANGED <<owners, lease, restorer, stopper>>

----------------------------------------------------------------------------
(* prepare_published_inputs under a lease: reserve, run with tick_lock held   *)
(* while both owners are paused, record the result.                           *)
Prepare(t) ==
    /\ At(t, "prepare")
    /\ Free(t)
    /\ IF rec.phase = "PAUSED" /\ Clean /\ ~rec.cancel
       THEN rec' = [rec EXCEPT !.phase = "PREPARING", !.op = TRUE] /\ Go(t, "prepare2")
       ELSE Go(t, "idle") /\ UNCHANGED rec
    /\ UNCHANGED <<owners, job, lease, restorer, stopper, ghosts>>

PrepareRuns(t) ==
    /\ At(t, "prepare2")
    /\ \/ /\ tickLock = NoThread /\ ~halted /\ job = "none"
          /\ \A o \in Owners : stop[o] /\ worker[o] = "off"
          /\ tickLock' = t
       \/ UNCHANGED tickLock
    /\ Go(t, "prepare3")
    /\ UNCHANGED <<stop, halted, worker, brokerError, job, rec, lease, restorer,
                   stopper, ghosts>>

LeaveTickLock(t) == tickLock' = IF tickLock = t THEN NoThread ELSE tickLock

Prepared(t) ==
    /\ At(t, "prepare3")
    /\ Free(t)
    /\ \/ /\ tickLock = t /\ ~rec.cancel
          /\ rec' = [rec EXCEPT !.phase = "PAUSED", !.prepared = TRUE, !.op = FALSE]
       \/ \E p \in {FALSE, rec.prepared} :
            rec' = [rec EXCEPT !.phase = "FAILED", !.prepared = p,
                               !.restore = FALSE, !.op = FALSE]
    /\ LeaveTickLock(t)
    /\ Go(t, "idle")
    /\ UNCHANGED <<stop, halted, worker, brokerError, job, lease, restorer, stopper,
                   ghosts>>

(* request_execution_charts under a lease: reserve, then, if nobody cancelled *)
(* during the preflight, find the charts current or start the job.            *)
Charts(t) ==
    /\ At(t, "charts")
    /\ Free(t)
    /\ IF rec.phase = "PAUSED" /\ rec.prepared /\ ~rec.cancel /\ Clean
       THEN rec' = [rec EXCEPT !.phase = "CHARTS_PREFLIGHT", !.op = TRUE] /\ Go(t, "charts2")
       ELSE Go(t, "idle") /\ UNCHANGED rec
    /\ UNCHANGED <<owners, job, lease, restorer, stopper, ghosts>>

StillWantedNot == TRUE
StillWanted == ~rec.cancel

ChartsAdmitted(t) ==
    /\ At(t, "charts2")
    /\ Free(t)
    /\ \/ /\ StillWanted
          /\ rec' = [rec EXCEPT !.phase = "READY", !.op = FALSE]
          /\ UNCHANGED job
       \/ /\ StillWanted
          /\ rec' = [rec EXCEPT !.phase = "CHARTS_RUNNING", !.op = FALSE, !.watch = TRUE]
          /\ job' = "leased"
       \/ /\ rec' = [rec EXCEPT !.phase = "FAILED", !.restore = FALSE, !.op = FALSE]
          /\ UNCHANGED job
    /\ Go(t, "idle")
    /\ UNCHANGED <<owners, lease, restorer, stopper, ghosts>>

(* The same request without a lease: it needs tick_lock and a running cohort, *)
(* and registers the job under the cohort's lock.                             *)
Request(t) ==
    /\ At(t, "request")
    /\ IF ~Active /\ tickLock = NoThread /\ ~stop["cohort"]
       THEN tickLock' = t /\ Go(t, "register")
       ELSE Go(t, "idle") /\ UNCHANGED tickLock
    /\ UNCHANGED <<stop, halted, worker, brokerError, job, rec, lease, restorer,
                   stopper, ghosts>>

OvertakenJob == stop["cohort"] \/ halted \/ job # "none"

Register(t) ==
    /\ At(t, "register")
    /\ job' = IF OvertakenJob THEN job ELSE "plain"
    /\ LeaveTickLock(t)
    /\ Go(t, "idle")
    /\ UNCHANGED <<stop, halted, worker, brokerError, rec, lease, restorer, stopper,
                   ghosts>>

----------------------------------------------------------------------------
(* end_manual_maintenance: an abort revokes the restore even if the call is   *)
(* then refused; the operation is reserved only on a clean lease.             *)
End(t) ==
    /\ At(t, "end")
    /\ Free(t)
    /\ \/ ~Active /\ Go(t, "idle") /\ UNCHANGED <<rec, job, over>>
       \/ rec.phase = "FINISHED" /\ Go(t, "status") /\ UNCHANGED <<rec, job, over>>
       \/ /\ Active
          /\ \E o \in Statuses(IF handler[t].call = "abort"
                               THEN [rec EXCEPT !.restore = FALSE, !.cancel = TRUE]
                               ELSE rec) :
               LET clean == CleanIn(o[1], o[2])
               IN  /\ rec' = [o[1] EXCEPT !.op = o[1].op \/ clean]
                   /\ job' = o[2]
                   /\ Go(t, IF clean THEN "qualify" ELSE "idle")
                   /\ over' = [over EXCEPT ![t] = IF clean THEN Company ELSE "none"]
    /\ UNCHANGED <<owners, lease, restorer, stopper, lastStop>>

(* A lease that was not cancelled must have prepared inputs and current       *)
(* charts, and the owners must still be idle; a cancelled one is only closed. *)
Qualify(t) ==
    /\ At(t, "qualify")
    /\ \/ Go(t, "fail") /\ ~rec.cancel
       \/ /\ \/ rec.cancel
             \/ rec.prepared /\ rec.phase \in {"READY", "CHARTS_FINISHED"} /\ ~halted
          /\ Go(t, "resume")
    /\ UNCHANGED <<owners, job, rec, lease, restorer, stopper, ghosts>>

(* restore is read without the lock, then start() runs on this thread.        *)
Resume(t) ==
    /\ At(t, "resume")
    /\ IF rec.restore /\ ~rec.cancel /\ handler[t].call = "end"
       THEN restorer' = t /\ Go(t, "guard")
       ELSE Go(t, "finish") /\ UNCHANGED restorer
    /\ UNCHANGED <<owners, job, rec, lease, stopper, ghosts>>

(* "A stop between an original start guard and its event.clear must win."     *)
(* (cohort.py:2265): under the lease's lock the restore is kept, taken back   *)
(* by a nested stop(), or has failed.                                         *)
Revoked == rec.cancel \/ ~rec.restore \/ halted

Decide(t) ==
    /\ At(t, "decide")
    /\ Free(t)
    /\ \/ /\ Revoked
          /\ lease' = t
          /\ ThenStop(t, "finish")
       \/ /\ ~Revoked
          /\ \A o \in Owners : ~stop[o] /\ ~brokerError
          /\ lease' = t
          /\ Go(t, "finish")
       \/ /\ ~Revoked
          /\ brokerError \/ \E o \in Owners : stop[o]
          /\ Go(t, "fail") /\ UNCHANGED lease
    /\ UNCHANGED <<owners, job, rec, restorer, stopper, ghosts>>

Finish(t) ==
    /\ At(t, "finish")
    /\ Free(t)
    /\ rec' = [rec EXCEPT !.phase = "FINISHED", !.op = FALSE, !.drained = FALSE]
    /\ lease' = NoThread
    /\ over' = [over EXCEPT ![t] = "none"]
    /\ Go(t, "status")
    /\ UNCHANGED <<owners, job, restorer, stopper, lastStop>>

(* The handler of every failure of end: FAILED without the lock, a nested     *)
(* stop(), and last the reservation.                                          *)
AfterFailureNot(t) == Go(t, "failed")
AfterFailure(t) == ThenStop(t, "failed")

EndFails(t) ==
    /\ At(t, "fail")
    /\ rec' = [rec EXCEPT !.phase = "FAILED", !.restore = FALSE]
    /\ AfterFailure(t)
    /\ UNCHANGED <<owners, job, lease, restorer, stopper, ghosts>>

EndFailed(t) ==
    /\ At(t, "failed")
    /\ Free(t)
    /\ rec' = [rec EXCEPT !.op = FALSE]
    /\ over' = [over EXCEPT ![t] = "none"]
    /\ Go(t, "idle")
    /\ UNCHANGED <<owners, job, lease, restorer, stopper, lastStop>>

----------------------------------------------------------------------------
(* The steps of a handler after its call arrived.                             *)
Handle(t) ==
    \/ StartGuard(t) \/ StartChecks(t) \/ StartClears(t)
    \/ BrokerGuard(t) \/ BrokerChecks(t) \/ BrokerClears(t)
    \/ SignalStop(t) \/ OverrideLease(t) \/ SignalBroker(t) \/ BrokerOverrides(t)
    \/ StopReturns(t) \/ LeaseStops(t) \/ LeaseStopsBroker(t) \/ LeaseStopped(t)
    \/ Begin(t) \/ Suspend(t) \/ CheckIdle(t) \/ BeginFails(t) \/ Drain(t) \/ Status(t)
    \/ Prepare(t) \/ PrepareRuns(t) \/ Prepared(t) \/ Charts(t) \/ ChartsAdmitted(t)
    \/ Request(t) \/ Register(t) \/ End(t) \/ Qualify(t) \/ Resume(t) \/ Decide(t)
    \/ Finish(t) \/ EndFails(t) \/ EndFailed(t)

Work(o) == Gate(o) \/ TickBegins(o) \/ TickEnds(o) \/ WorkerExits(o)

Next == \/ \E t \in Threads : Invoke(t) \/ Handle(t)
        \/ \E o \in Owners : Work(o)
        \/ JobEnds

Spec == Init /\ [][Next]_vars

(* Handlers and workers run, a tick ends, and a client that waits for a lease *)
(* asks for its status again and again (strong fairness, because the server   *)
(* has a thread for every call and the model only a few; that a job ends is   *)
(* not assumed).                                                              *)
FairSpec == /\ Spec
            /\ \A t \in Threads : WF_vars(Handle(t))
            /\ \A o \in Owners : WF_vars(TickBegins(o) \/ TickEnds(o) \/ WorkerExits(o))
            /\ SF_vars(\E t \in Threads : Invoke(t) /\ handler'[t].call = "status")

----------------------------------------------------------------------------
Phases == {"NONE", "GUARDING", "DRAINING", "PAUSED", "PREPARING", "CHARTS_PREFLIGHT",
           "READY", "CHARTS_RUNNING", "CHARTS_FINISHED", "CANCELLED", "FAILED", "FINISHED"}

(* The type invariant of the lease and its owners; a lock, a restore thread   *)
(* and a stopping thread that are taken belong to a call that is inside (the  *)
(* finally clauses of cohort.py:1848, 1870, 2262 and 2322).                   *)
TypeOK == /\ stop \in [Owners -> BOOLEAN]
          /\ worker \in [Owners -> {"off", "loop", "gate", "tick"}]
          /\ halted \in BOOLEAN /\ brokerError \in BOOLEAN
          /\ tickLock \in Threads \cup {NoThread, "worker"}
          /\ job \in {"none", "plain", "leased", "killing", "lost", "ok", "bad"}
          /\ rec \in [phase : Phases, op : BOOLEAN, restore : BOOLEAN, cancel : BOOLEAN,
                      prepared : BOOLEAN, watch : BOOLEAN, drained : BOOLEAN]
          /\ {lease, restorer, stopper} \subseteq Threads \cup {NoThread}
          /\ \A t \in Threads :
               /\ tickLock = t => handler[t].at \in {"prepare3", "register"}
               /\ restorer = t => handler[t].call = "end"
               /\ stopper = t => At(t, "lstop2")
               /\ lease = t => handler[t].at \in {"lstop", "lstop2", "lstop3", "finish"}

(* From the moment a lease is found drained until it is finished, and while   *)
(* its chart job may run, no tick of either owner is past its gate: neither   *)
(* the workers that the lease found nor those that a start that began         *)
(* earlier, or the restore itself, has created since ("restoring tick no      *)
(* source", test_manual_maintenance.py:253).  CHARTS_FINISHED alone promises  *)
(* nothing: the exit of a job requested without a lease may set it on a lease *)
(* that was never drained, or on a finished one.                              *)
QuietPhases == {"PAUSED", "PREPARING", "CHARTS_PREFLIGHT", "READY", "CHARTS_RUNNING"}
QuietInMaintenance ==
    rec.drained \/ rec.phase \in QuietPhases \/ job = "leased" =>
        \A o \in Owners : worker[o] \in {"off", "loop"}

(* A stop() or halt() that returned, with no start of a user under way when   *)
(* it was called and no lease begun before it returned, leaves both owners    *)
(* stopped, and the broker's own stop the broker, until a start is issued or  *)
(* a finished lease is given back its right to restore (FinishedIsFinal),     *)
(* whatever lease was being ended meanwhile                                   *)
(* (test_manual_maintenance.py:270, "USER_STOP_OVERRIDES_MAINTENANCE_RESUME", *)
(* cohort.py:1894); only inside the restoring start itself, before its        *)
(* verdict, may an event be clear.                                            *)
Restoring == \E t \in Threads :
                /\ handler[t].call = "end"
                /\ handler[t].at \in {"bguard", "bstart", "connect", "decide", "fail", "lstop", "lstop2"}
UserStopWins == ~Restoring => /\ lastStop = "alone" => \A o \in Owners : stop[o]
                              /\ lastStop = "broker" => stop["broker"]

(* After such a stop no chart job runs, unless a lease that wants it, which   *)
(* nobody has cancelled, owns it: "stop/close cannot miss a job between       *)
(* creation and registration" (cohort.py:3444).  While a stop is under way,   *)
(* the broker's own too, a job may still run that its call has yet to cancel. *)
NoStrayJob == /\ lastStop = "alone"
              /\ \A t \in Threads : /\ handler[t].call \notin {"stop", "halt", "bstop"}
                                    /\ handler[t].at \notin {"lstop", "lstop2", "lstop3"}
              /\ job \in {"plain", "leased"}
              => Active /\ ~rec.cancel /\ job = "leased"

(* At most one thread is inside an operation of the lease, and the record     *)
(* says so until it has left ("concurrent same id end cannot clear an active  *)
(* owner operation", test_manual_maintenance.py:280).                         *)
InOperation(t) ==
    \/ handler[t].at \in {"suspend", "check", "refuse", "drain", "prepare2", "prepare3", "charts2",
                  "qualify", "resume", "decide", "finish", "fail", "failed"}
    \/ handler[t].call = "end" /\ handler[t].at \in {"guard", "start", "clear", "bguard", "bstart", "connect"}
    \/ handler[t].at \in {"lstop", "lstop2", "lstop3"} /\ handler[t].back # "idle"
OneOperation == \A t \in Threads : InOperation(t) =>
                   rec.op /\ \A u \in Threads : InOperation(u) => u = t

(* "Failure stays paused; never recover old intent implicitly."               *)
(* (cohort.py:2030): an end that fails, wherever it failed, also after it has *)
(* started one owner or both, gives the lease up only with both stopped; only *)
(* a user's start that was under way when it began can have undone that.      *)
FailureStaysPaused ==
    \A t \in Threads : At(t, "failed") /\ over[t] = "alone" => \A o \in Owners : stop[o]

(* A lease that is draining gets drained and is found PAUSED, or is taken     *)
(* over by a failure or a user's stop, whatever the workers were doing.       *)
DrainEnds == rec.phase = "DRAINING" ~> rec.phase # "DRAINING"

(* maintenance_status is a "Control receipt only; no cached view, source      *)
(* query, model or inferred completion" (cohort.py:2055): a finished lease    *)
(* stays finished until another one begins.  The code breaks this when a job  *)
(* requested without a lease ends: no run checks it (README).                 *)
FinishedIsFinal == [][rec.phase = "FINISHED" => rec'.phase \in {"FINISHED", "GUARDING"}]_vars

(* The same promise when a start was under way: "A stop between an original   *)
(* start guard and its event.clear must win." (cohort.py:2265), "the pause    *)
(* stops later operations" (README.md:148).  No run checks it: the code breaks it
   (README).                                                                  *)
StopIsNotWiped == lastStop \in {"alone", "started"} /\ ~Restoring => \A o \in Owners : stop[o]
=============================================================================
