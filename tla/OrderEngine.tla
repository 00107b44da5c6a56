---------------------------- MODULE OrderEngine ----------------------------
(***************************************************************************)
(* The simulated-order lifecycle of Engine (moomoo_component/core.py) with  *)
(* the broker adapter it drives (moomoo_component/brokers.py) and the       *)
(* Moomoo SIMULATE account behind it, which is external.                    *)
(*                                                                         *)
(* Engine.lock is the variable pc: "idle" when the lock is free, otherwise  *)
(* the place the lock holder has reached.  The handlers that never wait on  *)
(* the network while they hold the lock are one action each; step(), which  *)
(* does, is cut at every point where a stop request, a broker event or a    *)
(* crash can come between two of its effects.  halt() and stop() raise      *)
(* their flags without the lock.                                            *)
(*                                                                         *)
(* Left out: prices, cash, quotes and limits.  Every check on them only     *)
(* refuses an order, so a plan may refuse for an unstated reason anywhere.  *)
(***************************************************************************)
EXTENDS Integers, FiniteSets, Functions

CONSTANTS
  Accounts,    \* Moomoo SIMULATE account ids
  Paper,       \* account_id of the local paper mode
  Codes,       \* security codes
  Manifests,   \* the manifests that may be imported and activated
  MaxGen,      \* bound: highest retry generation a manifest carries
  MaxQty,      \* bound: largest number of shares ordered at once
  StartShares, \* shares of each code held in every book at the beginning
  Driven,      \* the engine belongs to a BestBroker, not to the HTTP operator
  NoId         \* no order is being worked on

Sides == {"BUY", "SELL"}
Signals == {m.sig : m \in Manifests}
Books == Accounts \cup {Paper}

\* An order id hashes (mode, account, strategy and asof, code, generation).
Ids == [acct : Books, sig : Signals, code : Codes, gen : 0..MaxGen]

(***************************************************************************)
(* A manifest: sig stands for (strategy_id, asof) and the next_open to      *)
(* next_close window it fixes, in which the attempts of a retry are         *)
(* counted, plan for an authorised                                          *)
(* execution plan (the only kind the partial route accepts), auto for one   *)
(* bound to the automatic-completion policy, which fixes the side of its    *)
(* phase, target for the targeted quantities (a code that is not listed     *)
(* keeps its holding) and gen for origin.retry_generations.                 *)
(***************************************************************************)
ManifestType ==
  [sig : Signals, plan : BOOLEAN, auto : BOOLEAN, phase : Sides,
   target : [Codes -> 0..MaxQty \cup {-1}], gen : [Codes -> 0..MaxGen]]

ASSUME ConstantsAssumption ==
  /\ Paper \notin Accounts
  /\ NoId \notin Ids
  /\ MaxGen \in Nat
  /\ MaxQty \in Nat
  /\ StartShares \in [Codes -> 0..MaxQty]
  /\ Driven \in BOOLEAN
  /\ Manifests \subseteq ManifestType
  /\ Manifests # {}

VARIABLES
  \* state.sqlite3: what a crash leaves
  rows,        \* table orders, with the fill of table order_fills
  haltReason,  \* settings.halt_reason is not empty
  manifest,    \* the active strategy's manifest
  shares,      \* shares[Paper]: the paper ledger; the rest is the broker's
  \* the process
  pc, job,     \* the lock holder's place and what it works on
  worker,      \* the simulation-runner thread
  haltEv, stopEv, cancelEv, \* halt_event, stop_event, cancel_step
  acct,        \* account_id (Paper in paper mode)
  attempted,   \* MoomooBroker._attempted
  haltCall,    \* a halt() has raised the flags and waits for the lock
  \* the simulated account
  wire,        \* place_order requests on their way
  book,        \* the broker's order for each client id (remark)
  seen,        \* the positions a snapshot shows, which may lag
  \* history
  asked        \* a stop or halt was asked since the run was begun

durable == <<rows, haltReason, manifest>>
flags   == <<haltEv, stopEv, cancelEv>>
session == <<acct, attempted, haltCall>>
broker  == <<wire, book, seen>>
vars == <<durable, shares, pc, job, worker, flags, session, broker, asked>>

\* The broker's statuses, by what they mean here: SUBMITTED stands for every
\* other status that is not terminal, DELETED for DISABLED too.
Live     == {"SUBMITTED", "FILLED_PART"}
Unfilled == {"CANCELLED_ALL", "FAILED", "DELETED"}
Ended    == {"FILLED_ALL", "CANCELLED_PART"} \cup Unfilled
TERMINAL == Ended \cup {"FILLED", "CANCELLED_BEFORE_SEND"}
Statuses == Live \cup TERMINAL \cup
            {"NONE", "SUBMITTING", "PENDING_RECONCILE", "UNKNOWN"}
Unsent   == {"NONE", "CANCELLED_BEFORE_SEND"}

NoFill == -1
Qtys   == 0..MaxQty
\* turned is history: the last UPDATE that reopened the row was made for an
\* order of the other side.
Row    == [status : Statuses, side : Sides, qty : Qtys, acked : BOOLEAN,
           fill : Qtys \cup {NoFill}, turned : BOOLEAN]
NoRow  == [status |-> "NONE", side |-> "BUY", qty |-> 0, acked |-> FALSE,
           fill |-> NoFill, turned |-> FALSE]
Order  == [id : Ids, side : Sides, qty : Qtys]
BrokerOrder == [st : {"NONE"} \cup Live \cup Ended, side : Sides, qty : Qtys,
                dealt : Qtys, n : 0..2]
NoBrokerOrder == [st |-> "NONE", side |-> "BUY", qty |-> 0, dealt |-> 0, n |-> 0]
Places == {"idle", "start", "preview", "loop", "planned", "recorded",
           "preflight", "cleared", "sending", "closing"}
Job == [auto : BOOLEAN, partial : BOOLEAN, todo : SUBSET Codes,
        cur : Ids \cup {NoId}, side : Sides, qty : Qtys, sent : BOOLEAN]
NoJob == [auto |-> FALSE, partial |-> FALSE, todo |-> {}, cur |-> NoId,
          side |-> "BUY", qty |-> 0, sent |-> FALSE]

TypeOK ==
  /\ rows \in [Ids -> Row]
  /\ haltReason \in BOOLEAN
  /\ manifest \in Manifests
  /\ shares \in [Books -> [Codes -> Int]]
  /\ pc \in Places
  /\ job \in Job
  /\ worker \in {"off", "top", "reconcile", "go", "running"}
  /\ haltEv \in BOOLEAN /\ stopEv \in BOOLEAN /\ cancelEv \in BOOLEAN
  /\ acct \in Books
  /\ attempted \subseteq Ids
  /\ haltCall \in BOOLEAN
  /\ wire \subseteq Order
  /\ book \in [Ids -> BrokerOrder]
  /\ seen \in [Books -> [Codes -> Int]]
  /\ asked \in {"no", "starting", "running"}

\* Bug: an unknown outcome is not held to be pending.
PendingForgetsUnknown ==
  {i \in Ids : i.acct # Paper /\ rows[i].status \notin TERMINAL \cup {"NONE", "UNKNOWN"}}

Pending == {i \in Ids : i.acct # Paper /\ rows[i].status \notin TERMINAL \cup {"NONE"}}

Init ==
  /\ rows = [i \in Ids |-> NoRow]
  /\ haltReason = FALSE
  /\ manifest \in Manifests
  /\ shares = [b \in Books |-> StartShares]
  /\ pc = "idle" /\ job = NoJob /\ worker = "off"
  /\ haltEv = FALSE /\ stopEv = TRUE /\ cancelEv = FALSE
  /\ acct = Paper /\ attempted = {} /\ haltCall = FALSE
  /\ wire = {}
  /\ book = [i \in Ids |-> NoBrokerOrder]
  /\ seen = [b \in Books |-> StartShares]
  /\ asked = "no"

-----------------------------------------------------------------------------
(* The order a plan makes for one targeted code. *)

Simulate    == acct # Paper
Stopped     == stopEv /\ worker = "off"
Position(c) == IF Simulate THEN seen[acct][c] ELSE shares[Paper][c]
Delta(c)    == manifest.target[c] - Position(c)
Wanted      == {c \in Codes : manifest.target[c] # -1 /\ Delta(c) # 0}
SideOf(c)   == IF Delta(c) > 0 THEN "BUY" ELSE "SELL"
QtyOf(c)    == IF Delta(c) > 0 THEN Delta(c) ELSE -Delta(c)
Gen(c, partial)  == IF partial THEN manifest.gen[c] ELSE 0
IdOf(c, partial) == [acct |-> acct, sig |-> manifest.sig, code |-> c,
                     gen |-> Gen(c, partial)]

\* The orders really handed to the broker for this signal, code and side.
Attempts(c) == {i \in Ids : /\ i.acct = acct /\ i.sig = manifest.sig /\ i.code = c
                            /\ rows[i].side = SideOf(c)
                            /\ rows[i].status \notin Unsent}

\* What the first attempt ordered, less every fill confirmed since.
Remaining(c) ==
  LET first == CHOOSE i \in Attempts(c) : \A j \in Attempts(c) : i.gen <= j.gen
  IN  rows[first].qty - SumFunctionOnSet([i \in Ids |-> rows[i].fill], Attempts(c))

\* Bug: the retry trusts the position snapshot for what is left to buy.
RetryAllowedUncapped(c, partial) ==
  Gen(c, partial) > 0 =>
    /\ Cardinality(Attempts(c)) = Gen(c, partial)
    /\ \A i \in Attempts(c) :
         rows[i].status \in {"FAILED", "CANCELLED_ALL", "CANCELLED_PART"}

\* A retry needs every earlier attempt ended short, and counted.
RetryAllowed(c, partial) ==
  Gen(c, partial) > 0 =>
    /\ Cardinality(Attempts(c)) = Gen(c, partial)
    /\ \A i \in Attempts(c) :
         rows[i].status \in {"FAILED", "CANCELLED_ALL", "CANCELLED_PART"}
    /\ manifest.auto =>
         /\ \A i \in Attempts(c) : rows[i].fill # NoFill
         /\ QtyOf(c) <= Remaining(c)

\* The codes a partial plan drops because their order was already sent.
AlreadySent(c, partial) ==
  partial /\ rows[IdOf(c, partial)].status \notin Unsent

\* Bug: only the broker's own open orders are looked at, not the pending rows.
PlanChecksBrokerOnly(partial) ==
  /\ partial => Simulate /\ manifest.plan
  /\ manifest.auto => partial
  /\ Simulate => \A i \in Ids : i.acct = acct => book[i].st \notin Live
  /\ \A c \in Wanted : ~partial => rows[IdOf(c, partial)].status = "NONE"

\* What _plan requires before it allows any order, the halt flag aside;
\* limits may still refuse.
PlanChecks(partial) ==
  /\ Pending = {}
  /\ partial => Simulate /\ manifest.plan
  /\ manifest.auto => partial
  /\ Simulate => \A i \in Ids : i.acct = acct => book[i].st \notin Live
  /\ \A c \in Wanted :
       /\ manifest.auto => SideOf(c) = manifest.phase
       /\ RetryAllowed(c, partial)
       /\ ~partial => rows[IdOf(c, partial)].status = "NONE"
       /\ QtyOf(c) <= MaxQty

PlanAllows(partial) == ~haltEv /\ PlanChecks(partial)

PlanCodes(partial) == {c \in Wanted : ~AlreadySent(c, partial)}

-----------------------------------------------------------------------------
(* Stop, halt and the other handlers that only touch local state. *)

\* _halt, always under the lock.
Latch == haltEv' = TRUE /\ stopEv' = TRUE /\ haltReason' = TRUE

Ask == asked' = IF pc = "start" THEN "starting" ELSE "running"

Halt ==
  /\ haltEv' = TRUE /\ stopEv' = TRUE /\ cancelEv' = TRUE
  /\ haltCall' = TRUE
  /\ Ask
  /\ UNCHANGED <<durable, shares, pc, job, worker, acct, attempted, broker>>

HaltLatch ==
  /\ haltCall /\ pc = "idle"
  /\ Latch
  /\ haltCall' = FALSE
  /\ UNCHANGED <<rows, manifest, shares, pc, job, worker, cancelEv, acct,
                 attempted, broker, asked>>

Stop ==
  /\ stopEv' = TRUE /\ cancelEv' = TRUE
  /\ Ask
  /\ UNCHANGED <<durable, shares, pc, job, worker, haltEv, session, broker>>

ResetHalt ==
  /\ pc = "idle" /\ Stopped /\ Pending = {}
  /\ haltEv' = FALSE /\ haltReason' = FALSE
  /\ UNCHANGED <<rows, manifest, shares, pc, job, worker, stopEv, cancelEv,
                 session, broker, asked>>

\* import_strategy, with switch: the active manifest is replaced.
Activate(m) ==
  /\ pc = "idle" /\ Stopped /\ Pending = {}
  /\ manifest' = m
  /\ UNCHANGED <<rows, haltReason, shares, pc, job, worker, flags, session,
                 broker, asked>>

\* A new adapter is built for the chosen account: its memory starts empty.
SetMode(a) ==
  /\ pc = "idle" /\ Stopped
  /\ \A i \in Pending : i.acct = a
  /\ acct' = a
  /\ attempted' = {}
  /\ UNCHANGED <<durable, shares, pc, job, worker, flags, haltCall, broker,
                 asked>>

\* preview(): the plan may find the daily loss limit reached.
PreviewLoss ==
  /\ pc = "idle"
  /\ Latch
  /\ UNCHANGED <<rows, manifest, shares, pc, job, worker, cancelEv, session,
                 broker, asked>>

\* BestBroker.start, whose thread makes the respect_cancel steps, lifts the stop.
Rearm ==
  /\ Driven /\ pc = "idle"
  /\ cancelEv' = FALSE
  /\ asked' = "no"
  /\ UNCHANGED <<durable, shares, pc, job, worker, haltEv, stopEv, session,
                 broker>>

-----------------------------------------------------------------------------
(* start(), whose preview is on the network while the lock is held. *)

StartBegin ==
  /\ ~Driven
  /\ pc = "idle" /\ Stopped /\ ~haltEv
  /\ pc' = "start"
  /\ asked' = "no"
  /\ UNCHANGED <<durable, shares, job, worker, flags, session, broker>>

StartRefused ==
  /\ pc = "start" /\ pc' = "idle"
  /\ \/ UNCHANGED <<haltEv, stopEv, haltReason>>
     \/ Latch
  /\ UNCHANGED <<rows, manifest, shares, job, worker, cancelEv, session, broker,
                 asked>>

\* The plan tests the halt flag before it reads the account: a halt raised
\* after that test, like any stop, is not seen here.
StartRun ==
  /\ pc = "start" /\ pc' = "idle"
  /\ PlanChecks(FALSE)
  /\ stopEv' = FALSE
  /\ worker' = "top"
  /\ UNCHANGED <<durable, shares, job, haltEv, cancelEv, session, broker, asked>>

-----------------------------------------------------------------------------
(* step(): from the lock to the durable intent. *)

StopSeen == haltEv \/ cancelEv \/ (job.auto /\ stopEv)

\* The loop is left: only what step() still needs is kept.
Leave(sent) ==
  /\ pc' = "closing"
  /\ job' = [NoJob EXCEPT !.auto = job.auto, !.sent = sent]

\* An exception leaves step(); the runner thread then stops itself.
Raise ==
  /\ pc' = "idle" /\ job' = NoJob
  /\ worker' = IF job.auto THEN "off" ELSE worker

RaiseOnly ==
  /\ Raise
  /\ stopEv' = (stopEv \/ job.auto)
  /\ UNCHANGED <<haltEv, haltReason>>

RaiseLatched == Raise /\ Latch

\* A BestBroker steps with respect_cancel, the operator's step() takes the
\* stop requests before it as answered, and has no partial route.
StepBegin(partial) ==
  /\ pc = "idle" /\ Stopped
  /\ IF Driven THEN ~cancelEv ELSE ~partial
  /\ cancelEv' = FALSE
  /\ asked' = IF Driven THEN asked ELSE "no"
  /\ IF haltEv THEN UNCHANGED <<pc, job>>
     ELSE pc' = "preview" /\ job' = [NoJob EXCEPT !.partial = partial]
  /\ UNCHANGED <<durable, shares, worker, haltEv, stopEv, session, broker>>

\* step(automatic=True), called by the runner thread.
WorkerStep ==
  /\ pc = "idle" /\ worker = "go"
  /\ cancelEv' = FALSE
  /\ IF haltEv
     THEN worker' = "off" /\ stopEv' = TRUE /\ UNCHANGED <<pc, job>>
     ELSE /\ worker' = "running" /\ pc' = "preview"
          /\ job' = [NoJob EXCEPT !.auto = TRUE]
          /\ UNCHANGED stopEv
  /\ UNCHANGED <<durable, shares, haltEv, session, broker, asked>>

\* _plan raises, blocks the step or finds the daily loss limit reached; a
\* manifest check just before the intent raises too.
PlanRefused ==
  /\ pc \in {"preview", "loop", "planned"}
  /\ RaiseOnly \/ (pc # "planned" /\ RaiseLatched)
  /\ UNCHANGED <<rows, manifest, shares, cancelEv, session, broker, asked>>

Preview ==
  /\ pc = "preview"
  /\ PlanAllows(job.partial)
  /\ pc' = "loop"
  /\ job' = [job EXCEPT !.todo = PlanCodes(job.partial)]
  /\ UNCHANGED <<durable, shares, worker, flags, session, broker, asked>>

\* The loop over the plan is left: no item, a stop, or, after a paper fill, a
\* fresh plan that refuses.
LoopEnd ==
  /\ pc = "loop"
  /\ \/ (job.todo = {} \/ StopSeen \/ job.sent) /\ UNCHANGED <<haltEv, stopEv, haltReason>>
     \/ job.sent /\ Latch
  /\ Leave(job.sent)
  /\ UNCHANGED <<rows, manifest, shares, worker, cancelEv, session, broker, asked>>

\* The fresh plan no longer holds this item.
ItemGone(c) ==
  /\ pc = "loop" /\ c \in job.todo /\ ~StopSeen
  /\ PlanAllows(job.partial)
  /\ job' = [job EXCEPT !.todo = @ \ {c}]
  /\ UNCHANGED <<durable, shares, pc, worker, flags, session, broker, asked>>

FreshPlan(c) ==
  /\ pc = "loop" /\ c \in job.todo /\ ~StopSeen
  /\ PlanAllows(job.partial)
  /\ c \in PlanCodes(job.partial)
  /\ pc' = "planned"
  /\ job' = [job EXCEPT !.cur = IdOf(c, job.partial), !.todo = @ \ {c},
                        !.side = SideOf(c), !.qty = QtyOf(c)]
  /\ UNCHANGED <<durable, shares, worker, flags, session, broker, asked>>

StopBeforeIntent ==
  /\ pc = "planned" /\ StopSeen
  /\ Leave(job.sent)
  /\ UNCHANGED <<durable, shares, worker, flags, session, broker, asked>>

\* Bug: the UPDATE that reopens a row leaves its quantity as it was.
IntentStaleQty(i) ==
  LET old == rows[i]
  IN  [status |-> "SUBMITTING", acked |-> FALSE, fill |-> old.fill,
       qty  |-> IF old.status = "NONE" THEN job.qty ELSE old.qty,
       side |-> IF old.status = "NONE" THEN job.side ELSE old.side,
       turned |-> old.status # "NONE" /\ old.side # job.side]

\* An INSERT, or the UPDATE that reopens a row known to be unsent; the
\* UPDATE sets neither code nor side.
Intent(i) ==
  LET old == rows[i]
  IN  [status |-> "SUBMITTING", qty |-> job.qty, acked |-> FALSE,
       side |-> IF old.status = "NONE" THEN job.side ELSE old.side,
       fill |-> old.fill, turned |-> old.status # "NONE" /\ old.side # job.side]

\* The durable intent is committed BEFORE the network side effect.
RecordIntent ==
  /\ pc = "planned" /\ ~StopSeen
  /\ rows' = [rows EXCEPT ![job.cur] = Intent(job.cur)]
  /\ pc' = "recorded"
  /\ UNCHANGED <<haltReason, manifest, shares, job, worker, flags, session,
                 broker, asked>>

-----------------------------------------------------------------------------
(* step(): from the intent to the recorded outcome. *)

SetStatus(s) == rows' = [rows EXCEPT ![job.cur].status = s]

StopBeforeSend ==
  /\ pc = "recorded" /\ StopSeen
  /\ SetStatus("CANCELLED_BEFORE_SEND")
  /\ Leave(job.sent)
  /\ UNCHANGED <<haltReason, manifest, shares, worker, flags, session,
                 broker, asked>>

\* Bug: the paper ledger commits before the order is marked filled.
PaperFillLedgerOnly ==
  /\ pc = "recorded" /\ ~StopSeen /\ ~Simulate
  /\ shares' = [shares EXCEPT ![Paper][job.cur.code] =
                  IF job.side = "BUY" THEN @ + job.qty ELSE @ - job.qty]
  /\ job' = [job EXCEPT !.sent = TRUE]
  /\ pc' = "loop"
  /\ UNCHANGED <<durable, worker, flags, session, broker, asked>>

\* Paper mode: the ledger and the finished order are one transaction.
PaperFill ==
  /\ pc = "recorded" /\ ~StopSeen /\ ~Simulate
  /\ rows' = [rows EXCEPT ![job.cur].status = "FILLED", ![job.cur].acked = TRUE]
  /\ shares' = [shares EXCEPT ![Paper][job.cur.code] =
                  IF job.side = "BUY" THEN @ + job.qty ELSE @ - job.qty]
  /\ job' = [job EXCEPT !.sent = TRUE]
  /\ pc' = "loop"
  /\ UNCHANGED <<haltReason, manifest, worker, flags, session, broker, asked>>

Submit ==
  /\ pc = "recorded" /\ ~StopSeen /\ Simulate
  /\ pc' = "preflight"
  /\ UNCHANGED <<durable, shares, job, worker, flags, session, broker, asked>>

\* The adapter refuses before it calls place_order.  Only the partial route
\* turns the refusal into BrokerOrderNotSent; the other knows just an error.
RefusedNotSent ==
  /\ pc \in {"preflight", "cleared"} /\ job.partial
  /\ job.cur \notin attempted
  /\ SetStatus("CANCELLED_BEFORE_SEND")
  /\ Leave(job.sent)
  /\ UNCHANGED <<haltReason, manifest, shares, worker, flags, session,
                 broker, asked>>

\* Bug: an exception from the adapter means the order was not sent.
OutcomeTakenAsUnsent ==
  /\ pc \in {"preflight", "cleared", "sending"}
  /\ SetStatus("CANCELLED_BEFORE_SEND")
  /\ RaiseLatched
  /\ UNCHANGED <<manifest, shares, cancelEv, session, broker, asked>>

OutcomeUnknown ==
  /\ pc \in {"preflight", "cleared", "sending"}
  /\ SetStatus("UNKNOWN")
  /\ RaiseLatched
  /\ UNCHANGED <<manifest, shares, cancelEv, session, broker, asked>>

\* Bug: no cancel_check between the account read and the request.
PreflightUnchecked ==
  /\ pc = "preflight"
  /\ job.cur \notin attempted
  /\ \A i \in Ids : i.acct = acct => book[i].st \notin Live
  /\ job.side = "SELL" => job.qty <= seen[acct][job.cur.code]
  /\ pc' = "cleared"
  /\ UNCHANGED <<durable, shares, job, worker, flags, session, broker, asked>>

\* _submission_preflight: a fresh account read, then cancel_check last.
Preflight ==
  /\ pc = "preflight"
  /\ job.cur \notin attempted
  /\ \A i \in Ids : i.acct = acct => book[i].st \notin Live
  /\ job.side = "SELL" => job.qty <= seen[acct][job.cur.code]
  /\ ~haltEv /\ ~cancelEv
  /\ pc' = "cleared"
  /\ UNCHANGED <<durable, shares, job, worker, flags, session, broker, asked>>

PlaceOrder ==
  /\ pc = "cleared"
  /\ attempted' = attempted \cup {job.cur}
  /\ wire' = wire \cup {[id |-> job.cur, side |-> job.side, qty |-> job.qty]}
  /\ pc' = "sending"
  /\ UNCHANGED <<durable, shares, job, worker, flags, acct, haltCall, book, seen,
                 asked>>

\* Accepting a request does not establish a fill.
Acknowledged ==
  /\ pc = "sending"
  /\ book[job.cur].st # "NONE"
  /\ rows' = [rows EXCEPT ![job.cur].status = "PENDING_RECONCILE",
                          ![job.cur].acked = TRUE]
  /\ Leave(TRUE)
  /\ UNCHANGED <<haltReason, manifest, shares, worker, flags, session, broker,
                 asked>>

\* step() returns; a last snapshot, taken when nothing is pending, may raise.
StepReturn ==
  /\ pc = "closing"
  /\ \/ /\ pc' = "idle" /\ job' = NoJob
        /\ worker' = IF job.auto THEN "top" ELSE worker
        /\ UNCHANGED stopEv
     \/ /\ ~haltEv /\ ~cancelEv /\ ~(Simulate /\ job.sent /\ Pending # {})
        /\ Raise
        /\ stopEv' = (stopEv \/ job.auto)
  /\ UNCHANGED <<durable, shares, haltEv, cancelEv, session, broker, asked>>

-----------------------------------------------------------------------------
(* reconcile(), and the runner thread that calls it. *)

\* Bug: the zero quantity of an unknown answer is kept as a fill.
ReconciledZeroFill(i, answer) ==
  LET b == book[i]
  IN  IF answer = "unknown" THEN [rows[i] EXCEPT !.status = "UNKNOWN", !.fill = 0]
      ELSE [rows[i] EXCEPT !.status = b.st, !.acked = TRUE, !.fill = b.dealt]

\* Bug: an order the broker does not show has failed.
ReconciledAbsentFailed(i, answer) ==
  LET b == book[i]
  IN  IF answer = "unknown" THEN [rows[i] EXCEPT !.status = "FAILED"]
      ELSE [rows[i] EXCEPT !.status = b.st, !.acked = TRUE, !.fill = b.dealt]

\* What one pending row becomes.  "read" is the broker's own row, found by
\* order id or, without one, by remark; "unknown" is every answer that cannot
\* be bound to the intent, absence of an unacknowledged order included.
Reconciled(i, answer) ==
  LET b == book[i]
  IN  IF answer = "unknown" THEN [rows[i] EXCEPT !.status = "UNKNOWN"]
      ELSE [rows[i] EXCEPT !.status = b.st, !.acked = TRUE,
              !.fill = IF b.st \in {"FILLED_ALL", "FILLED_PART", "CANCELLED_PART",
                                    "FAILED", "CANCELLED_ALL"}
                       THEN b.dealt ELSE @]

\* The rows are read and committed one by one; a read error leaves the rest.
ReconcileRows(done, answers) ==
  /\ Simulate
  /\ \A i \in done :
       /\ i.acct = acct
       /\ answers[i] = "read" => book[i].st # "NONE" /\ book[i].n = 1
  /\ rows' = [i \in Ids |-> IF i \in done THEN Reconciled(i, answers[i]) ELSE rows[i]]

Reconcile ==
  /\ pc = "idle"
  /\ \E done \in SUBSET Pending : \E answers \in [done -> {"read", "unknown"}] :
       ReconcileRows(done, answers)
  /\ UNCHANGED <<haltReason, manifest, shares, pc, job, worker, flags, session,
                 broker, asked>>

\* Bug: the runner's loop does not look at the stop flag.
WorkerTopDeaf ==
  /\ worker = "top"
  /\ worker' = IF Simulate /\ Pending # {} THEN "reconcile" ELSE "go"
  /\ UNCHANGED <<durable, shares, pc, job, flags, session, broker, asked>>

WorkerTop ==
  /\ worker = "top"
  /\ worker' = CASE stopEv                     -> "off"
                 [] ~stopEv /\ Simulate /\ Pending # {} -> "reconcile"
                 [] OTHER                      -> "go"
  /\ UNCHANGED <<durable, shares, pc, job, flags, session, broker, asked>>

\* Anything still pending after the reconcile stops the runner.
WorkerReconcile ==
  /\ worker = "reconcile" /\ pc = "idle"
  /\ \E done \in SUBSET Pending : \E answers \in [done -> {"read", "unknown"}] :
       /\ ReconcileRows(done, answers)
       /\ IF Pending' = {} THEN worker' = "go" /\ UNCHANGED stopEv
          ELSE worker' = "off" /\ stopEv' = TRUE
  /\ UNCHANGED <<haltReason, manifest, shares, pc, job, haltEv, cancelEv, session,
                 broker, asked>>

-----------------------------------------------------------------------------
(* The process dies and is started again: __init__ on the durable state. *)

\* Bug: only pending orders halt a restarted engine.
RebootForgetsHalt ==
  /\ pc' = "idle" /\ job' = NoJob /\ worker' = "off"
  /\ haltReason' = (haltReason \/ Pending # {})
  /\ haltEv' = (Pending # {}) /\ stopEv' = TRUE /\ cancelEv' = FALSE
  /\ acct' = Paper /\ attempted' = {} /\ haltCall' = FALSE
  /\ asked' = "no"
  /\ UNCHANGED <<rows, manifest, shares, broker>>

Reboot ==
  /\ pc' = "idle" /\ job' = NoJob /\ worker' = "off"
  /\ haltReason' = (haltReason \/ Pending # {})
  /\ haltEv' = haltReason' /\ stopEv' = TRUE /\ cancelEv' = FALSE
  /\ acct' = Paper /\ attempted' = {} /\ haltCall' = FALSE
  /\ asked' = "no"
  /\ UNCHANGED <<rows, manifest, shares, broker>>

-----------------------------------------------------------------------------
(* The SIMULATE account (external). *)

BrokerAccepts(o) ==
  /\ o \in wire
  /\ wire' = wire \ {o}
  /\ book' = [book EXCEPT ![o.id] =
       IF @.n = 0 THEN [st |-> "SUBMITTED", side |-> o.side, qty |-> o.qty,
                        dealt |-> 0, n |-> 1]
       ELSE [@ EXCEPT !.n = 2]]
  /\ UNCHANGED <<durable, shares, pc, job, worker, flags, session, seen, asked>>

BrokerRejects(o) ==
  /\ o \in wire
  /\ wire' = wire \ {o}
  /\ UNCHANGED <<durable, shares, pc, job, worker, flags, session, book, seen, asked>>

BrokerFills(i) ==
  /\ book[i].st \in Live
  /\ book[i].dealt < book[i].qty
  /\ book' = [book EXCEPT ![i].dealt = @ + 1,
       ![i].st = IF book[i].dealt + 1 = book[i].qty THEN "FILLED_ALL" ELSE "FILLED_PART"]
  /\ shares' = [shares EXCEPT ![i.acct][i.code] =
                  IF book[i].side = "BUY" THEN @ + 1 ELSE @ - 1]
  /\ UNCHANGED <<durable, pc, job, worker, flags, session, wire, seen, asked>>

BrokerEnds(i) ==
  /\ book[i].st \in Live
  /\ \E s \in Unfilled \cup {"CANCELLED_PART"} :
       /\ (s = "CANCELLED_PART") = (book[i].dealt > 0)
       /\ book' = [book EXCEPT ![i].st = s]
  /\ UNCHANGED <<durable, shares, pc, job, worker, flags, session, wire, seen, asked>>

PositionsCatchUp(a) ==
  /\ seen[a] # shares[a]
  /\ seen' = [seen EXCEPT ![a] = shares[a]]
  /\ UNCHANGED <<durable, shares, pc, job, worker, flags, session, wire, book, asked>>

-----------------------------------------------------------------------------
BrokerNext ==
  \/ \E o \in wire : BrokerAccepts(o) \/ BrokerRejects(o)
  \/ \E i \in Ids : BrokerFills(i) \/ BrokerEnds(i)
  \/ \E a \in Accounts : PositionsCatchUp(a)

\* The step in progress under the lock.
StepNext ==
  \/ PlanRefused \/ Preview \/ LoopEnd
  \/ \E c \in Codes : ItemGone(c) \/ FreshPlan(c)
  \/ StopBeforeIntent \/ RecordIntent
  \/ StopBeforeSend \/ PaperFill \/ Submit
  \/ RefusedNotSent \/ OutcomeUnknown \/ Preflight \/ PlaceOrder \/ Acknowledged
  \/ StepReturn

WorkerNext == WorkerTop \/ WorkerReconcile \/ WorkerStep

OperatorNext ==
  \/ Halt \/ HaltLatch \/ Stop \/ ResetHalt \/ PreviewLoss \/ Rearm
  \/ \E m \in Manifests : Activate(m)
  \/ \E a \in Books : SetMode(a)
  \/ StartBegin \/ StartRefused \/ StartRun
  \/ \E partial \in BOOLEAN : StepBegin(partial)
  \/ Reconcile

Next == OperatorNext \/ StepNext \/ WorkerNext \/ Reboot \/ BrokerNext

Spec == Init /\ [][Next]_vars

\* A step under the lock goes on, since every call it makes returns or times
\* out, and the runner thread, which nobody else can keep from the lock for
\* ever, gets its turn.
FairSpec ==
  /\ Spec
  /\ WF_vars(StepNext)
  /\ WF_vars(WorkerNext)

-----------------------------------------------------------------------------
(* Properties. *)

Flying(i) == \E o \in wire : o.id = i

\* Across crashes, lost answers and reopened rows, the broker makes at most
\* one order of one client id (submit, _attempted, CANCELLED_BEFORE_SEND).
SentAtMostOnce ==
  \A i \in Ids :
    /\ book[i].n <= 1
    /\ Flying(i) => book[i].n = 0
    /\ \A o, p \in wire : o.id = i /\ p.id = i => o = p

\* The account the engine works on is the account of every unresolved order.
OneBook == Simulate => \A i \in Pending : i.acct = acct

\* One broker order per cycle: over all accounts, at most one order is on its
\* way or live at the broker (step's break, _pending, open_orders), and every
\* unresolved one belongs to the account the engine works on (set_mode,
\* reconcile).
OneOutstanding ==
  /\ \A i, j \in Ids :
       (Flying(i) \/ book[i].st \in Live) /\ (Flying(j) \/ book[j].st \in Live)
         => i = j
  /\ OneBook

\* A row that reconcile settled says what the broker's finished order says,
\* and nothing of that order is still to come.
SettledIsTrue ==
  \A i \in Ids : rows[i].status \in Ended =>
    /\ ~Flying(i)
    /\ rows[i].status = book[i].st
    /\ rows[i].fill # NoFill => rows[i].fill = book[i].dealt

\* A row that step called unsent, or never wrote, has nothing at the broker.
UnsentIsTrue ==
  \A i \in Ids : rows[i].status \in Unsent => ~Flying(i) /\ book[i].n = 0

\* What a durable row says of an order: its quantity always, and its side
\* except, and always then, where the row was reopened for the other side.
Describes(row, o) == row.qty = o.qty /\ (row.side = o.side <=> ~row.turned)

\* The durable row keeps the quantity the broker was asked for, a row reopened
\* for another target included, and the side unless the last reopening turned
\* it: the UPDATE sets no side, and nothing else parts a row from its order.
RowDescribesOrder ==
  \A i \in Ids :
    /\ book[i].n > 0 => Describes(rows[i], book[i])
    /\ \A o \in wire : o.id = i => Describes(rows[i], o)

\* The retries of one automatic intent never buy or sell more, in fills and
\* in what may still fill, than its first attempt ordered, however far the
\* position snapshot lags (_terminal_retry_remaining).
RetryWithinOriginal ==
  \A i \in Ids : i.gen = 0 /\ i.acct # Paper =>
    LET chain == {j \in Ids : /\ j.acct = i.acct /\ j.sig = i.sig /\ j.code = i.code
                              /\ book[j].n > 0}
        most == [j \in Ids |-> IF book[j].st \in Live THEN book[j].qty ELSE book[j].dealt]
    IN  (\E m \in Manifests : m.sig = i.sig /\ m.auto) /\ i \in chain =>
          SumFunctionOnSet(most, chain) <= book[i].qty

\* The paper ledger is what its filled orders add up to: ledger and order
\* commit together (step in paper mode).
PaperLedger ==
  \A c \in Codes :
    shares[Paper][c] = StartShares[c] +
      SumFunctionOnSet([i \in Ids |-> IF rows[i].side = "BUY" THEN rows[i].qty
                                                             ELSE -rows[i].qty],
                       {i \in Ids : i.acct = Paper /\ i.code = c /\ rows[i].status = "FILLED"})

\* A confirmed fill is never lowered or lost by a later answer, an unknown one
\* with its zero quantity included (reconcile).
FillsOnlyGrow == [][\A i \in Ids : rows[i].fill <= rows'[i].fill]_rows

\* cancel_check is the last moment at which a stop can keep an order back.
Sends == pc # "cleared" /\ pc' = "cleared"
Trades == Sends \/ shares'[Paper] # shares[Paper]

\* Once a halt is on disk nothing is sent until reset_halt, restarts included.
HaltHolds == [][haltReason => ~Trades]_vars

\* A stop or halt asked while a step or the runner is at work keeps every
\* order the adapter has not yet cleared from being sent.
StopHonoured == [][asked = "running" => ~Trades]_vars

\* The same for a stop asked while start() is still previewing.
StopDuringStart == [][asked # "no" => ~Sends]_vars

\* A stopped runner thread comes to its end.
RunnerStops == stopEv /\ worker # "off" ~> worker = "off"

\* Every order of a simulated account keeps what OrderIntents promises.
SimIds == {i \in Ids : i.acct # Paper}
Phase(i) == CASE rows[i].status = "NONE" -> "none"
              [] rows[i].status = "CANCELLED_BEFORE_SEND" -> "unsent"
              [] rows[i].status \in Ended -> "settled"
              [] OTHER -> "intended"
Intents == INSTANCE OrderIntents WITH
  Ids <- SimIds,
  phase <- [i \in SimIds |-> Phase(i)],
  flying <- {i \in SimIds : Flying(i)},
  reached <- {i \in SimIds : book[i].n > 0},
  closed <- {i \in SimIds : book[i].st \in Ended}
IntentsSpec == Intents!Spec
=============================================================================
