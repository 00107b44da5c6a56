----------------------------- MODULE PaperBook -----------------------------
(***************************************************************************)
(* One permanent paper account of the Cohort: Engine.paper_rebalance and    *)
(* what surrounds it (paper_mark, paper_record_close in core.py; the tick   *)
(* and the stops of cohort.py).  An attempt reads and computes under the    *)
(* engine lock; a stop, a halt or the death of the process may come between *)
(* its steps, and its trades are one transaction.                           *)
(*                                                                         *)
(* Money is counted in units of 1/2000 dollar, so that the fee of 5bp on a  *)
(* whole price is exact.  A quote is one price: a spread the code accepts   *)
(* is smaller than the model's price unit.  A quote that is missing, stale, *)
(* wide or not tradable is NoPrice.  Floating point, the one-day permissions *)
(* that widen a window and the identity checks of the plan are left out.    *)
(***************************************************************************)
EXTENDS Integers, FiniteSets, FiniteSetsExt

CONSTANTS
  Codes,     \* security codes, numbered in the order of their names
  Prices,    \* whole dollars
  Quotes,    \* what the sources may show: a price or none for each code
  Plans,     \* the frozen plans that may be prepared
  Routes,    \* the routes by which the cohort may call paper_rebalance
  Parts,     \* a weight of w stands for w / Parts
  StartCash, StartQty, \* the account at the beginning
  MaxDay     \* bound: last execution day

Unit == 2000
Days == 1..MaxDay
NoPrice == 0
None == -1

\* w are the frozen target weights, hold the exact unit HOLDs.
PlanType == [w : [Codes -> 0..Parts], hold : [Codes -> Nat \cup {None}]]

ASSUME ConstantsAssumption ==
  /\ Codes \subseteq Nat /\ IsFiniteSet(Codes)
  /\ Prices \subseteq Nat \ {0}
  /\ Quotes \subseteq [Codes -> Prices \cup {NoPrice}]
  /\ Plans \subseteq PlanType
  /\ Routes \subseteq {"whole", "qualified", "automatic"}
  /\ Parts \in Nat \ {0}
  /\ StartCash \in Nat /\ StartQty \in [Codes -> Nat]
  /\ MaxDay \in Nat

VARIABLES
  \* state.sqlite3 of the account
  cash, qty,   \* settings.paper
  fills,       \* tables orders and paper_fills, keyed by the hash of day, code, n
  batch,       \* table paper_batches
  mark,        \* settings.paper_marks
  nav,         \* table paper_nav: the book each day was valued with
  haltReason,
  \* the calendar
  day, phase,  \* the day's execution window, the rest of its session, its close
  \* the process
  pc, job,     \* the attempt in progress and what it has computed
  worker,      \* the cohort's thread
  haltEv, cancelEv,
  \* history
  asked        \* a stop or halt was asked since the last attempt began

ledger == <<cash, qty, fills, batch>>
views  == <<mark, nav>>
clock  == <<day, phase>>
flags  == <<haltReason, haltEv, cancelEv, asked>>
vars == <<ledger, views, clock, pc, job, worker, flags>>

\* A qualified-quotes batch keeps what its later attempts must not change.
Batch == [route : {"whole", "qualified", "automatic"}, plan : Plans,
          status : {"WAITING_QUOTES", "PARTIALLY_EXECUTED", "EXECUTED"},
          required : SUBSET Codes, processed : SUBSET Codes, traded : SUBSET Codes,
          equity : Nat \cup {None}, target : [Codes -> Nat \cup {None}],
          count : [Codes -> Nat]]
NoBatch == [status |-> "NONE"]

Fill == [day : Days, code : Codes, n : Nat, side : {"BUY", "SELL"}, qty : Nat \ {0},
         price : Prices]

\* A mark is as old as its at: the session of a day, then its close.
Mark == [price : Prices \cup {NoPrice}, at : 0..(2 * MaxDay + 1)]
Nav  == [basis : {"none", "live", "close"}, cash : Nat, qty : [Codes -> Nat]]

TypeOK ==
  /\ cash \in Nat /\ qty \in [Codes -> Nat]
  /\ fills \subseteq Fill
  /\ \A d \in Days : batch[d] = NoBatch \/ batch[d] \in Batch
  /\ mark \in [Codes -> Mark]
  /\ nav \in [0..MaxDay -> Nav]
  /\ haltReason \in BOOLEAN /\ haltEv \in BOOLEAN /\ cancelEv \in BOOLEAN
  /\ day \in 0..MaxDay /\ phase \in {"window", "session", "closed"}
  /\ pc \in {"idle", "computed", "cleared", "committed"}
  /\ worker \in BOOLEAN /\ asked \in BOOLEAN

NoJob == [batch |-> NoBatch]

Init ==
  /\ cash = StartCash /\ qty = StartQty
  /\ fills = {} /\ batch = [d \in Days |-> NoBatch]
  /\ mark = [c \in Codes |-> [price |-> NoPrice, at |-> 0]]
  /\ nav = [d \in 0..MaxDay |-> [basis |-> "none", cash |-> 0, qty |-> StartQty]]
  /\ day = 0 /\ phase = "closed"
  /\ pc = "idle" /\ job = NoJob /\ worker = FALSE
  /\ haltReason = FALSE /\ haltEv = FALSE /\ cancelEv = FALSE /\ asked = FALSE

-----------------------------------------------------------------------------
(* What one attempt computes from the ledger, the day's batch, a plan and   *)
(* the quotes that qualified.                                               *)

Held == {c \in Codes : qty[c] > 0}
Holds(plan) == {c \in Codes : plan.hold[c] # None}

Known(d) == batch[d].status # "NONE"

\* Bug: a batch that is finished is taken up again.
AdmissibleAgain(route, plan) ==
  /\ \A c \in Holds(plan) : qty[c] = plan.hold[c]
  /\ Known(day) =>
       /\ route # "whole" /\ batch[day].route # "whole"
       /\ batch[day].plan = plan
       /\ batch[day].route = "automatic" => route = "automatic"

\* A batch is resumed only by the same plan and, once automatic, the same
\* policy; a finished or a whole one is returned as it is.
Admissible(route, plan) ==
  /\ \A c \in Holds(plan) : qty[c] = plan.hold[c]
  /\ Known(day) =>
       /\ route # "whole" /\ batch[day].route # "whole"
       /\ batch[day].plan = plan
       /\ batch[day].status # "EXECUTED"
       /\ batch[day].route = "automatic" => route = "automatic"

Required(plan) ==
  {c \in Codes : plan.w[c] > 0} \cup Held \cup
    (IF Known(day) THEN batch[day].required ELSE {})

\* An exact HOLD is never sized from its weight.
Pending(plan) ==
  (Required(plan) \ (IF Known(day) THEN batch[day].processed ELSE {})) \ Holds(plan)

\* The sizing basis: fixed by the first attempt that could value every
\* holding, by a qualified quote or else by the recorded mark.
Equity(q) ==
  LET price(c) == IF q[c] # NoPrice THEN q[c] ELSE mark[c].price
  IN  CASE Known(day) /\ batch[day].equity # None -> batch[day].equity
        [] (~Known(day) \/ batch[day].equity = None)
             /\ \A c \in Held : price(c) # NoPrice ->
             cash + SumFunctionOnSet([c \in Held |-> qty[c] * price(c) * Unit], Held)
        [] OTHER -> None

Sized(plan, q) ==
  {c \in Pending(plan) : q[c] # NoPrice /\ (plan.w[c] = 0 \/ Equity(q) # None)}

\* Bug: every attempt of an automatic batch sizes its codes anew.
TargetAnew(route, plan, q, c) ==
  IF plan.w[c] = 0 THEN 0
  ELSE (plan.w[c] * Equity(q)) \div (Parts * Unit * q[c])

\* An automatic batch keeps the target it first computed for a code.
Target(route, plan, q, c) ==
  IF route = "automatic" /\ Known(day) /\ batch[day].target[c] # None
  THEN batch[day].target[c]
  ELSE IF plan.w[c] = 0 THEN 0
  ELSE (plan.w[c] * Equity(q)) \div (Parts * Unit * q[c])

Fee == Unit \div 2000

\* Bug: the fee is not reserved when a purchase is cut to the cash.
AffordableNoFee(money, price) == money \div (price * Unit)

\* The shares a purchase can pay, its own fee included.
Affordable(money, price) == money \div (price * (Unit + Fee))

\* What is left of a book b after the purchase of up to n shares of a code.
Buy(b, c, n, price) ==
  LET k == Min({n, Affordable(b.cash, price)})
  IN  [cash |-> b.cash - k * price * (Unit + Fee), qty |-> [b.qty EXCEPT ![c] = @ + k]]

\* Of some codes the one bought last: the lightest weight, then the last name.
Lightest(plan, s) ==
  CHOOSE c \in s : \A d \in s \ {c} :
    plan.w[d] > plan.w[c] \/ (plan.w[d] = plan.w[c] /\ d < c)

\* Sales come first, ...
Sold(route, plan, q) ==
  LET goal(c) == Target(route, plan, q, c)
      sales == {c \in Sized(plan, q) : goal(c) < qty[c]}
  IN  [cash |-> cash + SumFunctionOnSet(
                         [c \in sales |-> (qty[c] - goal(c)) * q[c] * (Unit - Fee)], sales),
       qty  |-> [c \in Codes |-> IF c \in sales THEN goal(c) ELSE qty[c]]]

\* ... then each purchase, the heaviest weight first, takes what the cash
\* still pays.
Traded(route, plan, q) ==
  LET goal(c) == Target(route, plan, q, c)
  IN  MapThenFoldSet(LAMBDA c, b : Buy(b, c, goal(c) - qty[c], q[c]),
                     Sold(route, plan, q), LAMBDA c : c, LAMBDA s : Lightest(plan, s),
                     {c \in Sized(plan, q) : goal(c) > qty[c]})

\* Bug: the remainder of a code is filled under the number of its first fill.
CountForgotten(route, c) == 0

\* How often the automatic batch has filled the code: part of the fill's id.
Count(route, c) ==
  IF route = "automatic" /\ Known(day) THEN batch[day].count[c] ELSE 0

NewFills(route, plan, q, after) ==
  {[day |-> day, code |-> c, n |-> Count(route, c), price |-> q[c],
    side |-> IF after[c] > qty[c] THEN "BUY" ELSE "SELL",
    qty |-> IF after[c] > qty[c] THEN after[c] - qty[c] ELSE qty[c] - after[c]]
   : c \in {x \in Sized(plan, q) : after[x] # qty[x]}}

\* Bug: a purchase cut short by the cash counts as done.
DoneAlways(route, plan, q, after) == Sized(plan, q)

\* The automatic route keeps a code pending until its target is reached.
Done(route, plan, q, after) ==
  {c \in Sized(plan, q) : route = "automatic" => after[c] = Target(route, plan, q, c)}

NewBatch(route, plan, q, after) ==
  LET changed == {c \in Sized(plan, q) : after[c] # qty[c]}
      processed == (Required(plan) \ Pending(plan)) \cup Done(route, plan, q, after)
      traded == changed \cup (IF Known(day) THEN batch[day].traded ELSE {})
  IN  [route |-> route, plan |-> plan, required |-> Required(plan),
       processed |-> processed, traded |-> traded, equity |-> Equity(q),
       status |-> CASE Required(plan) \subseteq processed -> "EXECUTED"
                    [] ~(Required(plan) \subseteq processed) /\
                         (processed # {} \/ (route = "automatic" /\ traded # {})) ->
                         "PARTIALLY_EXECUTED"
                    [] OTHER -> "WAITING_QUOTES",
       target |-> [c \in Codes |->
                    CASE route # "automatic" -> None
                      [] route = "automatic" /\ c \in Sized(plan, q) ->
                           Target(route, plan, q, c)
                      [] OTHER -> IF Known(day) THEN batch[day].target[c] ELSE None],
       count |-> [c \in Codes |->
                    IF route = "automatic" /\ c \in changed THEN Count(route, c) + 1
                    ELSE Count(route, c)]]

-----------------------------------------------------------------------------
(* The attempt, called by the cohort's tick. *)

\* Everything is computed before anything is written.
Attempt(route, plan, q) ==
  /\ pc = "idle" /\ worker /\ phase = "window"
  /\ ~haltEv /\ ~cancelEv
  /\ Admissible(route, plan)
  /\ route = "automatic" /\ Known(day) => Required(plan) = batch[day].required
  /\ route = "whole" => \A c \in Required(plan) : q[c] # NoPrice
  /\ Equity(q) # 0
  /\ LET after == Traded(route, plan, q)
     IN  job' = [batch |-> NewBatch(route, plan, q, after.qty), quotes |-> q,
                 cash |-> after.cash, qty |-> after.qty,
                 fills |-> NewFills(route, plan, q, after.qty)]
  /\ pc' = "computed" /\ asked' = FALSE
  /\ UNCHANGED <<ledger, views, clock, worker, haltReason, haltEv, cancelEv>>

\* A stop request, a window that ended before the commit of an automatic
\* batch, or an error rolls back.
GiveUp ==
  /\ pc \in {"computed", "cleared"}
  /\ pc' = "idle" /\ job' = NoJob
  /\ UNCHANGED <<ledger, views, clock, worker, flags>>

\* The last check of halt_event and cancel_step, inside the transaction.
Clear ==
  /\ pc = "computed"
  /\ job.batch.route = "automatic" => phase = "window"
  /\ ~haltEv /\ ~cancelEv
  /\ pc' = "cleared"
  /\ UNCHANGED <<ledger, views, clock, job, worker, flags>>

SameId(f, g) == f.day = g.day /\ f.code = g.code /\ f.n = g.n

\* Bug: the ledger is committed first, and the process may die in between.
CommitInTwo ==
  /\ pc = "cleared"
  /\ ~ \E f \in job.fills, g \in fills : SameId(f, g)
  /\ cash' = job.cash /\ qty' = job.qty
  /\ \/ fills' = fills \cup job.fills /\ batch' = [batch EXCEPT ![day] = job.batch]
     \/ UNCHANGED <<fills, batch>>
  /\ pc' = "committed"
  /\ UNCHANGED <<views, clock, job, worker, flags>>

\* One transaction; a fill id already in the table would undo all of it.
Commit ==
  /\ pc = "cleared"
  /\ ~ \E f \in job.fills, g \in fills : SameId(f, g)
  /\ cash' = job.cash /\ qty' = job.qty
  /\ fills' = fills \cup job.fills
  /\ batch' = [batch EXCEPT ![day] = job.batch]
  /\ pc' = "committed"
  /\ UNCHANGED <<views, clock, job, worker, flags>>

\* paper_mark: held codes only, and never from an older observation.
Marked(q, at) ==
  [c \in Codes |-> IF c \in Held /\ q[c] # NoPrice /\ at >= mark[c].at
                   THEN [price |-> q[c], at |-> at] ELSE mark[c]]

Value(d, basis) ==
  nav' = [nav EXCEPT ![d] = [basis |-> basis, cash |-> cash, qty |-> qty]]

\* Marks and NAV are commits of their own.
MarkLive(q) ==
  /\ mark' = Marked(q, 2 * day)
  /\ IF \A c \in Held : mark'[c].price # NoPrice
     THEN Value(day, "live") ELSE UNCHANGED nav

AttemptMarks ==
  /\ pc = "committed"
  /\ MarkLive(job.quotes)
  /\ pc' = "idle" /\ job' = NoJob
  /\ UNCHANGED <<ledger, clock, worker, flags>>

\* The cohort values the book between and after its attempts; an empty book
\* is valued once a day.
MarkBook(q) ==
  /\ pc = "idle" /\ phase # "closed"
  /\ IF Held = {} THEN nav[day].basis = "none" ELSE \E c \in Held : q[c] # NoPrice
  /\ MarkLive(q)
  /\ UNCHANGED <<ledger, clock, pc, job, worker, flags>>

-----------------------------------------------------------------------------
(* The close, the calendar and the stops. *)

\* Bug: the close of a day may be recorded after later fills.
RecordCloseLate(d, q) ==
  /\ pc = "idle" /\ (d < day \/ (d = day /\ phase = "closed"))
  /\ \A c \in Held : q[c] # NoPrice
  /\ mark' = Marked(q, 2 * d + 1)
  /\ Value(d, "close")
  /\ UNCHANGED <<ledger, clock, pc, job, worker, flags>>

\* paper_record_close: holdings bought later did not exist at that close.
RecordClose(d, q) ==
  /\ pc = "idle" /\ (d < day \/ (d = day /\ phase = "closed"))
  /\ \A f \in fills : f.day <= d
  /\ \A c \in Held : q[c] # NoPrice
  /\ mark' = Marked(q, 2 * d + 1)
  /\ Value(d, "close")
  /\ UNCHANGED <<ledger, clock, pc, job, worker, flags>>

\* An attempt may outlive its window, but not its session.
NextDay ==
  /\ phase = "closed" /\ day < MaxDay
  /\ day' = day + 1 /\ phase' = "window"
  /\ UNCHANGED <<ledger, views, pc, job, worker, flags>>

WindowEnds ==
  /\ phase = "window" /\ phase' = "session"
  /\ UNCHANGED <<ledger, views, day, pc, job, worker, flags>>

SessionEnds ==
  /\ phase = "session" /\ pc = "idle" /\ phase' = "closed"
  /\ UNCHANGED <<ledger, views, day, pc, job, worker, flags>>

\* Bug: a draining worker does not keep a new start out.
StartAnyway ==
  /\ ~haltEv
  /\ cancelEv' = FALSE /\ worker' = TRUE
  /\ UNCHANGED <<ledger, views, clock, pc, job, haltReason, haltEv, asked>>

\* Cohort.start: a worker that has not ended is left alone.
Start ==
  /\ ~worker /\ ~haltEv
  /\ cancelEv' = FALSE /\ worker' = TRUE
  /\ UNCHANGED <<ledger, views, clock, pc, job, haltReason, haltEv, asked>>

\* Cohort.stop raises cancel_step without the engine's lock.
Stop ==
  /\ cancelEv' = TRUE /\ asked' = TRUE
  /\ UNCHANGED <<ledger, views, clock, pc, job, worker, haltReason, haltEv>>

Halt ==
  /\ haltEv' = TRUE /\ cancelEv' = TRUE /\ asked' = TRUE
  /\ UNCHANGED <<ledger, views, clock, pc, job, worker, haltReason>>

\* Engine._halt, once the lock is free.
HaltLatch ==
  /\ haltEv /\ pc = "idle"
  /\ haltReason' = TRUE
  /\ UNCHANGED <<ledger, views, clock, pc, job, worker, haltEv, cancelEv, asked>>

WorkerEnds ==
  /\ worker /\ pc = "idle" /\ (cancelEv \/ haltEv)
  /\ worker' = FALSE
  /\ UNCHANGED <<ledger, views, clock, pc, job, flags>>

\* The process dies and is started again; an open transaction is lost.
Reboot ==
  /\ pc' = "idle" /\ job' = NoJob /\ worker' = FALSE
  /\ haltEv' = haltReason /\ cancelEv' = FALSE /\ asked' = FALSE
  /\ UNCHANGED <<ledger, views, clock, haltReason>>

Next ==
  \/ \E route \in Routes, plan \in Plans, q \in Quotes : Attempt(route, plan, q)
  \/ GiveUp \/ Clear \/ Commit \/ AttemptMarks
  \/ \E q \in Quotes : MarkBook(q)
  \/ \E d \in 0..MaxDay, q \in Quotes : RecordClose(d, q)
  \/ NextDay \/ WindowEnds \/ SessionEnds
  \/ Start \/ Stop \/ Halt \/ HaltLatch \/ WorkerEnds \/ Reboot

Spec == Init /\ [][Next]_vars

-----------------------------------------------------------------------------
(* Properties. *)

Signed(f) == IF f.side = "BUY" THEN f.qty ELSE -f.qty
Cost(f)   == IF f.side = "BUY" THEN f.qty * f.price * (Unit + Fee)
             ELSE -(f.qty * f.price * (Unit - Fee))
QtyAfter(S, c) ==
  LET own == {f \in S : f.code = c}
  IN  StartQty[c] + SumFunctionOnSet([f \in own |-> Signed(f)], own)
CashAfter(S) == StartCash - SumFunctionOnSet([f \in S |-> Cost(f)], S)
UpTo(d) == {f \in fills : f.day <= d}

\* Cash and holdings are the start and every committed fill with its fee,
\* whatever attempts were stopped, rolled back or lost in a crash
\* (paper_rebalance's transaction).
LedgerIsFills == cash = CashAfter(fills) /\ \A c \in Codes : qty[c] = QtyAfter(fills, c)

\* No attempt that passed its checks computes a fill id that is in the table
\* already, which would undo it and every later one (":remainder:" count).
FreshIds ==
  pc = "cleared" => ~ \E f \in job.fills, g \in fills : SameId(f, g)

\* Over all attempts of a day a code is traded one way only and, on the
\* automatic route, never past the frozen target (pending_targets).
TowardsTarget ==
  \A d \in Days : Known(d) => \A c \in Codes :
    LET today == {f \in fills : f.day = d /\ f.code = c}
        before == QtyAfter(UpTo(d - 1), c)
        now == QtyAfter(UpTo(d), c)
    IN  /\ \A f, g \in today : f.side = g.side
        /\ batch[d].target[c] # None /\ now > before => now <= batch[d].target[c]
        /\ batch[d].target[c] # None /\ now < before => now >= batch[d].target[c]

\* An automatic batch is EXECUTED only with every frozen target reached
\* (CASH_CONSTRAINT keeps a code pending).
ExecutedIsReached ==
  \A d \in Days : Known(d) /\ batch[d].status = "EXECUTED" /\ batch[d].route = "automatic" =>
    \A c \in Codes : batch[d].target[c] # None => QtyAfter(UpTo(d), c) = batch[d].target[c]

\* A code the plan holds in exact units is not traded in its batch.
HoldsKept ==
  \A d \in Days : Known(d) =>
    \A f \in fills : f.day = d => f.code \notin Holds(batch[d].plan)

\* A day valued at its close shows the book of that close, however late the
\* close is recorded (paper_record_close).
NavOfItsDay ==
  \A d \in 0..MaxDay : nav[d].basis = "close" =>
    /\ nav[d].cash = CashAfter(UpTo(d))
    /\ \A c \in Codes : nav[d].qty[c] = QtyAfter(UpTo(d), c)

\* A finished batch never trades again, restarts and other routes included.
ExecutedIsFinal ==
  [][\A d \in Days : Known(d) /\ batch[d].status = "EXECUTED" =>
       /\ batch'[d] = batch[d]
       /\ {f \in fills' : f.day = d} = {f \in fills : f.day = d}]_vars

\* An attempt during which a stop or halt was asked never enters its commit,
\* even when the cohort is started again meanwhile (cancel_step, Cohort.start).
StopHonoured == [][asked => ~(pc # "cleared" /\ pc' = "cleared")]_vars

\* A mark never goes back in time: a late close does not hide a live mark.
MarksAdvance == [][\A c \in Codes : mark'[c].at >= mark[c].at]_vars
=============================================================================
