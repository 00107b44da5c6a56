------------------------- MODULE OrderEngine_proofs -------------------------
(***************************************************************************)
(* Proofs about OrderEngine for every value of its constants, in four       *)
(* parts: its types; the safety of the order lifecycle; that it implements  *)
(* OrderIntents; and what its rows say of the orders.                       *)
(***************************************************************************)
EXTENDS OrderEngine, Sums, TLAPS

\* The places from which step() works on one order.
Working == {"planned", "recorded", "preflight", "cleared", "sending"}

\* TypeOK and the order in hand: inductive.
JobOK == pc \in Working => job.cur \in Ids
Typed == TypeOK /\ JobOK

\* The blank row, broker order and job are well typed.
LEMMA Blank == NoRow \in Row /\ NoBrokerOrder \in BrokerOrder /\ NoJob \in Job
<1>1. NoRow \in Row
  BY ConstantsAssumption DEF NoRow, Row, Statuses, Live, TERMINAL, Ended, Unfilled,
                             Sides, Qtys, NoFill
<1>2. NoBrokerOrder \in BrokerOrder
  BY ConstantsAssumption DEF NoBrokerOrder, BrokerOrder, Live, Ended, Sides, Qtys
<1>3. NoJob \in Job
  BY ConstantsAssumption DEF NoJob, Job, Sides, Qtys
<1> QED BY <1>1, <1>2, <1>3

\* A freshly created engine (Engine.__init__ on an empty database) is typed.
LEMMA InitTyped == Init => Typed
<1> SUFFICES ASSUME Init PROVE Typed
  OBVIOUS
<1>1. StartShares \in [Codes -> Int]
  BY ConstantsAssumption
<1>2. rows \in [Ids -> Row] /\ book \in [Ids -> BrokerOrder] /\ job \in Job
  BY Blank DEF Init
<1>3. shares \in [Books -> [Codes -> Int]] /\ seen \in [Books -> [Codes -> Int]]
  BY <1>1 DEF Init
<1>4. acct \in Books
  BY DEF Init, Books
<1> QED BY <1>2, <1>3, <1>4 DEF Init, Typed, TypeOK, JobOK, Working, Places

\* An acknowledged row is a row.
LEMMA AckTyped ==
  ASSUME NEW r \in Row, NEW s \in Statuses
  PROVE  [r EXCEPT !.status = s, !.acked = TRUE] \in Row
BY DEF Row

\* What reconcile makes of one pending row is a row.
LEMMA ReconciledTyped ==
  ASSUME TypeOK, NEW i \in Ids, NEW answer
  PROVE  Reconciled(i, answer) \in Row
<1>1. rows[i] \in Row /\ book[i] \in BrokerOrder
  BY DEF TypeOK
<1>2. {"NONE"} \cup Live \cup Ended \subseteq Statuses /\ "UNKNOWN" \in Statuses
  BY DEF Statuses, TERMINAL
<1> QED BY <1>1, <1>2 DEF Reconciled, Row, BrokerOrder

\* reconcile leaves the orders table typed, whatever the broker answers.
LEMMA ReconcileRowsTyped ==
  ASSUME TypeOK, NEW done \in SUBSET Pending,
         NEW answers \in [done -> {"read", "unknown"}], ReconcileRows(done, answers)
  PROVE  rows' \in [Ids -> Row]
  BY ReconciledTyped DEF ReconcileRows, Pending, TypeOK

\* The operator's handlers (halt, stop, set_mode, start, ...) keep the types.
LEMMA OperatorTyped ==
  ASSUME Typed, OperatorNext
  PROVE  Typed'
<1> USE DEF Typed, TypeOK, JobOK, Working, Places
<1>1. CASE Halt \/ HaltLatch \/ Stop
  <2>1. CASE Halt
    BY <2>1 DEF Halt, Ask, durable, broker, session
  <2>2. CASE HaltLatch
    BY <2>2 DEF HaltLatch, Latch, broker, session
  <2>3. CASE Stop
    BY <2>3 DEF Stop, Ask, durable, broker, session
  <2> QED BY <1>1, <2>1, <2>2, <2>3
<1>2. CASE ResetHalt \/ PreviewLoss \/ Rearm
  BY <1>2 DEF ResetHalt, PreviewLoss, Rearm, Latch, durable, broker, session
<1>3. CASE \E m \in Manifests : Activate(m)
  BY <1>3 DEF Activate, flags, broker, session
<1>4. CASE \E a \in Books : SetMode(a)
  BY <1>4 DEF SetMode, durable, flags, broker
<1>5. CASE StartBegin \/ StartRefused \/ StartRun
  <2>1. CASE StartBegin
    BY <2>1 DEF StartBegin, durable, flags, broker, session
  <2>2. CASE StartRefused
    BY <2>2 DEF StartRefused, Latch, durable, flags, broker, session
  <2>3. CASE StartRun
    BY <2>3 DEF StartRun, Latch, durable, flags, broker, session
  <2> QED BY <1>5, <2>1, <2>2, <2>3
<1>6. CASE \E partial \in BOOLEAN : StepBegin(partial)
  <2>1. [NoJob EXCEPT !.partial = TRUE] \in Job /\ [NoJob EXCEPT !.partial = FALSE] \in Job
    BY Blank DEF Job
  <2> QED BY <1>6, <2>1 DEF StepBegin, durable, broker, session
<1>7. CASE Reconcile
  <2>1. rows' \in [Ids -> Row]
    BY <1>7, ReconcileRowsTyped DEF Reconcile
  <2> QED BY <1>7, <2>1 DEF Reconcile, flags, broker, session
<1> QED BY <1>1, <1>2, <1>3, <1>4, <1>5, <1>6, <1>7 DEF OperatorNext

\* The durable intent step() inserts or reopens is a row.
LEMMA IntentTyped ==
  ASSUME TypeOK, job.cur \in Ids
  PROVE  Intent(job.cur) \in Row
<1>1. rows[job.cur] \in Row /\ job \in Job
  BY DEF TypeOK
<1>2. "SUBMITTING" \in Statuses
  BY DEF Statuses
<1> QED BY <1>1, <1>2 DEF Intent, Row, Job

\* An update of one row's status keeps the orders table typed.
LEMMA SetStatusTyped ==
  ASSUME TypeOK, NEW s \in Statuses, SetStatus(s)
  PROVE  rows' \in [Ids -> Row]
  BY DEF TypeOK, SetStatus, Row

\* Leaving the order loop of step() keeps the job typed.
LEMMA LeaveTyped ==
  ASSUME TypeOK, NEW sent \in BOOLEAN, Leave(sent)
  PROVE  pc' = "closing" /\ job' \in Job
  BY Blank DEF TypeOK, Leave, Job

\* The order a plan makes is typed: QtyOf is positive and within MaxQty.
LEMMA PlanTyped ==
  ASSUME TypeOK, NEW c \in Codes, c \in PlanCodes(job.partial),
         PlanAllows(job.partial)
  PROVE  /\ IdOf(c, job.partial) \in Ids
         /\ SideOf(c) \in Sides
         /\ QtyOf(c) \in Qtys
<1>1. manifest \in ManifestType
  BY ConstantsAssumption DEF TypeOK
<1>2. IdOf(c, job.partial) \in Ids
  BY <1>1, ConstantsAssumption DEF IdOf, Gen, Ids, TypeOK, ManifestType, Books
<1>3. Position(c) \in Int
  BY DEF Position, TypeOK, Simulate, Books
<1>4. manifest.target[c] \in Int
  BY <1>1, ConstantsAssumption DEF ManifestType
<1>5. QtyOf(c) \in Nat
  BY <1>3, <1>4 DEF QtyOf, Delta
<1>6. QtyOf(c) <= MaxQty
  BY DEF PlanCodes, PlanAllows, PlanChecks
<1>7. SideOf(c) \in Sides
  BY DEF SideOf, Sides
<1> QED BY <1>2, <1>5, <1>6, <1>7, ConstantsAssumption DEF Qtys

\* A fill moves shares of one code in one book.
LEMMA MoveTyped ==
  ASSUME NEW held \in [Books -> [Codes -> Int]], NEW b \in Books, NEW c \in Codes,
         NEW n \in Int, NEW buys \in BOOLEAN
  PROVE  [held EXCEPT ![b][c] = IF buys THEN @ + n ELSE @ - n]
           \in [Books -> [Codes -> Int]]
<1>1. [held[b] EXCEPT ![c] = IF buys THEN @ + n ELSE @ - n] \in [Codes -> Int]
  OBVIOUS
<1> QED BY <1>1

\* Every step under the lock keeps the types, and an order stays in hand.
LEMMA StepTyped ==
  ASSUME Typed, StepNext
  PROVE  Typed'
<1> USE DEF Typed
<1> job.sent \in BOOLEAN
  BY DEF TypeOK, Job
<1>1. CASE PlanRefused
  BY <1>1, Blank DEF PlanRefused, RaiseOnly, RaiseLatched, Raise, Latch, TypeOK,
                     JobOK, Working, Places, session, broker
<1>2. CASE Preview
  <2>1. job' \in Job
    BY <1>2 DEF Preview, TypeOK, Job, PlanCodes, Wanted
  <2> QED BY <1>2, <2>1 DEF Preview, TypeOK, JobOK, Working, Places, durable,
                            flags, session, broker
<1>3. CASE LoopEnd
  <2>1. pc' = "closing" /\ job' \in Job
    BY <1>3, LeaveTyped DEF LoopEnd
  <2> QED BY <1>3, <2>1 DEF LoopEnd, Latch, TypeOK, JobOK, Working, Places,
                            session, broker
<1>4. CASE \E c \in Codes : ItemGone(c)
  <2>1. job' \in Job
    BY <1>4 DEF ItemGone, TypeOK, Job
  <2> QED BY <1>4, <2>1 DEF ItemGone, TypeOK, JobOK, Working, durable, flags,
                            session, broker
<1>5. CASE \E c \in Codes : FreshPlan(c)
  <2>1. PICK c \in Codes : FreshPlan(c)
    BY <1>5
  <2>2. job' \in Job /\ job'.cur \in Ids
    BY <2>1, PlanTyped DEF FreshPlan, TypeOK, Job
  <2> QED BY <2>1, <2>2 DEF FreshPlan, TypeOK, JobOK, Places, durable, flags,
                            session, broker
<1>6. CASE StopBeforeIntent
  BY <1>6, LeaveTyped DEF StopBeforeIntent, TypeOK, JobOK, Working, Places, durable,
                          flags, session, broker
<1>7. CASE RecordIntent
  <2>1. rows' \in [Ids -> Row]
    BY <1>7, IntentTyped DEF RecordIntent, TypeOK, JobOK, Working
  <2> QED BY <1>7, <2>1 DEF RecordIntent, TypeOK, JobOK, Working, Places, flags,
                            session, broker
<1>8. CASE StopBeforeSend \/ RefusedNotSent
  <2>1. rows' \in [Ids -> Row]
    BY <1>8, SetStatusTyped DEF StopBeforeSend, RefusedNotSent, Statuses, TERMINAL
  <2>2. pc' = "closing" /\ job' \in Job
    BY <1>8, LeaveTyped DEF StopBeforeSend, RefusedNotSent
  <2> QED BY <1>8, <2>1, <2>2 DEF StopBeforeSend, RefusedNotSent, TypeOK, JobOK,
                                  Working, Places, flags, session, broker
<1>9. CASE PaperFill
  <2>1. rows' \in [Ids -> Row]
    <3>1. "FILLED" \in Statuses
      BY DEF Statuses, TERMINAL
    <3>2. [rows[job.cur] EXCEPT !.status = "FILLED", !.acked = TRUE] \in Row
      <4>1. rows[job.cur] \in Row
        BY <1>9 DEF PaperFill, TypeOK, JobOK, Working
      <4> QED BY <3>1, <4>1, AckTyped
    <3>3. rows' = [rows EXCEPT ![job.cur] =
                     [rows[job.cur] EXCEPT !.status = "FILLED", !.acked = TRUE]]
      BY <1>9 DEF PaperFill
    <3> QED BY <3>2, <3>3 DEF TypeOK
  <2>2. shares' \in [Books -> [Codes -> Int]]
    <3>1. job.qty \in Int
      BY ConstantsAssumption DEF TypeOK, Job, Qtys
    <3>2. job.cur.code \in Codes /\ Paper \in Books
      BY <1>9 DEF PaperFill, JobOK, Working, Ids, Books
    <3> QED BY <1>9, <3>1, <3>2, MoveTyped DEF PaperFill, TypeOK
  <2>3. job' \in Job
    BY <1>9 DEF PaperFill, TypeOK, Job
  <2> QED BY <1>9, <2>1, <2>2, <2>3 DEF PaperFill, TypeOK, JobOK, Working, Places,
                                        flags, session, broker
<1>10. CASE Submit \/ Preflight
  BY <1>10 DEF Submit, Preflight, TypeOK, JobOK, Working, Places, durable, flags,
               session, broker
<1>11. CASE OutcomeUnknown
  <2>1. rows' \in [Ids -> Row]
    BY <1>11, SetStatusTyped DEF OutcomeUnknown, Statuses
  <2> QED BY <1>11, <2>1, Blank DEF OutcomeUnknown, RaiseLatched, Raise, Latch,
                                    TypeOK, JobOK, Working, Places, session, broker
<1>12. CASE PlaceOrder
  <2>1. job.cur \in Ids /\ job.side \in Sides /\ job.qty \in Qtys
    BY <1>12 DEF PlaceOrder, TypeOK, JobOK, Working, Job
  <2> QED BY <1>12, <2>1 DEF PlaceOrder, TypeOK, JobOK, Working, Places, Order,
                             durable, flags
<1>13. CASE Acknowledged
  <2>1. rows' \in [Ids -> Row]
    <3>1. "PENDING_RECONCILE" \in Statuses
      BY DEF Statuses
    <3>2. [rows[job.cur] EXCEPT !.status = "PENDING_RECONCILE", !.acked = TRUE] \in Row
      <4>1. rows[job.cur] \in Row
        BY <1>13 DEF Acknowledged, TypeOK, JobOK, Working
      <4> QED BY <3>1, <4>1, AckTyped
    <3>3. rows' = [rows EXCEPT ![job.cur] =
                     [rows[job.cur] EXCEPT !.status = "PENDING_RECONCILE", !.acked = TRUE]]
      BY <1>13 DEF Acknowledged
    <3> QED BY <3>2, <3>3 DEF TypeOK
  <2>2. pc' = "closing" /\ job' \in Job
    BY <1>13, LeaveTyped DEF Acknowledged
  <2> QED BY <1>13, <2>1, <2>2 DEF Acknowledged, TypeOK, JobOK, Working, Places,
                                   flags, session, broker
<1>14. CASE StepReturn
  BY <1>14, Blank DEF StepReturn, Raise, TypeOK, JobOK, Working, Places, durable,
                      session, broker
<1> QED BY <1>1, <1>2, <1>3, <1>4, <1>5, <1>6, <1>7, <1>8, <1>9, <1>10, <1>11,
           <1>12, <1>13, <1>14 DEF StepNext

\* The runner thread and a restart keep the types.
LEMMA WorkerTyped ==
  ASSUME Typed, WorkerNext \/ Reboot
  PROVE  Typed'
<1> USE DEF Typed
<1>1. CASE WorkerTop
  BY <1>1 DEF WorkerTop, TypeOK, JobOK, durable, flags, session, broker
<1>2. CASE WorkerReconcile
  <2>1. rows' \in [Ids -> Row]
    BY <1>2, ReconcileRowsTyped DEF WorkerReconcile
  <2>2. worker' \in {"go", "off"} /\ stopEv' \in BOOLEAN
    BY <1>2 DEF WorkerReconcile, TypeOK
  <2> QED BY <1>2, <2>1, <2>2 DEF WorkerReconcile, TypeOK, JobOK, session, broker
<1>3. CASE WorkerStep
  <2>1. [NoJob EXCEPT !.auto = TRUE] \in Job
    BY Blank DEF Job
  <2> QED BY <1>3, <2>1 DEF WorkerStep, TypeOK, JobOK, Working, Places, durable,
                            session, broker
<1>4. CASE Reboot
  BY <1>4, Blank DEF Reboot, TypeOK, JobOK, Working, Places, Books, broker
<1> QED BY <1>1, <1>2, <1>3, <1>4 DEF WorkerNext

\* The account's own events keep the types.
LEMMA BrokerTyped ==
  ASSUME Typed, BrokerNext
  PROVE  Typed'
<1> USE DEF Typed
<1>1. CASE \E o \in wire : BrokerAccepts(o)
  <2>1. PICK o \in wire : BrokerAccepts(o)
    BY <1>1
  <2>2. o \in Order /\ book[o.id] \in BrokerOrder /\ 0 \in Qtys
    BY ConstantsAssumption DEF TypeOK, Order, Qtys
  <2> DEFINE new == IF book[o.id].n = 0
                    THEN [st |-> "SUBMITTED", side |-> o.side, qty |-> o.qty,
                          dealt |-> 0, n |-> 1]
                    ELSE [book[o.id] EXCEPT !.n = 2]
  <2>3. new \in BrokerOrder
    BY <2>2 DEF BrokerOrder, Live, Order
  <2>4. book' = [book EXCEPT ![o.id] = new]
    BY <2>1 DEF BrokerAccepts
  <2>5. book' \in [Ids -> BrokerOrder]
    BY <2>3, <2>4 DEF TypeOK
  <2> QED BY <2>1, <2>5 DEF BrokerAccepts, TypeOK, JobOK, durable, flags, session
<1>2. CASE \E o \in wire : BrokerRejects(o)
  BY <1>2 DEF BrokerRejects, TypeOK, JobOK, durable, flags, session
<1>3. CASE \E i \in Ids : BrokerFills(i)
  <2>1. PICK i \in Ids : BrokerFills(i)
    BY <1>3
  <2>2. book[i] \in BrokerOrder /\ book[i].dealt + 1 \in Qtys
    BY <2>1, ConstantsAssumption DEF BrokerFills, TypeOK, BrokerOrder, Qtys
  <2>3. book' \in [Ids -> BrokerOrder]
    BY <2>1, <2>2 DEF BrokerFills, TypeOK, BrokerOrder, Live, Ended
  <2>4. shares' \in [Books -> [Codes -> Int]]
    BY <2>1, MoveTyped DEF BrokerFills, TypeOK, Ids
  <2> QED BY <2>1, <2>3, <2>4 DEF BrokerFills, TypeOK, JobOK, durable, flags, session
<1>4. CASE \E i \in Ids : BrokerEnds(i)
  <2>1. PICK i \in Ids : BrokerEnds(i)
    BY <1>4
  <2>2. book' \in [Ids -> BrokerOrder]
    <3>1. PICK s \in Unfilled \cup {"CANCELLED_PART"} : book' = [book EXCEPT ![i].st = s]
      BY <2>1 DEF BrokerEnds
    <3>2. s \in Ended
      BY <3>1 DEF Ended
    <3>3. [book[i] EXCEPT !.st = s] \in BrokerOrder
      BY <3>2 DEF TypeOK, BrokerOrder
    <3>4. book' = [book EXCEPT ![i] = [book[i] EXCEPT !.st = s]]
      BY <3>1
    <3> QED BY <3>3, <3>4 DEF TypeOK
  <2> QED BY <2>1, <2>2 DEF BrokerEnds, TypeOK, JobOK, durable, flags, session
<1>5. CASE \E a \in Accounts : PositionsCatchUp(a)
  BY <1>5 DEF PositionsCatchUp, TypeOK, JobOK, Books, durable, flags, session
<1> QED BY <1>1, <1>2, <1>3, <1>4, <1>5 DEF BrokerNext

\* Typed is inductive.
LEMMA NextTyped == Typed /\ [Next]_vars => Typed'
<1> SUFFICES ASSUME Typed, [Next]_vars PROVE Typed'
  OBVIOUS
<1>1. CASE Next
  BY <1>1, OperatorTyped, StepTyped, WorkerTyped, BrokerTyped DEF Next
<1>2. CASE UNCHANGED vars
  BY <1>2 DEF vars, Typed, TypeOK, JobOK, durable, flags, session, broker
<1> QED BY <1>1, <1>2

\* Every state the engine and the broker can reach is a state TypeOK allows,
\* whatever the accounts, codes, manifests and bounds.
THEOREM TypeInvariant == Spec => []TypeOK
<1>1. Init => Typed
  BY InitTyped
<1>2. Typed /\ [Next]_vars => Typed'
  BY NextTyped
<1>3. Typed => TypeOK
  BY DEF Typed
<1> QED BY <1>1, <1>2, <1>3, PTL DEF Spec

-----------------------------------------------------------------------------
(***************************************************************************)
(* The safety of the order lifecycle, for every value of the constants.     *)
(*                                                                         *)
(* The properties are not inductive alone.  Tied(i) relates the row, the   *)
(* request and the broker's order of one client id; Cycle adds that one     *)
(* order at a time is undecided; Work ties the order in hand to the place   *)
(* step() has reached; Stops follows a stop request until it is answered.   *)
(***************************************************************************)

Reaches(i) == Flying(i) \/ book[i].n > 0

Tied(i) ==
  /\ book[i].n <= 1
  /\ Flying(i) => book[i].n = 0
  /\ book[i].n = 0 => book[i].st = "NONE"
  /\ book[i].st \in Unfilled => book[i].dealt = 0
  /\ Reaches(i) => i.acct # Paper /\ rows[i].status \notin Unsent
  /\ Flying(i) \/ book[i].st \in Live => rows[i].status \notin TERMINAL
  /\ rows[i].status \in Ended => /\ ~Flying(i)
                                 /\ rows[i].status = book[i].st
                                 /\ rows[i].fill # NoFill => rows[i].fill = book[i].dealt
  /\ rows[i].fill # NoFill => book[i].n = 1 /\ rows[i].fill <= book[i].dealt

Cycle ==
  /\ \A i \in Ids : Tied(i)
  /\ \A o, p \in wire : o.id = p.id => o = p
  /\ \A i, j \in Pending : i = j

Work ==
  /\ pc = "planned" => rows[job.cur].status \in Unsent /\ Pending = {}
  /\ pc \in {"recorded", "preflight", "cleared"} =>
       rows[job.cur].status = "SUBMITTING" /\ ~Reaches(job.cur)
  /\ pc = "sending" => rows[job.cur].status = "SUBMITTING"
  /\ pc \in Working => job.cur.acct = acct
  /\ pc \in {"preflight", "cleared", "sending"} => Simulate
  /\ OneBook

Stops ==
  /\ haltReason => haltEv
  /\ Driven => worker = "off" /\ ~job.auto /\ pc # "start"
  /\ asked = "running" =>
       /\ stopEv
       /\ Driven => cancelEv
       /\ pc # "start"
       /\ pc \in {"preview", "loop", "planned", "recorded"} => StopSeen
       /\ pc = "preflight" => haltEv \/ cancelEv

Inv == Typed /\ Cycle /\ Work /\ Stops

-----------------------------------------------------------------------------
(* Cycle: what the orders are to each other. *)

\* The invariant holds of a freshly created engine.
LEMMA InitInv == Init => Inv
<1> SUFFICES ASSUME Init PROVE Inv
  OBVIOUS
<1>1. \A i \in Ids : Tied(i)
  BY DEF Init, Tied, Reaches, Flying, NoRow, NoBrokerOrder, NoFill, Live, Ended, Unfilled
<1>2. Pending = {}
  BY DEF Init, Pending, NoRow
<1> QED BY <1>1, <1>2, InitTyped
       DEF Inv, Cycle, Work, Stops, OneBook, Init, Working, NoJob

\* A step that touches neither row, request nor broker order changes nothing.
LEMMA CycleQuiet ==
  ASSUME Cycle, UNCHANGED <<rows, wire, book>>
  PROVE  Cycle' /\ Pending' = Pending
  BY DEF Cycle, Tied, Reaches, Flying, Pending

\* One row is rewritten.
LEMMA CycleRow ==
  ASSUME Typed, Cycle, NEW k \in Ids, NEW r \in Row, UNCHANGED <<wire, book>>,
         rows' = [rows EXCEPT ![k] = r], Tied(k)',
         \/ k \in Pending \/ Pending = {} \/ r.status \in TERMINAL
  PROVE  Cycle' /\ Pending' \subseteq Pending \cup {k}
<1>1. \A i \in Ids \ {k} : rows'[i] = rows[i] /\ (Tied(i) => Tied(i)')
  BY DEF Typed, TypeOK, Tied, Reaches, Flying
<1>2. rows'[k] = r
  BY DEF Typed, TypeOK
<1>3. Pending' \subseteq Pending \cup {k}
  BY <1>1 DEF Pending
<1>4. \A i, j \in Pending' : i = j
  <2>1. CASE k \in Pending \/ Pending = {}
    BY <2>1, <1>3 DEF Cycle
  <2>2. CASE r.status \in TERMINAL
    BY <2>2, <1>1, <1>2 DEF Cycle, Pending
  <2> QED BY <2>1, <2>2
<1> QED BY <1>1, <1>3, <1>4 DEF Cycle

\* What reconcile writes into one pending row.
LEMMA ReconciledTied ==
  ASSUME Typed, Cycle, NEW i \in Pending, NEW answer \in {"read", "unknown"},
         answer = "read" => book[i].st # "NONE" /\ book[i].n = 1,
         rows'[i] = Reconciled(i, answer), UNCHANGED <<wire, book>>
  PROVE  Tied(i)'
<1>1. i \in Ids /\ Tied(i) /\ rows[i] \in Row /\ book[i] \in BrokerOrder
  BY DEF Pending, Cycle, Typed, TypeOK
<1>2. CASE answer = "unknown"
  <2>1. rows'[i].status = "UNKNOWN" /\ rows'[i].fill = rows[i].fill
    BY <1>1, <1>2 DEF Reconciled, Row
  <2> QED BY <2>1, <1>1 DEF Tied, Reaches, Flying, Pending, Unsent, TERMINAL, Ended, Unfilled
<1>3. CASE answer = "read"
  <2>1. rows'[i].status = book[i].st /\ book[i].st \in Live \cup Ended
    BY <1>1, <1>3 DEF Reconciled, Row, BrokerOrder
  <2>2. ~Flying(i) /\ book[i].n = 1
    BY <1>1, <1>3 DEF Tied
  <2>3. rows'[i].fill = IF book[i].st \in {"FILLED_ALL", "FILLED_PART", "CANCELLED_PART",
                                          "FAILED", "CANCELLED_ALL"}
                        THEN book[i].dealt ELSE rows[i].fill
    BY <1>1, <1>3 DEF Reconciled, Row
  <2>4. book[i].dealt \in Nat /\ rows[i].fill \in Int
    BY <1>1, ConstantsAssumption DEF BrokerOrder, Row, Qtys, NoFill
  <2>5. rows'[i].fill # NoFill => rows'[i].fill <= book[i].dealt
    BY <2>3, <2>4, <1>1 DEF Tied
  <2>6. book[i].st \in Ended /\ rows'[i].fill # NoFill => rows'[i].fill = book[i].dealt
    <3>1. CASE book[i].st = "DELETED"
      BY <3>1, <2>3, <2>4, <1>1, ConstantsAssumption DEF Tied, Unfilled, Row, Qtys
    <3> QED BY <3>1, <2>3 DEF Ended, Unfilled
  <2>7. ~Flying(i)'
    BY <2>2 DEF Flying
  <2> QED BY <2>1, <2>2, <2>5, <2>6, <2>7, <1>1
          DEF Tied, Reaches, Unsent, TERMINAL, Live, Ended, Unfilled, Pending
<1> QED BY <1>2, <1>3

\* reconcile, whatever part of the pending rows it reads, keeps Cycle.
LEMMA CycleReconcile ==
  ASSUME Typed, Cycle, NEW done \in SUBSET Pending,
         NEW answers \in [done -> {"read", "unknown"}], ReconcileRows(done, answers),
         UNCHANGED <<wire, book>>
  PROVE  Cycle' /\ Pending' \subseteq Pending
<1>1. \A i \in Ids : rows'[i] = IF i \in done THEN Reconciled(i, answers[i]) ELSE rows[i]
  BY DEF ReconcileRows
<1>2. \A i \in Ids \ done : Tied(i)'
  BY <1>1 DEF Cycle, Tied, Reaches, Flying
<1>3. \A i \in done : Tied(i)'
  BY <1>1, ReconciledTied DEF ReconcileRows, Pending
<1>4. Pending' \subseteq Pending
  BY <1>1 DEF Pending
<1> QED BY <1>2, <1>3, <1>4 DEF Cycle

\* Requests and broker orders of one client id.
LEMMA CycleBroker ==
  ASSUME Typed, Cycle, BrokerNext
  PROVE  Cycle' /\ Pending' = Pending
<1>1. rows' = rows /\ Pending' = Pending
  BY DEF BrokerNext, BrokerAccepts, BrokerRejects, BrokerFills, BrokerEnds,
         PositionsCatchUp, durable, Pending
<1>2. \A i \in Ids : book[i] \in BrokerOrder /\ rows[i] \in Row /\ Tied(i)
  BY DEF Typed, TypeOK, Cycle
<1>3. \A i \in Ids : rows[i].fill \in Int /\ book[i].dealt \in Nat
  BY <1>2, ConstantsAssumption DEF Row, BrokerOrder, Qtys, NoFill
<1>4. CASE \E o \in wire : BrokerAccepts(o)
  <2>1. PICK o \in wire : BrokerAccepts(o)
    BY <1>4
  <2>2. o.id \in Ids /\ Flying(o.id) /\ book[o.id].n = 0
    BY <2>1, <1>2 DEF Typed, TypeOK, Order, Flying, Tied
  <2>3. wire' = wire \ {o} /\ ~Flying(o.id)'
    BY <2>1 DEF BrokerAccepts, Flying, Cycle
  <2>4. /\ book'[o.id].n = 1 /\ book'[o.id].st = "SUBMITTED" /\ book'[o.id].dealt = 0
        /\ \A i \in Ids \ {o.id} : book'[i] = book[i]
    BY <2>1, <2>2 DEF BrokerAccepts, Typed, TypeOK
  <2>5. Tied(o.id)'
    BY <1>1, <1>2, <2>2, <2>3, <2>4 DEF Tied, Reaches, Ended, Unfilled
  <2>6. \A i \in Ids \ {o.id} : Tied(i)'
    BY <1>1, <1>2, <2>3, <2>4 DEF Tied, Reaches, Flying
  <2> QED BY <1>1, <2>3, <2>5, <2>6 DEF Cycle
<1>5. CASE \E o \in wire : BrokerRejects(o)
  <2>1. book' = book /\ wire' \subseteq wire
    BY <1>5 DEF BrokerRejects
  <2>2. \A i \in Ids : Tied(i)'
    BY <1>1, <1>2, <2>1 DEF Tied, Reaches, Flying
  <2> QED BY <1>1, <2>1, <2>2 DEF Cycle
<1>6. CASE \E i \in Ids : BrokerFills(i)
  <2>1. PICK i \in Ids : BrokerFills(i)
    BY <1>6
  <2>2. /\ wire' = wire /\ book[i].st \in Live
        /\ book'[i].n = book[i].n /\ book'[i].dealt = book[i].dealt + 1
        /\ book'[i].st \in {"FILLED_ALL", "FILLED_PART"}
        /\ \A j \in Ids \ {i} : book'[j] = book[j]
    BY <2>1, <1>2 DEF BrokerFills, Typed, TypeOK, BrokerOrder
  <2>3. Tied(i)'
    BY <1>1, <1>2, <1>3, <2>1, <2>2
       DEF Tied, Reaches, Flying, Live, Ended, Unfilled, TERMINAL
  <2>4. \A j \in Ids \ {i} : Tied(j)'
    BY <1>1, <1>2, <2>2 DEF Tied, Reaches, Flying
  <2> QED BY <1>1, <2>2, <2>3, <2>4 DEF Cycle
<1>7. CASE \E i \in Ids : BrokerEnds(i)
  <2>1. PICK i \in Ids : BrokerEnds(i)
    BY <1>7
  <2>2. PICK s \in Unfilled \cup {"CANCELLED_PART"} :
          /\ (s = "CANCELLED_PART") = (book[i].dealt > 0)
          /\ book' = [book EXCEPT ![i].st = s]
    BY <2>1 DEF BrokerEnds
  <2>3. /\ wire' = wire /\ book[i].st \in Live
        /\ book'[i].n = book[i].n /\ book'[i].dealt = book[i].dealt
        /\ book'[i].st = s
        /\ \A j \in Ids \ {i} : book'[j] = book[j]
    BY <2>1, <2>2, <1>2 DEF BrokerEnds, Typed, TypeOK, BrokerOrder
  <2>4. Tied(i)'
    BY <1>1, <1>2, <1>3, <2>1, <2>2, <2>3
       DEF Tied, Reaches, Flying, Live, Ended, Unfilled, TERMINAL
  <2>5. \A j \in Ids \ {i} : Tied(j)'
    BY <1>1, <1>2, <2>3 DEF Tied, Reaches, Flying
  <2> QED BY <1>1, <2>3, <2>4, <2>5 DEF Cycle
<1>8. CASE \E a \in Accounts : PositionsCatchUp(a)
  BY <1>8, CycleQuiet DEF PositionsCatchUp, durable
<1> QED BY <1>4, <1>5, <1>6, <1>7, <1>8 DEF BrokerNext

\* The handlers, the runner thread and a restart keep Cycle: of these only
\* reconcile touches an order.
LEMMA CycleOperator ==
  ASSUME Typed, Cycle, OperatorNext \/ WorkerNext \/ Reboot
  PROVE  Cycle' /\ Pending' \subseteq Pending
<1>1. CASE Reconcile \/ WorkerReconcile
  BY <1>1, CycleReconcile DEF Reconcile, WorkerReconcile, broker
<1>2. CASE ~(Reconcile \/ WorkerReconcile)
  BY <1>2, CycleQuiet DEF OperatorNext, WorkerNext, Halt, HaltLatch, Stop, ResetHalt,
     PreviewLoss, Rearm, Activate, SetMode, StartBegin, StartRefused, StartRun, StepBegin,
     WorkerTop, WorkerStep, Reboot, durable, broker
<1> QED BY <1>1, <1>2

\* The step in progress: only from the intent on does it touch orders.
LEMMA CycleStep ==
  ASSUME Inv, StepNext
  PROVE  Cycle' /\ Pending' \subseteq Pending \cup {job.cur}
<1> USE DEF Inv
<1>1. CASE RecordIntent
  <2> job.cur \in Ids
    BY <1>1 DEF RecordIntent, Typed, JobOK, Working
  <2> PICK k \in Ids : k = job.cur
    OBVIOUS
  <2>1. rows[job.cur].status \in Unsent /\ Pending = {} /\ Tied(job.cur)
    BY <1>1 DEF RecordIntent, Work, Typed, JobOK, Working, Cycle
  <2>2. Intent(job.cur) \in Row /\ Intent(job.cur).status = "SUBMITTING"
        /\ Intent(job.cur).fill = rows[job.cur].fill
    BY <2>1, IntentTyped DEF Intent, Typed
  <2>3. /\ rows' = [rows EXCEPT ![job.cur] = Intent(job.cur)]
        /\ rows'[job.cur] = Intent(job.cur) /\ UNCHANGED <<wire, book>>
    BY <1>1, <2>1 DEF RecordIntent, broker, Typed, TypeOK
  <2>4. Tied(k)'
    BY <2>1, <2>2, <2>3 DEF Tied, Reaches, Flying, Unsent, TERMINAL, Ended, Unfilled
  <2> QED BY <2>1, <2>2, <2>3, <2>4, CycleRow
<1>2. CASE StopBeforeSend \/ RefusedNotSent \/ PaperFill \/ OutcomeUnknown \/ Acknowledged
  <2> job.cur \in Ids
    BY <1>2 DEF StopBeforeSend, RefusedNotSent, PaperFill, OutcomeUnknown, Acknowledged,
                Typed, JobOK, Working
  <2> PICK k \in Ids : k = job.cur
    OBVIOUS
  <2>1. /\ Tied(job.cur) /\ rows[job.cur].status = "SUBMITTING"
        /\ rows[job.cur] \in Row /\ job.cur.acct = acct
    BY <1>2 DEF StopBeforeSend, RefusedNotSent, PaperFill, OutcomeUnknown, Acknowledged,
                Work, Typed, TypeOK, JobOK, Working, Cycle
  <2>2. UNCHANGED <<wire, book>>
    BY <1>2 DEF StopBeforeSend, RefusedNotSent, PaperFill, OutcomeUnknown, Acknowledged,
                broker
  <2>3. CASE StopBeforeSend \/ RefusedNotSent
    <3> DEFINE r == [rows[job.cur] EXCEPT !.status = "CANCELLED_BEFORE_SEND"]
    <3>1. r \in Row /\ r.status = "CANCELLED_BEFORE_SEND" /\ r.fill = rows[job.cur].fill
      BY <2>1 DEF Row, Statuses, TERMINAL
    <3>2. rows' = [rows EXCEPT ![job.cur] = r] /\ rows'[job.cur] = r
      BY <2>1, <2>3 DEF StopBeforeSend, RefusedNotSent, SetStatus, Typed, TypeOK
    <3>3. ~Reaches(job.cur)
      BY <2>3 DEF StopBeforeSend, RefusedNotSent, Work
    <3> HIDE DEF r
    <3>4. Tied(k)'
      BY <2>1, <2>2, <3>1, <3>2, <3>3
         DEF Tied, Reaches, Flying, Unsent, Live, TERMINAL, Ended, Unfilled, Typed, TypeOK,
             BrokerOrder
    <3> QED BY <2>1, <2>2, <3>1, <3>2, <3>4, CycleRow DEF TERMINAL
  <2>4. CASE PaperFill
    <3> DEFINE r == [[rows[job.cur] EXCEPT !.status = "FILLED"] EXCEPT !.acked = TRUE]
    <3>1. r \in Row /\ r.status = "FILLED" /\ r.fill = rows[job.cur].fill
      BY <2>1 DEF Row, Statuses, TERMINAL
    <3>2. rows' = [rows EXCEPT ![job.cur] = r] /\ rows'[job.cur] = r
      BY <2>1, <2>4 DEF PaperFill, Typed, TypeOK
    <3>3. ~Reaches(job.cur)
      BY <2>4 DEF PaperFill, Work
    <3> HIDE DEF r
    <3>4. Tied(k)'
      BY <2>1, <2>2, <3>1, <3>2, <3>3
         DEF Tied, Reaches, Flying, Unsent, Live, TERMINAL, Ended, Unfilled, Typed, TypeOK,
             BrokerOrder
    <3> QED BY <2>1, <2>2, <3>1, <3>2, <3>4, CycleRow DEF TERMINAL
  <2>5. CASE OutcomeUnknown \/ Acknowledged
    <3>1. PICK r \in Row : /\ rows' = [rows EXCEPT ![job.cur] = r]
                           /\ r.status \in {"UNKNOWN", "PENDING_RECONCILE"}
                           /\ r.fill = rows[job.cur].fill
      <4>1. CASE OutcomeUnknown
        <5> DEFINE r == [rows[job.cur] EXCEPT !.status = "UNKNOWN"]
        <5>1. r \in Row /\ r.status = "UNKNOWN" /\ r.fill = rows[job.cur].fill
          BY <2>1 DEF Row, Statuses
        <5>2. rows' = [rows EXCEPT ![job.cur] = r]
          BY <4>1, <2>1 DEF OutcomeUnknown, SetStatus
        <5> QED BY <5>1, <5>2
      <4>2. CASE Acknowledged
        <5> DEFINE r == [[rows[job.cur] EXCEPT !.status = "PENDING_RECONCILE"]
                           EXCEPT !.acked = TRUE]
        <5>1. r \in Row /\ r.status = "PENDING_RECONCILE" /\ r.fill = rows[job.cur].fill
          BY <2>1 DEF Row, Statuses
        <5>2. rows' = [rows EXCEPT ![job.cur] = r]
          BY <4>2, <2>1 DEF Acknowledged
        <5> QED BY <5>1, <5>2
      <4> QED BY <2>5, <4>1, <4>2
    <3>2. rows'[job.cur] = r
      BY <2>1, <3>1 DEF Typed, TypeOK
    <3>3. job.cur \in Pending
      BY <2>1, <2>5 DEF OutcomeUnknown, Acknowledged, Work, Pending, Simulate, TERMINAL,
                        Ended, Unfilled
    <3>4. Tied(k)'
      BY <2>1, <2>2, <3>1, <3>2
         DEF Tied, Reaches, Flying, Unsent, TERMINAL, Ended, Unfilled
    <3> QED BY <2>1, <2>2, <3>1, <3>2, <3>3, <3>4, CycleRow
  <2> QED BY <1>2, <2>3, <2>4, <2>5
<1>3. CASE PlaceOrder
  <2> DEFINE o == [id |-> job.cur, side |-> job.side, qty |-> job.qty]
  <2> job.cur \in Ids
    BY <1>3 DEF PlaceOrder, Typed, JobOK, Working
  <2> PICK k \in Ids : k = job.cur
    OBVIOUS
  <2>1. /\ Tied(job.cur) /\ ~Reaches(job.cur) /\ job.cur.acct # Paper
        /\ rows[job.cur].status = "SUBMITTING" /\ book[job.cur].n = 0
    <3>1. book[job.cur].n \in 0..2
      BY DEF Typed, TypeOK, BrokerOrder
    <3>2. /\ Tied(job.cur) /\ ~Reaches(job.cur) /\ job.cur.acct # Paper
          /\ rows[job.cur].status = "SUBMITTING"
      BY <1>3 DEF PlaceOrder, Work, Working, Cycle, Simulate
    <3> QED BY <3>1, <3>2 DEF Reaches
  <2>2. UNCHANGED <<rows, book>> /\ wire' = wire \cup {o} /\ Pending' = Pending
    BY <1>3 DEF PlaceOrder, durable, Pending
  <2>3. Tied(k)'
    BY <2>1, <2>2 DEF Tied, Reaches, Flying, Unsent, TERMINAL, Ended, Unfilled
  <2>4. \A i \in Ids \ {job.cur} : Tied(i)'
    BY <2>2 DEF Cycle, Tied, Reaches, Flying
  <2>5. \A p \in wire : p.id # o.id
    BY <2>1 DEF Reaches, Flying
  <2> QED BY <2>2, <2>3, <2>4, <2>5 DEF Cycle
<1>4. CASE ~(RecordIntent \/ StopBeforeSend \/ RefusedNotSent \/ PaperFill
             \/ OutcomeUnknown \/ Acknowledged \/ PlaceOrder)
  BY <1>4, CycleQuiet DEF StepNext, PlanRefused, Preview, LoopEnd, ItemGone, FreshPlan,
     StopBeforeIntent, Submit, Preflight, StepReturn, durable, broker
<1> QED BY <1>1, <1>2, <1>3, <1>4

-----------------------------------------------------------------------------
(* Work: the order in hand at each place of step(). *)

\* A fresh plan orders only what no row holds to be sent.
LEMMA PlanUnsent ==
  ASSUME Typed, NEW c \in Codes, c \in PlanCodes(job.partial), PlanAllows(job.partial)
  PROVE  /\ rows[IdOf(c, job.partial)].status \in Unsent
         /\ Pending = {}
<1>1. c \in Wanted /\ ~AlreadySent(c, job.partial) /\ PlanChecks(job.partial)
  BY DEF PlanCodes, PlanAllows
<1>2. job.partial \in BOOLEAN
  BY DEF Typed, TypeOK, Job
<1>3. CASE job.partial
  BY <1>1, <1>3 DEF AlreadySent, PlanChecks
<1>4. CASE ~job.partial
  BY <1>1, <1>4 DEF PlanChecks, Unsent
<1> QED BY <1>2, <1>3, <1>4

\* Settling orders on the same account cannot break OneBook.
LEMMA OneBookKept ==
  ASSUME OneBook, Pending' \subseteq Pending, acct' = acct
  PROVE  OneBook'
  BY DEF OneBook, Simulate

\* The broker makes an order only of a request.
LEMMA ReachesBroker ==
  ASSUME Typed, Cycle, BrokerNext, NEW k \in Ids, ~Reaches(k)
  PROVE  ~Reaches(k)'
<1>1. book[k].st \notin Live
  BY DEF Cycle, Tied, Reaches, Live, Typed, TypeOK, BrokerOrder
<1>2. CASE \E o \in wire : BrokerAccepts(o)
  <2>1. PICK o \in wire : BrokerAccepts(o)
    BY <1>2
  <2>2. o.id # k /\ wire' \subseteq wire /\ book'[k] = book[k]
    BY <2>1 DEF BrokerAccepts, Reaches, Flying, Typed, TypeOK
  <2> QED BY <2>2 DEF Reaches, Flying
<1>3. CASE \E o \in wire : BrokerRejects(o)
  BY <1>3 DEF BrokerRejects, Reaches, Flying
<1>4. CASE \E i \in Ids : BrokerFills(i) \/ BrokerEnds(i)
  BY <1>1, <1>4 DEF BrokerFills, BrokerEnds, Reaches, Flying, Typed, TypeOK
<1>5. CASE \E a \in Accounts : PositionsCatchUp(a)
  BY <1>5 DEF PositionsCatchUp, Reaches, Flying
<1> QED BY <1>2, <1>3, <1>4, <1>5 DEF BrokerNext

\* Nothing that happens beside step() disturbs the order step() has in hand.
LEMMA WorkOther ==
  ASSUME Inv, OperatorNext \/ WorkerNext \/ Reboot \/ BrokerNext
  PROVE  Work'
<1> USE DEF Inv
<1>1. CASE BrokerNext \/ Halt \/ Stop \/ WorkerTop
  <2>1. UNCHANGED <<rows, pc, job, acct>> /\ Pending' = Pending
    BY <1>1 DEF BrokerNext, BrokerAccepts, BrokerRejects, BrokerFills, BrokerEnds,
       PositionsCatchUp, Halt, Stop, WorkerTop, durable, session, Pending
  <2>2. OneBook'
    BY <2>1, OneBookKept DEF Work
  <2>3. ASSUME NEW k \in Ids, ~Reaches(k) PROVE ~Reaches(k)'
    <3>1. CASE Halt \/ Stop \/ WorkerTop
      BY <2>3, <3>1 DEF Halt, Stop, WorkerTop, Reaches, Flying, broker
    <3> QED BY <1>1, <2>3, <3>1, ReachesBroker
  <2>4. pc \in Working /\ ~Reaches(job.cur) => ~Reaches(job.cur)'
    <3>1. CASE pc \in Working
      <4>1. PICK k \in Ids : k = job.cur
        BY <3>1 DEF Typed, JobOK
      <4>2. job'.cur = k
        BY <2>1, <4>1
      <4>3. ~Reaches(k) => ~Reaches(k)'
        BY <2>3
      <4> QED BY <4>1, <4>2, <4>3 DEF Reaches, Flying
    <3> QED BY <3>1
  <2> QED BY <2>1, <2>2, <2>4 DEF Work, Working, Simulate
<1>2. CASE (OperatorNext /\ ~Halt /\ ~Stop) \/ (WorkerNext /\ ~WorkerTop) \/ Reboot
  <2>1. pc' \notin Working
    BY <1>2 DEF OperatorNext, WorkerNext, HaltLatch, ResetHalt, Activate, SetMode,
       PreviewLoss, Rearm, StartBegin, StartRefused, StartRun, StepBegin, Reconcile,
       WorkerReconcile, WorkerStep, Reboot, Working
  <2>2. Pending' \subseteq Pending
    BY <1>2, CycleOperator
  <2>3. OneBook'
    <3>1. CASE Reboot
      BY <3>1 DEF Reboot, OneBook, Simulate
    <3>2. CASE \E a \in Books : SetMode(a)
      BY <3>2, <2>2 DEF SetMode, OneBook
    <3>3. CASE ~Reboot /\ ~\E a \in Books : SetMode(a)
      <4>1. acct' = acct
        BY <1>2, <3>3 DEF OperatorNext, WorkerNext, HaltLatch, ResetHalt, Activate,
           PreviewLoss, Rearm, StartBegin, StartRefused, StartRun, StepBegin, Reconcile,
           WorkerReconcile, WorkerStep, session
      <4> QED BY <4>1, <2>2, OneBookKept DEF Work
    <3> QED BY <3>1, <3>2, <3>3
  <2> QED BY <2>1, <2>3 DEF Work, Working
<1> QED BY <1>1, <1>2

\* step() hands its order from place to place as Work says.
LEMMA WorkStep ==
  ASSUME Inv, StepNext
  PROVE  Work'
<1> USE DEF Inv
<1>1. acct' = acct
  BY DEF StepNext, PlanRefused, Preview, LoopEnd, ItemGone, FreshPlan, StopBeforeIntent,
     RecordIntent, StopBeforeSend, PaperFill, Submit, RefusedNotSent, OutcomeUnknown,
     Preflight, PlaceOrder, Acknowledged, StepReturn, session
<1>2. OneBook'
  <2>1. CASE pc \in Working
    <3>1. job.cur.acct = acct
      BY <2>1 DEF Work
    <3> QED BY <1>1, <3>1, CycleStep DEF Work, OneBook, Simulate
  <2>2. CASE pc \notin Working
    <3>1. rows' = rows
      BY <2>2 DEF StepNext, PlanRefused, Preview, LoopEnd, ItemGone, FreshPlan,
         StopBeforeIntent, RecordIntent, StopBeforeSend, PaperFill, Submit, RefusedNotSent,
         OutcomeUnknown, Preflight, PlaceOrder, Acknowledged, StepReturn, durable, Working
    <3> QED BY <1>1, <3>1, OneBookKept DEF Work, Pending
  <2> QED BY <2>1, <2>2
<1>3. CASE \E c \in Codes : FreshPlan(c)
  <2>1. PICK c \in Codes : FreshPlan(c)
    BY <1>3
  <2>2. pc' = "planned" /\ job'.cur = IdOf(c, job.partial) /\ rows' = rows
    BY <2>1 DEF FreshPlan, durable, Typed, TypeOK, Job
  <2>3. rows[IdOf(c, job.partial)].status \in Unsent /\ Pending' = {}
    BY <2>1, <2>2, PlanUnsent DEF FreshPlan, Pending
  <2>4. IdOf(c, job.partial).acct = acct
    BY DEF IdOf
  <2> QED BY <1>1, <1>2, <2>2, <2>3, <2>4 DEF Work, Working
<1>4. CASE RecordIntent
  <2>1. PICK k \in Ids : k = job.cur
    BY <1>4 DEF RecordIntent, Typed, JobOK, Working
  <2>2. pc' = "recorded" /\ job' = job /\ rows' = [rows EXCEPT ![k] = Intent(k)]
        /\ UNCHANGED <<wire, book>>
    BY <1>4, <2>1 DEF RecordIntent, broker
  <2>3. rows'[k].status = "SUBMITTING"
    BY <2>2 DEF Intent, Typed, TypeOK
  <2>4. ~Reaches(k)
    BY <1>4, <2>1 DEF RecordIntent, Work, Cycle, Tied
  <2>5. job.cur.acct = acct
    BY <1>4 DEF RecordIntent, Work, Working
  <2> QED BY <1>1, <1>2, <2>1, <2>2, <2>3, <2>4, <2>5 DEF Work, Working, Reaches, Flying
<1>5. CASE Submit \/ Preflight
  BY <1>1, <1>2, <1>5 DEF Submit, Preflight, Work, Working, Reaches, Flying, Simulate,
                          durable, broker
<1>6. CASE PlaceOrder
  BY <1>1, <1>2, <1>6 DEF PlaceOrder, Work, Working, Simulate, durable
<1>7. CASE ~(RecordIntent \/ Submit \/ Preflight \/ PlaceOrder \/ \E c \in Codes : FreshPlan(c))
  <2>1. pc' \notin Working
    BY <1>7 DEF StepNext, PlanRefused, Preview, LoopEnd, ItemGone, StopBeforeIntent,
       StopBeforeSend, PaperFill, RefusedNotSent, OutcomeUnknown, Acknowledged, StepReturn,
       RaiseOnly, RaiseLatched, Raise, Leave, Working
  <2> QED BY <1>2, <2>1 DEF Work, Working
<1> QED BY <1>3, <1>4, <1>5, <1>6, <1>7

-----------------------------------------------------------------------------
(* Stops: a stop request from the moment it is made until it is answered. *)

\* The handlers that raise or lift a stop keep Stops.
LEMMA StopsOperator ==
  ASSUME Inv, OperatorNext
  PROVE  Stops'
<1> USE DEF Inv, Stops
<1>1. CASE Halt \/ Stop
  BY <1>1 DEF Halt, Stop, Ask, StopSeen, durable
<1>2. CASE HaltLatch \/ PreviewLoss \/ ResetHalt \/ Rearm
  BY <1>2 DEF HaltLatch, PreviewLoss, ResetHalt, Rearm, Latch, StopSeen, durable
<1>3. CASE Reconcile \/ (\E m \in Manifests : Activate(m)) \/ \E a \in Books : SetMode(a)
  BY <1>3 DEF Reconcile, Activate, SetMode, StopSeen, flags, durable
<1>4. CASE StartBegin \/ StartRefused \/ StartRun
  <2>1. CASE StartBegin
    BY <2>1 DEF StartBegin, flags, durable
  <2>2. CASE StartRefused
    BY <2>2 DEF StartRefused, Latch
  <2>3. CASE StartRun
    BY <2>3 DEF StartRun, durable
  <2> QED BY <1>4, <2>1, <2>2, <2>3
<1>5. CASE \E partial \in BOOLEAN : StepBegin(partial)
  BY <1>5 DEF StepBegin, NoJob, durable
<1> QED BY <1>1, <1>2, <1>3, <1>4, <1>5 DEF OperatorNext

\* step() keeps Stops: it never forgets a stop raised while it runs.
LEMMA StopsStep ==
  ASSUME Inv, StepNext
  PROVE  Stops'
<1> USE DEF Inv, Stops
<1>1. CASE PlanRefused \/ LoopEnd \/ OutcomeUnknown \/ StepReturn
  <2>1. pc' \in {"idle", "closing"} /\ UNCHANGED <<cancelEv, asked>>
    BY <1>1 DEF PlanRefused, LoopEnd, OutcomeUnknown, StepReturn, RaiseOnly, RaiseLatched,
       Raise, Leave
  <2>2. /\ haltReason' => haltEv'
        /\ stopEv => stopEv'
        /\ Driven => worker' = "off" /\ ~job'.auto
    <3> job \in Job /\ job.auto \in BOOLEAN /\ stopEv \in BOOLEAN /\ ~NoJob.auto
      BY DEF Typed, TypeOK, Job, NoJob
    <3>1. CASE PlanRefused
      BY <3>1 DEF PlanRefused, RaiseOnly, RaiseLatched, Raise, Latch
    <3>2. CASE LoopEnd
      BY <3>2 DEF LoopEnd, Latch, Leave, NoJob
    <3>3. CASE OutcomeUnknown
      BY <3>3 DEF OutcomeUnknown, RaiseLatched, Raise, Latch
    <3>4. CASE StepReturn
      BY <3>4 DEF StepReturn, Raise, durable
    <3> QED BY <1>1, <3>1, <3>2, <3>3, <3>4
  <2> QED BY <2>1, <2>2
<1>2. CASE StopBeforeIntent \/ StopBeforeSend \/ RefusedNotSent \/ Acknowledged
  <2>1. pc' = "closing" /\ job'.auto = job.auto
    BY <1>2 DEF StopBeforeIntent, StopBeforeSend, RefusedNotSent, Acknowledged, Leave, NoJob
  <2>2. UNCHANGED <<haltReason, haltEv, stopEv, cancelEv, asked, worker>>
    BY <1>2 DEF StopBeforeIntent, StopBeforeSend, RefusedNotSent, Acknowledged, flags,
       durable
  <2> QED BY <2>1, <2>2
<1>3. CASE Preview \/ (\E c \in Codes : ItemGone(c) \/ FreshPlan(c)) \/ RecordIntent
           \/ Submit \/ PaperFill
  <2>1. UNCHANGED <<haltReason, haltEv, stopEv, cancelEv, asked, worker>> /\ job'.auto = job.auto
    BY <1>3 DEF Preview, ItemGone, FreshPlan, RecordIntent, Submit, PaperFill, flags,
       durable, Typed, TypeOK, Job
  <2>2. asked = "running" => StopSeen
    BY <1>3 DEF Preview, ItemGone, FreshPlan, RecordIntent, Submit, PaperFill
  <2>3. pc' # "start" /\ (pc' = "preflight" => ~StopSeen)
    BY <1>3 DEF Preview, ItemGone, FreshPlan, RecordIntent, Submit, PaperFill
  <2> QED BY <2>1, <2>2, <2>3 DEF StopSeen
<1>4. CASE Preflight \/ PlaceOrder
  BY <1>4 DEF Preflight, PlaceOrder, flags, durable
<1> QED BY <1>1, <1>2, <1>3, <1>4 DEF StepNext

\* The runner, a restart and the broker keep Stops; the runner's step may lift
\* cancel_step, because step(automatic=True) still reads stop_event.
LEMMA StopsOther ==
  ASSUME Inv, WorkerNext \/ Reboot \/ BrokerNext
  PROVE  Stops'
<1> USE DEF Inv, Stops
<1>1. CASE WorkerStep
  <2>1. [NoJob EXCEPT !.auto = TRUE].auto
    BY DEF NoJob
  <2> QED BY <1>1, <2>1 DEF WorkerStep, StopSeen, durable
<1>2. CASE WorkerTop \/ WorkerReconcile \/ BrokerNext
  <2>1. /\ UNCHANGED <<haltReason, haltEv, cancelEv, asked, pc, job>>
        /\ stopEv => stopEv'
        /\ Driven => worker' = "off"
    BY <1>2 DEF WorkerTop, WorkerReconcile, BrokerNext, BrokerAccepts, BrokerRejects,
       BrokerFills, BrokerEnds, PositionsCatchUp, flags, durable
  <2> QED BY <2>1 DEF StopSeen, Typed, TypeOK
<1>3. CASE Reboot
  BY <1>3 DEF Reboot, NoJob
<1> QED BY <1>1, <1>2, <1>3 DEF WorkerNext

-----------------------------------------------------------------------------
(* The inductive invariant, and what it proves. *)

\* The invariant is inductive: each handler, each part of step(), each broker
\* event and a crash at any of these points preserves it.
THEOREM InvInductive == Inv /\ [Next]_vars => Inv'
<1> SUFFICES ASSUME Inv, [Next]_vars PROVE Inv'
  OBVIOUS
<1>1. Typed'
  BY NextTyped DEF Inv
<1>2. CASE OperatorNext
  BY <1>1, <1>2, CycleOperator, WorkOther, StopsOperator DEF Inv
<1>3. CASE StepNext
  BY <1>1, <1>3, CycleStep, WorkStep, StopsStep DEF Inv
<1>4. CASE WorkerNext \/ Reboot
  BY <1>1, <1>4, CycleOperator, WorkOther, StopsOther DEF Inv
<1>5. CASE BrokerNext
  BY <1>1, <1>5, CycleBroker, WorkOther, StopsOther DEF Inv
<1>6. CASE UNCHANGED vars
  BY <1>1, <1>6, CycleQuiet
     DEF Inv, Work, Stops, StopSeen, OneBook, Simulate, Reaches, Flying, vars, durable,
         flags, session, broker
<1> QED BY <1>2, <1>3, <1>4, <1>5, <1>6 DEF Next

\* Every reachable state satisfies the invariant: the rows, the requests on
\* their way and the broker's orders are tied (step, submit, reconcile).
THEOREM InvHolds == Spec => []Inv
  BY InitInv, InvInductive, PTL DEF Spec

\* The broker never gets a second request or makes a second order for one
\* client id (submit, OutcomeUnknown, CANCELLED_BEFORE_SEND).
THEOREM SentOnce == Spec => []SentAtMostOnce
<1>1. Inv => SentAtMostOnce
  BY DEF Inv, Cycle, Tied, SentAtMostOnce
<1> QED BY <1>1, InvHolds, PTL

\* A row that step() calls unsent has nothing at the broker.
THEOREM UnsentHolds == Spec => []UnsentIsTrue
<1>1. Inv => UnsentIsTrue
  BY DEF Inv, Typed, TypeOK, BrokerOrder, Cycle, Tied, Reaches, UnsentIsTrue
<1> QED BY <1>1, InvHolds, PTL

\* A row that reconcile settled says what the broker's finished order says.
THEOREM SettledHolds == Spec => []SettledIsTrue
<1>1. Inv => SettledIsTrue
  BY DEF Inv, Cycle, Tied, SettledIsTrue
<1> QED BY <1>1, InvHolds, PTL

\* One broker order per cycle, over all accounts and restarts, and no unresolved
\* order of another account than the one the engine works on.
THEOREM OneAtATime == Spec => []OneOutstanding
<1>1. ASSUME Inv PROVE OneOutstanding
  <2>1. \A i \in Ids : Flying(i) \/ book[i].st \in Live => i \in Pending
    <3> TAKE i \in Ids
    <3> HAVE Flying(i) \/ book[i].st \in Live
    <3>1. book[i].n \in Nat /\ (book[i].st \in Live => book[i].n # 0)
      BY <1>1 DEF Inv, Cycle, Tied, Live, Typed, TypeOK, BrokerOrder
    <3>2. Reaches(i)
      BY <3>1 DEF Reaches
    <3>3. i.acct # Paper /\ rows[i].status \notin Unsent \cup TERMINAL
      BY <1>1, <3>2 DEF Inv, Cycle, Tied
    <3> QED BY <3>3 DEF Pending, Unsent
  <2> QED BY <1>1, <2>1 DEF Inv, Cycle, Work, OneOutstanding
<1> QED BY <1>1, InvHolds, PTL

\* A confirmed fill is never lowered or lost by a later answer.
THEOREM FillsGrow == Spec => FillsOnlyGrow
<1>1. ASSUME Inv, [Next]_vars, NEW i \in Ids
      PROVE  rows[i].fill <= rows'[i].fill
  <2>1. rows[i] \in Row /\ rows[i].fill \in Int
    BY <1>1, ConstantsAssumption DEF Inv, Typed, TypeOK, Row, Qtys, NoFill
  <2>2. CASE Reconcile \/ WorkerReconcile
    <3>1. PICK done \in SUBSET Pending : \E answers \in [done -> {"read", "unknown"}] :
            ReconcileRows(done, answers)
      BY <2>2 DEF Reconcile, WorkerReconcile
    <3>2. PICK answers \in [done -> {"read", "unknown"}] : ReconcileRows(done, answers)
      BY <3>1
    <3>3. rows'[i] = IF i \in done THEN Reconciled(i, answers[i]) ELSE rows[i]
      BY <3>2 DEF ReconcileRows
    <3>4. rows[i].fill <= book[i].dealt
      BY <1>1, <2>1, ConstantsAssumption
         DEF Inv, Cycle, Tied, Typed, TypeOK, BrokerOrder, Qtys, NoFill
    <3> QED BY <3>3, <3>4, <2>1 DEF Reconciled, Row
  <2>3. CASE ~(Reconcile \/ WorkerReconcile)
    <3> rows \in [Ids -> Row]
      BY <1>1 DEF Inv, Typed, TypeOK
    <3>1. rows' = rows => rows'[i].fill = rows[i].fill
      OBVIOUS
    <3>2. RecordIntent => rows'[i].fill = rows[i].fill
      BY DEF RecordIntent, Intent, Row
    <3>3. StopBeforeSend \/ RefusedNotSent \/ OutcomeUnknown =>
            rows'[i].fill = rows[i].fill
      BY DEF StopBeforeSend, RefusedNotSent, OutcomeUnknown, SetStatus, Row
    <3>4. PaperFill \/ Acknowledged => rows'[i].fill = rows[i].fill
      <4>1. ASSUME NEW s \in STRING, NEW b \in BOOLEAN,
                   rows' = [rows EXCEPT ![job.cur].status = s, ![job.cur].acked = b]
            PROVE  rows'[i].fill = rows[i].fill
        <5>1. CASE i = job.cur
          BY <4>1, <5>1
        <5>2. CASE i # job.cur
          BY <4>1, <5>2
        <5> QED BY <5>1, <5>2
      <4>2. ASSUME PaperFill PROVE rows'[i].fill = rows[i].fill
        <5>1. rows' = [rows EXCEPT ![job.cur].status = "FILLED", ![job.cur].acked = TRUE]
          BY <4>2 DEF PaperFill
        <5> QED BY <5>1, <4>1
      <4>3. ASSUME Acknowledged PROVE rows'[i].fill = rows[i].fill
        <5>1. rows' = [rows EXCEPT ![job.cur].status = "PENDING_RECONCILE",
                                   ![job.cur].acked = TRUE]
          BY <4>3 DEF Acknowledged
        <5> QED BY <5>1, <4>1
      <4> QED BY <4>2, <4>3
    <3>5. \/ rows' = rows \/ RecordIntent \/ StopBeforeSend \/ RefusedNotSent
          \/ OutcomeUnknown \/ PaperFill \/ Acknowledged
      BY <1>1, <2>3
         DEF Next, OperatorNext, StepNext, WorkerNext, BrokerNext, vars, durable, Halt,
         HaltLatch, Stop, ResetHalt, PreviewLoss, Rearm, Activate, SetMode, StartBegin,
         StartRefused, StartRun, StepBegin, WorkerTop, WorkerStep, Reboot, PlanRefused,
         Preview, LoopEnd, ItemGone, FreshPlan, StopBeforeIntent, Submit, Preflight,
         PlaceOrder, StepReturn, BrokerAccepts, BrokerRejects, BrokerFills, BrokerEnds,
         PositionsCatchUp
    <3>6. rows'[i].fill = rows[i].fill
      BY <3>1, <3>2, <3>3, <3>4, <3>5
    <3> QED BY <3>6, <2>1
  <2> QED BY <2>2, <2>3
<1>2. Inv /\ [Next]_vars => [\A i \in Ids : rows[i].fill <= rows'[i].fill]_rows
  BY <1>1
<1> QED BY <1>2, InvHolds, PTL DEF Spec, FillsOnlyGrow

\* A step that sends or fills has seen neither halt flag nor cancel_step.
LEMMA TradesAreChecked ==
  ASSUME Inv, [Next]_vars, Trades
  PROVE  ~haltEv /\ asked # "running"
<1>1. CASE Sends
  <2>1. pc # "cleared" /\ pc' = "cleared"
    BY <1>1 DEF Sends
  <2>2. Preflight
    BY <2>1 DEF Next, OperatorNext, StepNext, WorkerNext, BrokerNext, vars, Halt, HaltLatch,
       Stop, ResetHalt, PreviewLoss, Rearm, Activate, SetMode, StartBegin, StartRefused,
       StartRun, StepBegin, Reconcile, WorkerTop, WorkerReconcile, WorkerStep, Reboot,
       PlanRefused, RaiseOnly, RaiseLatched, Raise, Leave, Preview, LoopEnd, ItemGone,
       FreshPlan, StopBeforeIntent, RecordIntent, StopBeforeSend, PaperFill, Submit,
       RefusedNotSent, OutcomeUnknown, PlaceOrder, Acknowledged, StepReturn, BrokerAccepts,
       BrokerRejects, BrokerFills, BrokerEnds, PositionsCatchUp
  <2> QED BY <2>2 DEF Preflight, Inv, Stops
<1>2. CASE shares'[Paper] # shares[Paper]
  <2>1. ~\E i \in Ids : BrokerFills(i)
    <3>1. ASSUME NEW i \in Ids, BrokerFills(i) PROVE i.acct # Paper
      BY <3>1 DEF BrokerFills, Inv, Cycle, Tied, Reaches, Live, Typed, TypeOK, BrokerOrder
    <3>2. ASSUME NEW i \in Ids, BrokerFills(i), i.acct # Paper
          PROVE  shares'[Paper] = shares[Paper]
      BY <3>2 DEF BrokerFills, Inv, Typed, TypeOK, Books
    <3> QED BY <1>2, <3>1, <3>2
  <2>2. PaperFill
    BY <1>2, <2>1 DEF Next, OperatorNext, StepNext, WorkerNext, BrokerNext, vars, Halt,
       HaltLatch, Stop, ResetHalt, PreviewLoss, Rearm, Activate, SetMode, StartBegin,
       StartRefused, StartRun, StepBegin, Reconcile, WorkerTop, WorkerReconcile, WorkerStep,
       Reboot, PlanRefused, Preview, LoopEnd, ItemGone, FreshPlan, StopBeforeIntent,
       RecordIntent, StopBeforeSend, Submit, RefusedNotSent, OutcomeUnknown, Preflight,
       PlaceOrder, Acknowledged, StepReturn, BrokerAccepts, BrokerRejects, BrokerEnds,
       PositionsCatchUp
  <2> QED BY <2>2 DEF PaperFill, StopSeen, Inv, Stops
<1> QED BY <1>1, <1>2 DEF Trades

\* Once a halt is on disk nothing is sent or filled, a restart included.
THEOREM HaltIsHeld == Spec => HaltHolds
<1>1. Inv /\ [Next]_vars => [haltReason => ~Trades]_vars
  BY TradesAreChecked DEF Inv, Stops
<1> QED BY <1>1, InvHolds, PTL DEF Spec, HaltHolds

\* A stop asked of a step or of the runner at work keeps every order the
\* adapter has not yet cleared from being sent.
THEOREM StopIsHonoured == Spec => StopHonoured
<1>1. Inv /\ [Next]_vars => [asked = "running" => ~Trades]_vars
  BY TradesAreChecked
<1> QED BY <1>1, InvHolds, PTL DEF Spec, StopHonoured

-----------------------------------------------------------------------------
(***************************************************************************)
(* OrderEngine implements OrderIntents, for every value of the constants:   *)
(* each step of the engine, of the account or of a restart is a step of     *)
(* the intents or leaves them alone.                                        *)
(***************************************************************************)

(* Only paper orders are ever FILLED: the simulated account has its own words. *)
SimUnfilled == \A i \in SimIds : rows[i].status # "FILLED"

SamePhase(i) == Phase(i)' = Phase(i)
Flights == {i \in SimIds : Flying(i)}

-----------------------------------------------------------------------------
(* Steps of OrderIntents, in the terms of the engine. *)

LEMMA Stutters ==
  ASSUME \A i \in SimIds : SamePhase(i), UNCHANGED <<wire, book>>
  PROVE  UNCHANGED Intents!vars
<1>1. [i \in SimIds |-> Phase(i)]' = [i \in SimIds |-> Phase(i)]
  BY DEF SamePhase
<1>2. /\ {i \in SimIds : Flying(i)}' = {i \in SimIds : Flying(i)}
      /\ {i \in SimIds : book[i].n > 0}' = {i \in SimIds : book[i].n > 0}
      /\ {i \in SimIds : book[i].st \in Ended}' = {i \in SimIds : book[i].st \in Ended}
  BY DEF Flying
<1> QED BY <1>1, <1>2 DEF Intents!vars

LEMMA PhaseMoves ==
  ASSUME NEW k \in SimIds, \A i \in SimIds \ {k} : SamePhase(i)
  PROVE  [i \in SimIds |-> Phase(i)]' = [[i \in SimIds |-> Phase(i)] EXCEPT ![k] = Phase(k)']
  BY DEF SamePhase

LEMMA Others ==
  ASSUME UNCHANGED <<wire, book>>
  PROVE  /\ {i \in SimIds : Flying(i)}' = {i \in SimIds : Flying(i)}
         /\ {i \in SimIds : book[i].n > 0}' = {i \in SimIds : book[i].n > 0}
         /\ {i \in SimIds : book[i].st \in Ended}' = {i \in SimIds : book[i].st \in Ended}
  BY DEF Flying

LEMMA Intends ==
  ASSUME NEW k \in SimIds, Phase(k) \in {"none", "unsent"}, Phase(k)' = "intended",
         \A j \in SimIds : Phase(j) # "intended",
         \A i \in SimIds \ {k} : SamePhase(i), UNCHANGED <<wire, book>>
  PROVE  Intents!Next
<1>1. Intents!Intend(k)
  BY PhaseMoves, Others DEF Intents!Intend
<1> QED BY <1>1 DEF Intents!Next

LEMMA Withdraws ==
  ASSUME NEW k \in SimIds, Phase(k) = "intended", Phase(k)' = "unsent",
         ~Flying(k), ~(book[k].n > 0),
         \A i \in SimIds \ {k} : SamePhase(i), UNCHANGED <<wire, book>>
  PROVE  Intents!Next
<1>1. Intents!Withdraw(k)
  BY PhaseMoves, Others DEF Intents!Withdraw
<1> QED BY <1>1 DEF Intents!Next

LEMMA Settles ==
  ASSUME NEW k \in SimIds, Phase(k) = "intended", Phase(k)' = "settled",
         book[k].st \in Ended,
         \A i \in SimIds \ {k} : SamePhase(i), UNCHANGED <<wire, book>>
  PROVE  Intents!Next
<1>1. Intents!Settle(k)
  BY PhaseMoves, Others DEF Intents!Settle
<1> QED BY <1>1 DEF Intents!Next

LEMMA RowsKept == ASSUME rows' = rows PROVE \A i \in SimIds : SamePhase(i)
  BY DEF SamePhase, Phase

-----------------------------------------------------------------------------
(* The requests and the broker's orders. *)

\* PlaceOrder puts a request on its way that was never on its way before.
LEMMA PlaceOrderSends ==
  ASSUME Inv, PlaceOrder
  PROVE  Intents!Next
<1>1. PICK k \in Ids : k = job.cur
  BY DEF Inv, PlaceOrder, Typed, JobOK, Working
<1>2. k \in SimIds /\ rows[k].status = "SUBMITTING" /\ ~Reaches(k)
  BY <1>1 DEF Inv, PlaceOrder, Work, Working, Simulate, SimIds
<1>3. Phase(k) = "intended" /\ ~Flying(k) /\ ~(book[k].n > 0)
  BY <1>2 DEF Phase, Reaches, Ended, Unfilled
<1>4. \A i \in SimIds : SamePhase(i)
  BY RowsKept DEF PlaceOrder, durable
<1>5. Flights' = Flights \cup {k}
  <2> DEFINE o == [id |-> k, side |-> job.side, qty |-> job.qty]
  <2>1. wire' = wire \cup {o} /\ o.id = k
    BY <1>1 DEF PlaceOrder
  <2> HIDE DEF o
  <2>2. \A i \in SimIds : Flying(i)' <=> Flying(i) \/ i = k
    BY <2>1 DEF Flying
  <2> QED BY <1>2, <2>2 DEF Flights
<1>6. Intents!Send(k)
  BY <1>2, <1>3, <1>4, <1>5 DEF Intents!Send, SamePhase, Flights, PlaceOrder
<1> QED BY <1>2, <1>6 DEF Intents!Next

\* What was on its way is an order of the account, or is lost.
LEMMA RequestEnds ==
  ASSUME Inv, NEW o \in wire, BrokerAccepts(o) \/ BrokerRejects(o)
  PROVE  Intents!Next
<1>1. o.id \in Ids /\ Flying(o.id) /\ Tied(o.id) /\ book[o.id] \in BrokerOrder
  BY DEF Inv, Typed, TypeOK, Order, Flying, Cycle
<1>2. o.id \in SimIds /\ book[o.id].n = 0 /\ book[o.id].st = "NONE"
  BY <1>1 DEF Tied, Reaches, SimIds
<1>3. \A i \in SimIds : SamePhase(i)
  BY RowsKept DEF BrokerAccepts, BrokerRejects, durable
<1>4. Flights' = Flights \ {o.id} /\ o.id \in Flights
  <2>1. wire' = wire \ {o}
    BY DEF BrokerAccepts, BrokerRejects
  <2>2. \A p \in wire : p.id = o.id => p = o
    BY DEF Inv, Cycle
  <2>3. \A i \in SimIds : Flying(i)' <=> Flying(i) /\ i # o.id
    BY <2>1, <2>2 DEF Flying
  <2> QED BY <1>1, <1>2, <2>3 DEF Flights
<1>5. CASE BrokerAccepts(o)
  <2>1. /\ book'[o.id].n = 1 /\ book'[o.id].st = "SUBMITTED"
        /\ \A i \in Ids \ {o.id} : book'[i] = book[i]
    BY <1>1, <1>2, <1>5 DEF BrokerAccepts, Inv, Typed, TypeOK
  <2>2. {i \in SimIds : book[i].n > 0}' = {i \in SimIds : book[i].n > 0} \cup {o.id}
    BY <1>2, <2>1 DEF SimIds
  <2>3. {i \in SimIds : book[i].st \in Ended}' = {i \in SimIds : book[i].st \in Ended}
    BY <1>2, <2>1 DEF SimIds, Ended, Unfilled
  <2>4. Intents!Arrive(o.id)
    BY <1>2, <1>3, <1>4, <2>2, <2>3 DEF Intents!Arrive, SamePhase, Flights
  <2> QED BY <1>2, <2>4 DEF Intents!Next
<1>6. CASE BrokerRejects(o)
  <2>1. book' = book
    BY <1>6 DEF BrokerRejects
  <2>2. Intents!Lose(o.id)
    BY <1>2, <1>3, <1>4, <2>1 DEF Intents!Lose, SamePhase, Flights
  <2> QED BY <1>2, <2>2 DEF Intents!Next
<1> QED BY <1>5, <1>6

\* A fill or an end of a live order closes it, or leaves it live.
LEMMA OrderMoves ==
  ASSUME Inv, NEW k \in Ids, book[k].st \in Live, NEW s \in Live \cup Ended,
         book'[k].st = s, book'[k].n = book[k].n,
         \A i \in Ids \ {k} : book'[i] = book[i], UNCHANGED <<rows, wire>>
  PROVE  Intents!Next \/ UNCHANGED Intents!vars
<1>1. /\ k \in SimIds /\ book[k].n > 0 /\ book[k].st \notin Ended
  <2>1. book[k] \in BrokerOrder /\ Tied(k)
    BY DEF Inv, Typed, TypeOK, Cycle
  <2>2. book[k].n > 0
    BY <2>1 DEF Tied, Live, BrokerOrder
  <2> QED BY <2>1, <2>2 DEF Tied, Reaches, SimIds, Live, Ended, Unfilled
<1>2. /\ \A i \in SimIds : SamePhase(i)
      /\ {i \in SimIds : Flying(i)}' = {i \in SimIds : Flying(i)}
  BY RowsKept DEF Flying
<1>3. {i \in SimIds : book[i].n > 0}' = {i \in SimIds : book[i].n > 0}
  BY DEF SimIds
<1>4. CASE s \in Ended
  <2>1. {i \in SimIds : book[i].st \in Ended}' = {i \in SimIds : book[i].st \in Ended} \cup {k}
    BY <1>1, <1>4 DEF SimIds
  <2>2. Intents!Close(k)
    BY <1>1, <1>2, <1>3, <2>1 DEF Intents!Close, SamePhase
  <2> QED BY <1>1, <2>2 DEF Intents!Next
<1>5. CASE s \notin Ended
  <2>1. {i \in SimIds : book[i].st \in Ended}' = {i \in SimIds : book[i].st \in Ended}
    BY <1>1, <1>5 DEF SimIds
  <2> QED BY <1>2, <1>3, <2>1 DEF Intents!vars, SamePhase
<1> QED BY <1>4, <1>5

LEMMA BrokerSteps ==
  ASSUME Inv, BrokerNext
  PROVE  Intents!Next \/ UNCHANGED Intents!vars
<1>0. \A i \in Ids : book[i] \in BrokerOrder
  BY DEF Inv, Typed, TypeOK
<1>1. CASE \E o \in wire : BrokerAccepts(o) \/ BrokerRejects(o)
  BY <1>1, RequestEnds
<1>2. ASSUME NEW i \in Ids, BrokerFills(i) PROVE Intents!Next \/ UNCHANGED Intents!vars
  <2>1. PICK s \in {"FILLED_ALL", "FILLED_PART"} :
          book' = [book EXCEPT ![i].dealt = book[i].dealt + 1, ![i].st = s]
    BY <1>2 DEF BrokerFills
  <2>2. /\ book'[i].st = s /\ book'[i].n = book[i].n /\ book[i].st \in Live
        /\ \A j \in Ids \ {i} : book'[j] = book[j] /\ UNCHANGED <<rows, wire>>
    BY <1>0, <1>2, <2>1 DEF BrokerFills, durable, BrokerOrder, Inv, Typed, TypeOK
  <2>3. UNCHANGED <<rows, wire>> /\ s \in Live \cup Ended
    BY <1>2 DEF BrokerFills, durable, Live, Ended
  <2> QED BY <2>2, <2>3, OrderMoves
<1>3. ASSUME NEW i \in Ids, BrokerEnds(i) PROVE Intents!Next \/ UNCHANGED Intents!vars
  <2>1. PICK s \in Unfilled \cup {"CANCELLED_PART"} : book' = [book EXCEPT ![i].st = s]
    BY <1>3 DEF BrokerEnds
  <2>2. /\ book'[i].st = s /\ book'[i].n = book[i].n /\ book[i].st \in Live
        /\ \A j \in Ids \ {i} : book'[j] = book[j]
    BY <1>0, <1>3, <2>1 DEF BrokerEnds, BrokerOrder, Inv, Typed, TypeOK
  <2>3. UNCHANGED <<rows, wire>> /\ s \in Live \cup Ended
    BY <1>3 DEF BrokerEnds, durable, Ended
  <2> QED BY <2>2, <2>3, OrderMoves
<1>4. CASE \E a \in Accounts : PositionsCatchUp(a)
  BY <1>4, RowsKept, Stutters DEF PositionsCatchUp, durable
<1> QED BY <1>1, <1>2, <1>3, <1>4 DEF BrokerNext

-----------------------------------------------------------------------------
(* The durable rows. *)

\* What step() can make of the row of the order in hand.
StepRow(k) ==
  /\ k \in Ids /\ rows[k] \in Row
  /\ \A i \in Ids \ {k} : rows'[i] = rows[i]
  /\ UNCHANGED <<wire, book>>

LEMMA StepRowSame ==
  ASSUME NEW k, StepRow(k)
  PROVE  \A i \in SimIds \ {k} : SamePhase(i)
  BY DEF StepRow, SimIds, SamePhase, Phase

LEMMA RowKept ==
  ASSUME NEW k \in Ids, StepRow(k), k \in SimIds => SamePhase(k)
  PROVE  UNCHANGED Intents!vars
<1>1. \A i \in SimIds : SamePhase(i)
  BY StepRowSame
<1> QED BY <1>1, Stutters DEF StepRow

LEMMA RowUnfilled ==
  ASSUME SimUnfilled, NEW k \in Ids, StepRow(k),
         rows'[k].status # "FILLED" \/ k \notin SimIds
  PROVE  SimUnfilled'
  BY DEF StepRow, SimUnfilled, SimIds

LEMMA RecordIntends ==
  ASSUME Inv, SimUnfilled, RecordIntent
  PROVE  /\ Intents!Next \/ UNCHANGED Intents!vars
         /\ SimUnfilled'
<1>1. PICK k \in Ids : k = job.cur
  BY DEF Inv, RecordIntent, Typed, JobOK, Working
<1>2. rows[k].status \in Unsent /\ Pending = {} /\ Intent(k).status = "SUBMITTING"
  BY <1>1 DEF Inv, RecordIntent, Work, Intent
<1>3. StepRow(k) /\ rows'[k].status = "SUBMITTING"
  BY <1>1, <1>2 DEF StepRow, RecordIntent, broker, Inv, Typed, TypeOK
<1>4. \A j \in SimIds : Phase(j) # "intended"
  BY <1>2 DEF Pending, SimIds, SimUnfilled, Phase, TERMINAL
<1>5. Phase(k) \in {"none", "unsent"} /\ Phase(k)' = "intended"
  BY <1>2, <1>3 DEF StepRow, Phase, Unsent, Ended, Unfilled
<1>6. ASSUME k \in SimIds PROVE Intents!Next
  BY <1>3, <1>4, <1>5, <1>6, Intends, StepRowSame DEF StepRow
<1>7. ASSUME k \notin SimIds PROVE UNCHANGED Intents!vars
  BY <1>3, <1>7, RowKept
<1>8. SimUnfilled'
  BY <1>3, RowUnfilled
<1> QED BY <1>6, <1>7, <1>8

LEMMA OutcomeRows ==
  ASSUME Inv, SimUnfilled,
         StopBeforeSend \/ RefusedNotSent \/ PaperFill \/ OutcomeUnknown \/ Acknowledged
  PROVE  /\ Intents!Next \/ UNCHANGED Intents!vars
         /\ SimUnfilled'
<1>1. PICK k \in Ids : k = job.cur
  BY DEF StopBeforeSend, RefusedNotSent, PaperFill, OutcomeUnknown, Acknowledged,
         Inv, Typed, JobOK, Working
<1>2. /\ rows[k] \in Row /\ rows[k].status = "SUBMITTING" /\ k.acct = acct
      /\ rows \in [Ids -> Row] /\ UNCHANGED <<wire, book>>
  BY <1>1 DEF StopBeforeSend, RefusedNotSent, PaperFill, OutcomeUnknown, Acknowledged,
              Inv, Work, Typed, TypeOK, Working, broker
<1>3. Phase(k) = "intended"
  BY <1>2 DEF Phase, Ended, Unfilled
<1>5. CASE StopBeforeSend \/ RefusedNotSent
  <2>1. StepRow(k) /\ rows'[k].status = "CANCELLED_BEFORE_SEND"
    BY <1>1, <1>2, <1>5 DEF StepRow, StopBeforeSend, RefusedNotSent, SetStatus, Row
  <2>2. ~Flying(k) /\ ~(book[k].n > 0)
    BY <1>1, <1>5 DEF StopBeforeSend, RefusedNotSent, Inv, Work, Reaches
  <2>3. Phase(k)' = "unsent"
    BY <2>1 DEF StepRow, Phase, Ended, Unfilled
  <2>4. ASSUME k \in SimIds PROVE Intents!Next
    <3>1. \A i \in SimIds \ {k} : SamePhase(i)
      BY <2>1, StepRowSame
    <3> QED BY <1>2, <1>3, <2>2, <2>3, <2>4, <3>1, Withdraws
  <2>5. ASSUME k \notin SimIds PROVE UNCHANGED Intents!vars
    BY <2>1, <2>5, RowKept
  <2>6. SimUnfilled'
    BY <2>1, RowUnfilled
  <2> QED BY <2>4, <2>5, <2>6
<1>6. CASE PaperFill
  <2>1. rows' = [rows EXCEPT ![k] = [[rows[k] EXCEPT !.status = "FILLED"] EXCEPT !.acked = TRUE]]
    BY <1>1, <1>6 DEF PaperFill
  <2>2. StepRow(k)
    BY <1>2, <2>1 DEF StepRow, Row
  <2>3. k \notin SimIds
    BY <1>2, <1>6 DEF PaperFill, Simulate, SimIds
  <2>4. UNCHANGED Intents!vars
    BY <2>2, <2>3, RowKept
  <2>5. SimUnfilled'
    BY <2>2, <2>3, RowUnfilled
  <2> QED BY <2>4, <2>5
<1>7. CASE OutcomeUnknown
  <2>1. StepRow(k) /\ rows'[k].status = "UNKNOWN"
    BY <1>1, <1>2, <1>7 DEF StepRow, OutcomeUnknown, SetStatus, Row
  <2>2. SamePhase(k)
    BY <1>3, <2>1 DEF StepRow, SamePhase, Phase, Ended, Unfilled
  <2>3. UNCHANGED Intents!vars
    BY <2>1, <2>2, RowKept
  <2>4. SimUnfilled'
    BY <2>1, RowUnfilled
  <2> QED BY <2>3, <2>4
<1>8. CASE Acknowledged
  <2>1. rows' = [rows EXCEPT ![k] =
                   [[rows[k] EXCEPT !.status = "PENDING_RECONCILE"] EXCEPT !.acked = TRUE]]
    BY <1>1, <1>8 DEF Acknowledged
  <2>2. StepRow(k) /\ rows'[k].status = "PENDING_RECONCILE"
    BY <1>2, <2>1 DEF StepRow, Row
  <2>3. SamePhase(k)
    BY <1>3, <2>2 DEF StepRow, SamePhase, Phase, Ended, Unfilled
  <2>4. UNCHANGED Intents!vars
    BY <2>2, <2>3, RowKept
  <2>5. SimUnfilled'
    BY <2>2, RowUnfilled
  <2> QED BY <2>4, <2>5
<1> QED BY <1>5, <1>6, <1>7, <1>8

\* reconcile settles at most one order, since at most one is undecided.
LEMMA ReconcileSettles ==
  ASSUME Inv, SimUnfilled, NEW done \in SUBSET Pending,
         NEW answers \in [done -> {"read", "unknown"}], ReconcileRows(done, answers),
         UNCHANGED <<wire, book>>
  PROVE  /\ Intents!Next \/ UNCHANGED Intents!vars
         /\ SimUnfilled'
<1>1. \A i \in Ids : rows'[i] = IF i \in done THEN Reconciled(i, answers[i]) ELSE rows[i]
  BY DEF ReconcileRows
<1>2. CASE done = {}
  <2>1. \A i \in Ids : rows'[i] = rows[i]
    BY <1>1, <1>2
  <2>2. \A i \in SimIds : SamePhase(i)
    BY <2>1 DEF SamePhase, Phase, SimIds
  <2> QED BY <2>1, <2>2, Stutters DEF SimUnfilled, SimIds
<1>3. ASSUME NEW k \in done
      PROVE  /\ Intents!Next \/ UNCHANGED Intents!vars
             /\ SimUnfilled'
  <2>1. /\ k \in SimIds /\ k \in Ids /\ k \in Pending
        /\ rows[k] \in Row /\ book[k] \in BrokerOrder /\ done = {k}
    BY <1>3 DEF Inv, Cycle, Pending, SimIds, Typed, TypeOK
  <2>2. Phase(k) = "intended"
    BY <2>1 DEF Phase, Pending, TERMINAL
  <2>3. \A i \in Ids \ {k} : rows'[i] = rows[i]
    BY <1>1, <2>1
  <2>4. rows'[k] = Reconciled(k, answers[k])
    BY <1>1, <1>3, <2>1
  <2>5. CASE answers[k] = "unknown"
    <3>1. StepRow(k) /\ rows'[k].status = "UNKNOWN"
      BY <2>1, <2>3, <2>4, <2>5 DEF StepRow, Reconciled, Row
    <3>2. SamePhase(k)
      BY <2>2, <3>1 DEF StepRow, SamePhase, Phase, Ended, Unfilled
    <3>3. SimUnfilled'
      BY <2>1, <3>1, RowUnfilled
    <3>4. UNCHANGED Intents!vars
      BY <2>1, <3>1, <3>2, RowKept
    <3> QED BY <3>3, <3>4
  <2>6. CASE answers[k] = "read"
    <3>1. book[k].st \in Live \cup Ended
      BY <1>3, <2>1, <2>6 DEF ReconcileRows, BrokerOrder
    <3>2. StepRow(k) /\ rows'[k].status = book[k].st
      BY <2>1, <2>3, <2>4, <2>6 DEF StepRow, Reconciled, Row
    <3>3. SimUnfilled'
      BY <2>1, <3>1, <3>2, RowUnfilled DEF Live, Ended, Unfilled
    <3>4. ASSUME book[k].st \in Live PROVE UNCHANGED Intents!vars
      <4>1. SamePhase(k)
        BY <2>2, <3>2, <3>4 DEF StepRow, SamePhase, Phase, Live, Ended, Unfilled
      <4> QED BY <2>1, <3>2, <4>1, RowKept
    <3>5. ASSUME book[k].st \in Ended PROVE Intents!Next
      <4>1. Phase(k)' = "settled"
        BY <3>2, <3>5 DEF StepRow, Phase, Ended, Unfilled
      <4> QED BY <2>1, <2>2, <3>2, <3>5, <4>1, Settles, StepRowSame
    <3> QED BY <3>1, <3>3, <3>4, <3>5
  <2>7. answers[k] \in {"read", "unknown"}
    BY <1>3
  <2> QED BY <2>5, <2>6, <2>7
<1> QED BY <1>2, <1>3

-----------------------------------------------------------------------------
(* Every step. *)

\* A step that touches neither row, request nor broker order is a stutter.
LEMMA OtherSteps ==
  ASSUME [Next]_vars,
         ~RecordIntent, ~StopBeforeSend, ~RefusedNotSent, ~PaperFill, ~OutcomeUnknown,
         ~Acknowledged, ~PlaceOrder, ~Reconcile, ~WorkerReconcile, ~BrokerNext
  PROVE  UNCHANGED <<rows, wire, book>>
  BY DEF Next, OperatorNext, StepNext, WorkerNext, vars, durable, broker, Halt,
     HaltLatch, Stop, ResetHalt, PreviewLoss, Rearm, Activate, SetMode, StartBegin,
     StartRefused, StartRun, StepBegin, WorkerTop, WorkerStep, Reboot, PlanRefused,
     Preview, LoopEnd, ItemGone, FreshPlan, StopBeforeIntent, Submit, Preflight,
     StepReturn

LEMMA StepRefines ==
  ASSUME Inv, SimUnfilled, [Next]_vars
  PROVE  /\ Intents!Next \/ UNCHANGED Intents!vars
         /\ SimUnfilled'
<1>1. CASE RecordIntent
  BY <1>1, RecordIntends
<1>2. CASE StopBeforeSend \/ RefusedNotSent \/ PaperFill \/ OutcomeUnknown \/ Acknowledged
  BY <1>2, OutcomeRows
<1>3. CASE PlaceOrder
  <2>1. SimUnfilled'
    BY <1>3 DEF PlaceOrder, durable, SimUnfilled
  <2> QED BY <1>3, <2>1, PlaceOrderSends
<1>4. CASE Reconcile \/ WorkerReconcile
  <2>1. PICK done \in SUBSET Pending : \E answers \in [done -> {"read", "unknown"}] :
          ReconcileRows(done, answers)
    BY <1>4 DEF Reconcile, WorkerReconcile
  <2>2. PICK answers \in [done -> {"read", "unknown"}] : ReconcileRows(done, answers)
    BY <2>1
  <2>3. UNCHANGED <<wire, book>>
    BY <1>4 DEF Reconcile, WorkerReconcile, broker
  <2> QED BY <2>2, <2>3, ReconcileSettles
<1>5. CASE BrokerNext
  <2>1. rows' = rows
    BY <1>5 DEF BrokerNext, BrokerAccepts, BrokerRejects, BrokerFills, BrokerEnds,
                PositionsCatchUp, durable
  <2>2. SimUnfilled'
    BY <2>1 DEF SimUnfilled
  <2> QED BY <1>5, <2>2, BrokerSteps
<1>6. CASE UNCHANGED <<rows, wire, book>>
  <2>1. UNCHANGED Intents!vars
    BY <1>6, RowsKept, Stutters
  <2> QED BY <1>6, <2>1 DEF SimUnfilled
<1> QED BY <1>1, <1>2, <1>3, <1>4, <1>5, <1>6, OtherSteps

\* The engine, with the account behind it, lost answers, stops and restarts
\* included, does to its simulated orders only what OrderIntents allows (step,
\* submit, reconcile): one undecided intent, sent at most once, withdrawn only if
\* it never left, settled only by what the broker finished.
THEOREM EngineImplementsIntents == Spec => IntentsSpec
<1>1. Init => Intents!Init /\ SimUnfilled
  <2> SUFFICES ASSUME Init PROVE Intents!Init /\ SimUnfilled
    OBVIOUS
  <2>1. \A i \in SimIds : /\ rows[i].status = "NONE" /\ ~Flying(i)
                          /\ ~(book[i].n > 0) /\ book[i].st \notin Ended
    BY DEF Init, SimIds, NoRow, NoBrokerOrder, Flying, Ended, Unfilled
  <2>2. [i \in SimIds |-> Phase(i)] = [i \in SimIds |-> "none"]
    <3>1. \A i \in SimIds : Phase(i) = "none"
      BY <2>1 DEF Phase, Ended, Unfilled
    <3> HIDE DEF Phase
    <3> QED BY <3>1
  <2> QED BY <2>1, <2>2 DEF Intents!Init, SimUnfilled
<1>2. Inv /\ SimUnfilled /\ [Next]_vars => [Intents!Next]_(Intents!vars) /\ SimUnfilled'
  BY StepRefines
<1> QED BY <1>1, <1>2, InvHolds, PTL DEF Spec, IntentsSpec, Intents!Spec

-----------------------------------------------------------------------------
(***************************************************************************)
(* What the rows say of the orders: the paper ledger, the side and the      *)
(* quantity of a row, and the chain of an order's retries.                  *)
(*                                                                         *)
(* An order keeps its id when it is recorded again, and its row the side.   *)
(* A chain of retries is counted by the side of its rows, so it is capped   *)
(* only if the manifests of a signal never turn a code around and are all   *)
(* automatic: OneSided.  The paper ledger and RowDescribesOrder, which says *)
(* what becomes of a row that is turned, need neither.                      *)
(***************************************************************************)
Targets(m, i) == m.sig = i.sig /\ m.target[i.code] # -1

OneSided ==
  \A m, n \in Manifests : m.sig = n.sig /\ (m.plan \/ m.auto) =>
    /\ n.auto
    /\ \A c \in Codes : m.target[c] # -1 /\ n.target[c] # -1 => m.phase = n.phase

InHand == {"recorded", "preflight", "cleared"}

\* What step() knows of the order it has planned and recorded.
Planned ==
  /\ pc = "planned" =>
       /\ Targets(manifest, job.cur)
       /\ manifest.auto => job.partial /\ job.side = manifest.phase
       /\ ~job.partial => rows[job.cur].status = "NONE"
  /\ pc \in Working /\ job.partial => Simulate /\ manifest.plan
  /\ pc \in InHand /\ ~job.partial =>
       rows[job.cur].side = job.side /\ rows[job.cur].qty = job.qty

\* A step that is not step()'s leaves the order in hand alone or gives it up.
LEMMA Beside ==
  ASSUME Inv, [Next]_vars, ~StepNext
  PROVE  pc' \notin Working \/ UNCHANGED <<rows, pc, job, acct, manifest>>
<1>1. CASE BrokerNext \/ Halt \/ Stop \/ WorkerTop \/ UNCHANGED vars
  BY <1>1 DEF BrokerNext, BrokerAccepts, BrokerRejects, BrokerFills, BrokerEnds,
     PositionsCatchUp, Halt, Stop, WorkerTop, durable, session, vars
<1>2. CASE (OperatorNext /\ ~Halt /\ ~Stop) \/ (WorkerNext /\ ~WorkerTop) \/ Reboot
  BY <1>2 DEF OperatorNext, WorkerNext, HaltLatch, ResetHalt, Activate, SetMode,
     PreviewLoss, Rearm, StartBegin, StartRefused, StartRun, StepBegin, Reconcile,
     WorkerReconcile, WorkerStep, Reboot, Working
<1> QED BY <1>1, <1>2 DEF Next

\* step() goes on with the order in hand in five of its parts only.
LEMMA HandStep ==
  ASSUME StepNext, ~(\E c \in Codes : FreshPlan(c)),
         ~(RecordIntent \/ Submit \/ Preflight \/ PlaceOrder)
  PROVE  pc' \notin Working
BY DEF StepNext, PlanRefused, Preview, LoopEnd, ItemGone, StopBeforeIntent,
   StopBeforeSend, PaperFill, RefusedNotSent, OutcomeUnknown, Acknowledged, StepReturn,
   RaiseOnly, RaiseLatched, Raise, Leave, Working

\* What a fresh plan puts in hand.
LEMMA FreshPlanned ==
  ASSUME Inv, NEW c \in Codes, FreshPlan(c)
  PROVE  /\ pc' = "planned" /\ UNCHANGED <<rows, acct, manifest>>
         /\ job'.cur = IdOf(c, job.partial) /\ job'.cur \in Ids
         /\ job'.partial = job.partial /\ job.partial \in BOOLEAN
         /\ job'.side = SideOf(c) /\ job'.qty = QtyOf(c)
         /\ c \in Wanted /\ PlanChecks(job.partial)
<1>1. /\ pc' = "planned" /\ UNCHANGED <<rows, acct, manifest>>
      /\ job' = [job EXCEPT !.cur = IdOf(c, job.partial), !.todo = @ \ {c},
                            !.side = SideOf(c), !.qty = QtyOf(c)]
  BY DEF FreshPlan, durable, session
<1>2. job \in Job
  BY DEF Inv, Typed, TypeOK
<1>3. c \in PlanCodes(job.partial) /\ PlanAllows(job.partial)
  BY DEF FreshPlan
<1>4. IdOf(c, job.partial) \in Ids
  BY <1>3, PlanTyped DEF Inv, Typed
<1>5. c \in Wanted /\ PlanChecks(job.partial)
  BY <1>3 DEF PlanCodes, PlanAllows
<1>6. /\ job'.cur = IdOf(c, job.partial) /\ job'.partial = job.partial
      /\ job'.side = SideOf(c) /\ job'.qty = QtyOf(c) /\ job.partial \in BOOLEAN
  BY <1>1, <1>2 DEF Job
<1> QED BY <1>1, <1>4, <1>5, <1>6

\* The plan of a retry, the only one that runs on the partial route, stays the
\* manifest's from the plan to the broker.
LEMMA PlannedNext == Inv /\ Planned /\ [Next]_vars => Planned'
<1> SUFFICES ASSUME Inv, Planned, [Next]_vars PROVE Planned'
  OBVIOUS
<1>1. CASE pc' \notin Working
  BY <1>1 DEF Planned, Working, InHand
<1>2. CASE UNCHANGED <<rows, pc, job, acct, manifest>>
  BY <1>2 DEF Planned, Simulate, Targets
<1>3. CASE \E c \in Codes : FreshPlan(c)
  <2> PICK c \in Codes : FreshPlan(c)
    BY <1>3
  <2> DEFINE i == IdOf(c, job.partial)
  <2>1. /\ pc' = "planned" /\ UNCHANGED <<rows, acct, manifest>>
        /\ job'.cur = i /\ i \in Ids /\ job'.partial = job.partial
        /\ job.partial \in BOOLEAN /\ job'.side = SideOf(c)
        /\ c \in Wanted /\ PlanChecks(job.partial)
    BY FreshPlanned
  <2>2. i.sig = manifest.sig /\ i.code = c /\ manifest.target[c] # -1
    BY <2>1 DEF IdOf, Wanted
  <2>3. /\ manifest.auto => job.partial /\ SideOf(c) = manifest.phase
        /\ ~job.partial => rows[i].status = "NONE"
        /\ job.partial => Simulate /\ manifest.plan
    BY <2>1 DEF PlanChecks
  <2> HIDE DEF i
  <2> QED BY <2>1, <2>2, <2>3 DEF Planned, InHand, Targets, Simulate
<1>4. CASE RecordIntent
  <2>1. PICK k \in Ids : k = job.cur
    BY <1>4 DEF RecordIntent, Inv, Typed, JobOK, Working
  <2>2. /\ pc = "planned" /\ pc' = "recorded" /\ UNCHANGED <<job, acct, manifest>>
        /\ rows' = [rows EXCEPT ![k] = Intent(k)]
    BY <1>4, <2>1 DEF RecordIntent, session
  <2>3. rows'[k].qty = job.qty
        /\ rows'[k].side = IF rows[k].status = "NONE" THEN job.side ELSE rows[k].side
    BY <2>2 DEF Intent, Inv, Typed, TypeOK
  <2> QED BY <2>1, <2>2, <2>3 DEF Planned, Working, Simulate
<1>5. CASE Submit \/ Preflight \/ PlaceOrder
  BY <1>5 DEF Submit, Preflight, PlaceOrder, Planned, InHand, Working, Simulate, durable, session
<1> QED BY <1>1, <1>2, <1>3, <1>4, <1>5, Beside, HandStep

-----------------------------------------------------------------------------
(* How a step changes the rows. *)

\* One row, the one in hand, gets the outcome of its order.
Outcome(r) ==
  /\ job.cur \in Ids /\ rows[job.cur].status = "SUBMITTING"
  /\ rows' = [rows EXCEPT ![job.cur] = r]
  /\ r.side = rows[job.cur].side /\ r.qty = rows[job.cur].qty /\ r.status # "NONE"
  /\ r.turned = rows[job.cur].turned
  /\ r.status = "FILLED" <=> PaperFill

SomeOutcome == \E r \in Row : Outcome(r)

\* Some pending rows get what the broker answers of them.
SomeReconciled ==
  \E done \in SUBSET Pending : \E answers \in [done -> {"read", "unknown"}] :
    ReconcileRows(done, answers)

\* A step changes no row, records the order in hand, gives it its outcome, or
\* reconciles pending rows.
LEMMA RowsStep ==
  ASSUME Inv, [Next]_vars
  PROVE  \/ rows' = rows /\ ~PaperFill
         \/ RecordIntent /\ ~PaperFill
         \/ SomeOutcome
         \/ SomeReconciled /\ ~PaperFill
<1>1. CASE StopBeforeSend \/ RefusedNotSent \/ PaperFill \/ OutcomeUnknown \/ Acknowledged
  <2>1. /\ job.cur \in Ids /\ rows[job.cur].status = "SUBMITTING"
        /\ rows[job.cur] \in Row
    BY <1>1 DEF StopBeforeSend, RefusedNotSent, PaperFill, OutcomeUnknown, Acknowledged,
                Inv, Work, Typed, TypeOK, JobOK, Working
  <2>2. ASSUME NEW s \in Statuses \ {"NONE", "FILLED"}, SetStatus(s), ~PaperFill
        PROVE  SomeOutcome
    <3> DEFINE r == [rows[job.cur] EXCEPT !.status = s]
    <3>1. r \in Row /\ r.status = s /\ r.side = rows[job.cur].side /\ r.qty = rows[job.cur].qty
                           /\ r.turned = rows[job.cur].turned
      BY <2>1 DEF Row
    <3>2. rows' = [rows EXCEPT ![job.cur] = r]
      BY <2>2 DEF SetStatus
    <3> HIDE DEF r
    <3>3. s # "NONE" /\ s # "FILLED"
      OBVIOUS
    <3> QED BY <2>1, <2>2, <3>1, <3>2, <3>3 DEF Outcome, SomeOutcome
  <2>3. {"CANCELLED_BEFORE_SEND", "UNKNOWN"} \subseteq Statuses \ {"NONE", "FILLED"}
    BY DEF Statuses, TERMINAL
  <2>4. CASE StopBeforeSend
    <3>1. SetStatus("CANCELLED_BEFORE_SEND") /\ ~PaperFill
      BY <2>4 DEF StopBeforeSend, PaperFill
    <3> QED BY <2>2, <2>3, <3>1
  <2>5. CASE RefusedNotSent
    <3>1. SetStatus("CANCELLED_BEFORE_SEND") /\ ~PaperFill
      BY <2>5 DEF RefusedNotSent, PaperFill
    <3> QED BY <2>2, <2>3, <3>1
  <2>6. CASE OutcomeUnknown
    <3>1. SetStatus("UNKNOWN") /\ ~PaperFill
      BY <2>6 DEF OutcomeUnknown, PaperFill
    <3> QED BY <2>2, <2>3, <3>1
  <2>7. CASE PaperFill \/ Acknowledged
    <3> DEFINE s == IF PaperFill THEN "FILLED" ELSE "PENDING_RECONCILE"
               r == [[rows[job.cur] EXCEPT !.status = s] EXCEPT !.acked = TRUE]
    <3>1. s \in Statuses
      BY DEF Statuses, TERMINAL
    <3>2. r \in Row /\ r.status = s /\ r.side = rows[job.cur].side /\ r.qty = rows[job.cur].qty
                           /\ r.turned = rows[job.cur].turned
      <4> HIDE DEF s
      <4> QED BY <2>1, <3>1 DEF Row
    <3>3. rows' = [rows EXCEPT ![job.cur] = r]
      <4>1. CASE PaperFill
        BY <2>1, <4>1 DEF PaperFill
      <4>2. CASE Acknowledged
        <5>1. ~PaperFill
          BY <4>2 DEF Acknowledged, PaperFill
        <5> QED BY <2>1, <4>2, <5>1 DEF Acknowledged
      <4> QED BY <2>7, <4>1, <4>2
    <3>4. s # "NONE" /\ (s = "FILLED" <=> PaperFill)
      OBVIOUS
    <3> HIDE DEF r, s
    <3> QED BY <2>1, <3>2, <3>3, <3>4 DEF Outcome, SomeOutcome
  <2> QED BY <1>1, <2>4, <2>5, <2>6, <2>7
<1>2. CASE Reconcile \/ WorkerReconcile
  BY <1>2 DEF Reconcile, WorkerReconcile, PaperFill, SomeReconciled
<1>3. CASE RecordIntent
  BY <1>3 DEF RecordIntent, PaperFill
<1>4. CASE ~(StopBeforeSend \/ RefusedNotSent \/ PaperFill \/ OutcomeUnknown \/ Acknowledged
             \/ Reconcile \/ WorkerReconcile \/ RecordIntent)
  BY <1>4
     DEF Next, OperatorNext, StepNext, WorkerNext, BrokerNext, vars, durable, Halt,
     HaltLatch, Stop, ResetHalt, PreviewLoss, Rearm, Activate, SetMode, StartBegin,
     StartRefused, StartRun, StepBegin, WorkerTop, WorkerStep, Reboot, PlanRefused,
     Preview, LoopEnd, ItemGone, FreshPlan, StopBeforeIntent, Submit, Preflight,
     PlaceOrder, StepReturn, BrokerAccepts, BrokerRejects, BrokerFills, BrokerEnds,
     PositionsCatchUp
<1> QED BY <1>1, <1>2, <1>3, <1>4

\* A row keeps its side and quantity, and never becomes unsent, fresh or a
\* paper fill, but for the order in hand.
Keeps(i) ==
  /\ rows'[i].side = rows[i].side /\ rows'[i].qty = rows[i].qty
  /\ rows'[i].turned = rows[i].turned
  /\ rows'[i].status = "NONE" <=> rows[i].status = "NONE"
  /\ rows'[i].status \notin Unsent => rows[i].status \notin Unsent
  /\ rows[i].status = "FILLED" => rows'[i].status = "FILLED"
  /\ rows'[i].status = "FILLED" /\ i.acct = Paper =>
       rows[i].status = "FILLED" \/ (PaperFill /\ i = job.cur)

\* Every step keeps every row so, but for the one it records.
LEMMA RowStays ==
  ASSUME Inv, [Next]_vars, NEW i \in Ids, ~(RecordIntent /\ i = job.cur)
  PROVE  Keeps(i)
<1> rows \in [Ids -> Row] /\ rows[i] \in Row
  BY DEF Inv, Typed, TypeOK
<1>1. CASE rows' = rows
  BY <1>1 DEF Keeps
<1>2. CASE RecordIntent
  <2>1. rows' = [rows EXCEPT ![job.cur] = Intent(job.cur)] /\ i # job.cur
    BY <1>2 DEF RecordIntent
  <2>2. rows'[i] = rows[i]
    BY <2>1
  <2> QED BY <2>2 DEF Keeps
<1>3. CASE SomeOutcome
  <2> PICK r \in Row : Outcome(r)
    BY <1>3 DEF SomeOutcome
  <2>1. CASE i = job.cur
    <3>1. rows'[i] = r
      BY <2>1 DEF Outcome
    <3> QED BY <2>1, <3>1 DEF Outcome, Unsent, Keeps
  <2>2. CASE i # job.cur
    <3>1. rows'[i] = rows[i]
      BY <2>2 DEF Outcome
    <3> QED BY <3>1 DEF Keeps
  <2> QED BY <2>1, <2>2
<1>4. CASE SomeReconciled
  <2> PICK done \in SUBSET Pending :
             \E answers \in [done -> {"read", "unknown"}] : ReconcileRows(done, answers)
    BY <1>4 DEF SomeReconciled
  <2> PICK answers \in [done -> {"read", "unknown"}] : ReconcileRows(done, answers)
    OBVIOUS
  <2>1. rows'[i] = IF i \in done THEN Reconciled(i, answers[i]) ELSE rows[i]
    BY DEF ReconcileRows
  <2>2. CASE i \notin done
    BY <2>1, <2>2 DEF Keeps
  <2>3. CASE i \in done
    <3>1. answers[i] = "read" => book[i].st # "NONE"
      BY <2>3 DEF ReconcileRows
    <3>2. book[i].st \in {"NONE"} \cup Live \cup Ended
      BY DEF Inv, Typed, TypeOK, BrokerOrder
    <3>3. /\ rows'[i].side = rows[i].side /\ rows'[i].qty = rows[i].qty
          /\ rows'[i].turned = rows[i].turned
          /\ rows'[i].status = IF answers[i] = "unknown" THEN "UNKNOWN" ELSE book[i].st
      BY <2>1, <2>3 DEF Reconciled, Row
    <3>4. answers[i] \in {"read", "unknown"}
      BY <2>3
    <3>5. rows'[i].status \in {"UNKNOWN"} \cup Live \cup Ended
      BY <3>1, <3>2, <3>3, <3>4
    <3>6. i \in Pending
      BY <2>3
    <3>7. rows[i].status # "NONE" /\ rows[i].status \notin TERMINAL
      BY <3>6 DEF Pending
    <3> QED BY <3>3, <3>5, <3>7 DEF Live, Ended, Unfilled, TERMINAL, Unsent, Keeps
  <2> QED BY <2>2, <2>3
<1>5. rows' = rows \/ RecordIntent \/ SomeOutcome \/ SomeReconciled
  BY RowsStep
<1> QED BY <1>1, <1>2, <1>3, <1>4, <1>5

-----------------------------------------------------------------------------
(* The paper ledger. *)

Filled(c) == {i \in Ids : i.acct = Paper /\ i.code = c /\ rows[i].status = "FILLED"}
Moved == [i \in Ids |-> IF rows[i].side = "BUY" THEN rows[i].qty ELSE -rows[i].qty]

Ledger ==
  \A c \in Codes : /\ IsFiniteSet(Filled(c))
                   /\ shares[Paper][c] = StartShares[c] + SumFunctionOnSet(Moved, Filled(c))

\* What the rows move is a number of shares.
LEMMA MovedInts == ASSUME Inv, NEW S \in SUBSET Ids PROVE Ints(Moved, S)
<1>1. \A i \in Ids : rows[i].qty \in Int
  BY ConstantsAssumption DEF Inv, Typed, TypeOK, Row, Qtys
<1> QED BY <1>1 DEF Ints, Moved

\* Only a paper fill moves the paper ledger.
LEMMA PaperStays ==
  ASSUME Inv, [Next]_vars, ~PaperFill
  PROVE  shares'[Paper] = shares[Paper]
<1>1. CASE \E i \in Ids : BrokerFills(i)
  <2> PICK i \in Ids : BrokerFills(i)
    BY <1>1
  <2>1. i.acct # Paper
    BY DEF BrokerFills, Inv, Cycle, Tied, Reaches, Live, Typed, TypeOK, BrokerOrder
  <2> QED BY <2>1 DEF BrokerFills, Inv, Typed, TypeOK, Books
<1>2. CASE ~\E i \in Ids : BrokerFills(i)
  BY <1>2 DEF Next, OperatorNext, StepNext, WorkerNext, BrokerNext, vars, Halt,
     HaltLatch, Stop, ResetHalt, PreviewLoss, Rearm, Activate, SetMode, StartBegin,
     StartRefused, StartRun, StepBegin, Reconcile, WorkerTop, WorkerReconcile, WorkerStep,
     Reboot, PlanRefused, Preview, LoopEnd, ItemGone, FreshPlan, StopBeforeIntent,
     RecordIntent, StopBeforeSend, Submit, RefusedNotSent, OutcomeUnknown, Preflight,
     PlaceOrder, Acknowledged, StepReturn, BrokerAccepts, BrokerRejects, BrokerEnds,
     PositionsCatchUp
<1> QED BY <1>1, <1>2

\* The fills of paper stay what they are when no paper order is filled.
LEMMA FilledStay ==
  ASSUME Inv, [Next]_vars, NEW c \in Codes, NEW i \in Ids, ~(PaperFill /\ i = job.cur)
  PROVE  /\ i \in Filled(c)' <=> i \in Filled(c)
         /\ i \in Filled(c) => Moved'[i] = Moved[i]
<1>1. CASE RecordIntent /\ i = job.cur
  <2>1. /\ rows' = [rows EXCEPT ![i] = Intent(i)] /\ rows[i].status \in Unsent
        /\ pc = "planned"
    BY <1>1 DEF RecordIntent, Inv, Work
  <2>2. rows'[i].status = "SUBMITTING"
    BY <2>1 DEF Intent, Inv, Typed, TypeOK
  <2> QED BY <2>1, <2>2 DEF Filled, Unsent
<1>2. CASE ~(RecordIntent /\ i = job.cur)
  <2>1. Keeps(i)
    BY <1>2, RowStays
  <2>2. i \in Filled(c)' <=> i \in Filled(c)
    BY <2>1 DEF Keeps, Filled
  <2>3. Moved'[i] = Moved[i]
    BY <2>1 DEF Keeps, Moved
  <2> QED BY <2>2, <2>3
<1> QED BY <1>1, <1>2

\* Only the transaction of a paper fill moves the ledger, by the row it fills.
LEMMA LedgerNext == Inv /\ Planned /\ Ledger /\ [Next]_vars => Ledger'
<1> SUFFICES ASSUME Inv, Planned, Ledger, [Next]_vars, NEW c \in Codes
             PROVE  /\ IsFiniteSet(Filled(c))'
                    /\ (shares[Paper][c] = StartShares[c] + SumFunctionOnSet(Moved, Filled(c)))'
  BY DEF Ledger
<1>1. IsFiniteSet(Filled(c))
      /\ shares[Paper][c] = StartShares[c] + SumFunctionOnSet(Moved, Filled(c))
  BY DEF Ledger
<1>2. Filled(c) \in SUBSET Ids /\ Filled(c)' \in SUBSET Ids
  BY DEF Filled
<1>3. Ints(Moved, Filled(c)) /\ Ints(Moved, Ids)
  BY <1>2, MovedInts
<1>4. CASE ~(PaperFill /\ job.cur.code = c)
  <2>1. \A i \in Ids : i \in Filled(c)' <=> i \in Filled(c)
    <3> TAKE i \in Ids
    <3>1. CASE PaperFill /\ i = job.cur
      <4>1. i \notin Filled(c) /\ i \notin Filled(c)'
        BY <1>4, <3>1 DEF Filled
      <4> QED BY <4>1
    <3>2. CASE ~(PaperFill /\ i = job.cur)
      BY <3>2, FilledStay
    <3> QED BY <3>1, <3>2
  <2>2. \A i \in Filled(c) : Moved[i] = Moved'[i]
    <3> TAKE i \in Filled(c)
    <3>1. i \in Ids /\ ~(PaperFill /\ i = job.cur)
      BY <1>4 DEF Filled
    <3> QED BY <3>1, FilledStay
  <2>3. Filled(c)' = Filled(c)
    BY <1>2, <2>1
  <2>4. SumFunctionOnSet(Moved, Filled(c)) = SumFunctionOnSet(Moved', Filled(c))
    BY <1>1, <1>3, <2>2, SumSame
  <2>5. shares'[Paper][c] = shares[Paper][c]
    <3>1. CASE ~PaperFill
      BY <3>1, PaperStays
    <3>2. CASE PaperFill
      <4>1. c # job.cur.code
        BY <1>4, <3>2
      <4> QED BY <3>2, <4>1 DEF PaperFill, Inv, Typed, TypeOK, Books
    <3> QED BY <3>1, <3>2
  <2> QED BY <1>1, <2>3, <2>4, <2>5
<1>5. CASE PaperFill /\ job.cur.code = c
  <2>1. PICK k \in Ids : k = job.cur
    BY <1>5 DEF PaperFill, Inv, Typed, JobOK, Working
  <2>2. /\ rows[k].status = "SUBMITTING" /\ rows[k] \in Row /\ k.acct = Paper /\ k.code = c
        /\ rows[k].side = job.side /\ rows[k].qty = job.qty /\ job.qty \in Int
    <3>1. rows[k].status = "SUBMITTING" /\ k.acct = acct /\ ~Simulate
      BY <1>5, <2>1 DEF PaperFill, Inv, Work, Working
    <3>2. ~job.partial
      BY <1>5, <3>1 DEF PaperFill, Planned, Working
    <3>3. rows[k].side = job.side /\ rows[k].qty = job.qty
      BY <1>5, <2>1, <3>2 DEF PaperFill, Planned, InHand
    <3>4. job.qty \in Int
      BY ConstantsAssumption DEF Inv, Typed, TypeOK, Job, Qtys
    <3>5. rows[k] \in Row
      BY <2>1 DEF Inv, Typed, TypeOK
    <3> QED BY <1>5, <2>1, <3>1, <3>3, <3>4, <3>5 DEF Simulate
  <2>3. PICK r : /\ rows' = [rows EXCEPT ![k] = r] /\ r.status = "FILLED"
                 /\ r.side = rows[k].side /\ r.qty = rows[k].qty
    <3> DEFINE r == [[rows[k] EXCEPT !.status = "FILLED"] EXCEPT !.acked = TRUE]
    <3>1. r.status = "FILLED" /\ r.side = rows[k].side /\ r.qty = rows[k].qty
      BY <2>2 DEF Row
    <3>2. rows' = [rows EXCEPT ![k] = r]
      BY <1>5, <2>1 DEF PaperFill
    <3> HIDE DEF r
    <3> QED BY <3>1, <3>2
  <2>4. rows'[k].status = "FILLED" /\ rows'[k].side = job.side /\ rows'[k].qty = job.qty
    BY <2>2, <2>3 DEF Inv, Typed, TypeOK
  <2>5. k \notin Filled(c) /\ k \in Filled(c)'
    BY <2>2, <2>4 DEF Filled
  <2>6. \A i \in Ids \ {k} : /\ i \in Filled(c)' <=> i \in Filled(c)
                             /\ i \in Filled(c) => Moved'[i] = Moved[i]
    BY <2>1, FilledStay
  <2>7. Filled(c)' = Filled(c) \cup {k}
    BY <1>2, <2>5, <2>6
  <2>8. \A i \in Filled(c) : Moved[i] = Moved'[i]
    BY <1>2, <2>5, <2>6
  <2>9. Moved'[k] = IF job.side = "BUY" THEN job.qty ELSE -job.qty
    BY <2>4 DEF Moved
  <2>10. SumFunctionOnSet(Moved', Filled(c)) = SumFunctionOnSet(Moved, Filled(c))
    BY <1>1, <1>3, <2>8, SumSame
  <2>11. Ints(Moved', Filled(c) \cup {k})
    BY <1>2, <1>3, <2>2, <2>8, <2>9 DEF Ints
  <2>12. SumFunctionOnSet(Moved', Filled(c) \cup {k}) = Moved'[k] + SumFunctionOnSet(Moved', Filled(c))
    BY <1>1, <2>5, <2>11, SumAdd
  <2>13. IsFiniteSet(Filled(c) \cup {k})
    BY <1>1, FS_AddElement
  <2>14. shares'[Paper][c] = IF job.side = "BUY" THEN shares[Paper][c] + job.qty
                                                 ELSE shares[Paper][c] - job.qty
    BY <1>5 DEF PaperFill, Inv, Typed, TypeOK, Books
  <2>15. /\ shares[Paper][c] \in Int /\ StartShares[c] \in Int
         /\ SumFunctionOnSet(Moved, Filled(c)) \in Int
    BY <1>1, <1>3, SumType, ConstantsAssumption DEF Inv, Typed, TypeOK, Books
  <2>16. shares'[Paper][c] = StartShares[c] + SumFunctionOnSet(Moved', Filled(c) \cup {k})
    BY <1>1, <2>2, <2>9, <2>10, <2>12, <2>14, <2>15
  <2> QED BY <2>7, <2>13, <2>16
<1> QED BY <1>4, <1>5

\* A freshly created engine has no order in hand and no fill.
LEMMA InitLedger == Init => Planned /\ Ledger
<1> SUFFICES ASSUME Init PROVE Planned /\ Ledger
  OBVIOUS
<1>1. Planned
  BY DEF Init, Planned, Working, InHand
<1>2. ASSUME NEW c \in Codes
      PROVE  IsFiniteSet(Filled(c)) /\ SumFunctionOnSet(Moved, Filled(c)) = 0
             /\ shares[Paper][c] = StartShares[c] /\ StartShares[c] \in Int
  <2>1. Filled(c) = {}
    BY DEF Filled, Init, NoRow
  <2>2. shares[Paper][c] = StartShares[c] /\ StartShares[c] \in Int
    BY ConstantsAssumption DEF Init, Books
  <2> QED BY <2>1, <2>2, SumEmpty, FS_EmptySet
<1> QED BY <1>1, <1>2 DEF Ledger

\* The paper ledger is what its filled orders add up to, for any number of
\* books, manifests and signals (ledger and order commit together).
THEOREM LedgerIsItsOrders == Spec => []PaperLedger
<1>1. Inv /\ Planned /\ Ledger /\ [Next]_vars => (Planned /\ Ledger)'
  BY PlannedNext, LedgerNext
<1>2. Ledger => PaperLedger
  BY DEF Ledger, PaperLedger, Filled, Moved
<1> QED BY InitLedger, InvHolds, <1>1, <1>2, PTL DEF Spec

-----------------------------------------------------------------------------
(* The side and the quantity of a row. *)

\* The row in hand says of the order in hand what it will say at the broker.
Held == pc \in InHand => Describes(rows[job.cur], job)

Described == Planned /\ Held /\ RowDescribesOrder

\* The row in hand is written with the order that is then sent.
LEMMA HeldNext ==
  ASSUME Inv, Held, [Next]_vars PROVE Held'
<1>1. CASE pc' \notin InHand
  BY <1>1 DEF Held
<1>2. CASE UNCHANGED <<rows, pc, job, acct, manifest>>
  BY <1>2 DEF Held
<1>3. CASE RecordIntent
  <2>1. PICK k \in Ids : k = job.cur
    BY <1>3 DEF RecordIntent, Inv, Typed, JobOK, Working
  <2>2. rows' = [rows EXCEPT ![k] = Intent(k)] /\ job' = job
    BY <1>3, <2>1 DEF RecordIntent
  <2>3. rows'[k] = Intent(k) /\ rows[k].status \in Statuses
    BY <2>2 DEF Inv, Typed, TypeOK, Row
  <2>4. /\ rows'[k].qty = job.qty
        /\ rows'[k].side = IF rows[k].status = "NONE" THEN job.side ELSE rows[k].side
        /\ rows'[k].turned = (rows[k].status # "NONE" /\ rows[k].side # job.side)
    BY <2>3 DEF Intent
  <2>5. Describes(rows'[k], job)
    BY <2>4 DEF Describes
  <2> QED BY <2>1, <2>2, <2>5 DEF Held
<1>4. CASE Submit \/ Preflight
  BY <1>4 DEF Submit, Preflight, Held, InHand, durable
<1>5. (\E c \in Codes : FreshPlan(c)) \/ PlaceOrder \/ pc' \notin Working => pc' \notin InHand
  BY DEF FreshPlan, PlaceOrder, InHand, Working
<1> QED BY <1>1, <1>2, <1>3, <1>4, <1>5, Beside, HandStep

\* The broker's own steps leave the rows and what an order asks for alone.
LEMMA BrokerKeepsAsked ==
  ASSUME Inv, BrokerNext, NEW i \in Ids
  PROVE  /\ rows' = rows
         /\ wire' \subseteq wire
         /\ \/ \E o \in wire : /\ BrokerAccepts(o) /\ o.id = i /\ book[i].n = 0
                               /\ book'[i] = [st |-> "SUBMITTED", side |-> o.side, qty |-> o.qty,
                                              dealt |-> 0, n |-> 1]
            \/ /\ book'[i].side = book[i].side /\ book'[i].qty = book[i].qty
               /\ book'[i].n = book[i].n
<1> book \in [Ids -> BrokerOrder] /\ book[i] \in BrokerOrder
  BY DEF Inv, Typed, TypeOK
<1>1. rows' = rows /\ wire' \subseteq wire
  BY DEF BrokerNext, BrokerAccepts, BrokerRejects, BrokerFills, BrokerEnds,
         PositionsCatchUp, durable
<1>2. CASE \E o \in wire : BrokerAccepts(o)
  <2> PICK o \in wire : BrokerAccepts(o)
    BY <1>2
  <2>1. o.id \in Ids /\ book[o.id].n = 0
    BY DEF Inv, Typed, TypeOK, Order, Cycle, Tied, Flying
  <2>2. book' = [book EXCEPT ![o.id] = [st |-> "SUBMITTED", side |-> o.side, qty |-> o.qty,
                                        dealt |-> 0, n |-> 1]]
    BY <2>1 DEF BrokerAccepts
  <2>3. CASE i = o.id
    BY <1>1, <2>1, <2>2, <2>3
  <2>4. CASE i # o.id
    <3>1. book'[i] = book[i]
      BY <2>2, <2>4
    <3> QED BY <1>1, <3>1
  <2> QED BY <2>3, <2>4
<1>3. CASE \E j \in Ids : BrokerFills(j)
  <2> PICK j \in Ids : BrokerFills(j)
    BY <1>3
  <2>1. /\ book'[i].side = book[i].side /\ book'[i].qty = book[i].qty
        /\ book'[i].n = book[i].n
    BY DEF BrokerFills, BrokerOrder
  <2> QED BY <1>1, <2>1
<1>4. CASE \E j \in Ids : BrokerEnds(j)
  <2> PICK j \in Ids : BrokerEnds(j)
    BY <1>4
  <2>1. PICK s : book' = [book EXCEPT ![j].st = s]
    BY DEF BrokerEnds
  <2>2. /\ book'[i].side = book[i].side /\ book'[i].qty = book[i].qty
        /\ book'[i].n = book[i].n
    BY <2>1 DEF BrokerOrder
  <2> QED BY <1>1, <2>2
<1>5. CASE (\E o \in wire : BrokerRejects(o)) \/ \E a \in Accounts : PositionsCatchUp(a)
  <2>1. book' = book
    BY <1>5 DEF BrokerRejects, PositionsCatchUp
  <2> QED BY <1>1, <2>1
<1> QED BY <1>2, <1>3, <1>4, <1>5 DEF BrokerNext

\* Of the engine's steps only place_order adds a request.
LEMMA EngineKeepsAsked ==
  ASSUME [Next]_vars, ~BrokerNext
  PROVE  /\ book' = book
         /\ wire' = IF PlaceOrder
                    THEN wire \cup {[id |-> job.cur, side |-> job.side, qty |-> job.qty]}
                    ELSE wire
BY DEF Next, OperatorNext, StepNext, WorkerNext, vars, broker, Halt, HaltLatch, Stop,
   ResetHalt, PreviewLoss, Rearm, Activate, SetMode, StartBegin, StartRefused, StartRun,
   StepBegin, Reconcile, WorkerTop, WorkerReconcile, WorkerStep, Reboot, PlanRefused,
   Preview, LoopEnd, ItemGone, FreshPlan, StopBeforeIntent, RecordIntent, StopBeforeSend,
   PaperFill, Submit, RefusedNotSent, OutcomeUnknown, Preflight, PlaceOrder, Acknowledged,
   StepReturn

\* A row is rewritten only while nothing of its order is at the broker.
LEMMA DescribesNext ==
  ASSUME Inv, Held, RowDescribesOrder, [Next]_vars PROVE RowDescribesOrder'
<1> SUFFICES ASSUME NEW i \in Ids
             PROVE  /\ book'[i].n > 0 => Describes(rows'[i], book'[i])
                    /\ \A o \in wire' : o.id = i => Describes(rows'[i], o)
  BY DEF RowDescribesOrder, Describes
<1>0. /\ book[i].n > 0 => Describes(rows[i], book[i])
      /\ \A o \in wire : o.id = i => Describes(rows[i], o)
  BY DEF RowDescribesOrder
<1> USE DEF Describes
<1>1. CASE BrokerNext
  <2>1. rows' = rows /\ wire' \subseteq wire
    BY <1>1, BrokerKeepsAsked
  <2>2. CASE \E o \in wire : /\ o.id = i
                             /\ book'[i] = [st |-> "SUBMITTED", side |-> o.side, qty |-> o.qty,
                                            dealt |-> 0, n |-> 1]
    BY <1>0, <2>1, <2>2
  <2>3. CASE /\ book'[i].side = book[i].side /\ book'[i].qty = book[i].qty
             /\ book'[i].n = book[i].n
    BY <1>0, <2>1, <2>3
  <2> QED BY <1>1, <2>2, <2>3, BrokerKeepsAsked
<1>2. CASE ~BrokerNext
  <2>1. /\ book' = book
        /\ wire' = IF PlaceOrder
                   THEN wire \cup {[id |-> job.cur, side |-> job.side, qty |-> job.qty]}
                   ELSE wire
    BY <1>2, EngineKeepsAsked
  <2>2. CASE RecordIntent /\ i = job.cur
    <3>1. ~Reaches(i) /\ ~PlaceOrder
      BY <2>2 DEF RecordIntent, PlaceOrder, Inv, Work, Cycle, Tied
    <3> QED BY <2>1, <3>1 DEF Reaches, Flying
  <2>3. CASE ~(RecordIntent /\ i = job.cur)
    <3>1. rows'[i].side = rows[i].side /\ rows'[i].qty = rows[i].qty
          /\ rows'[i].turned = rows[i].turned
      BY <2>3, RowStays DEF Keeps
    <3>2. PlaceOrder /\ job.cur = i => Describes(rows[i], job)
      BY DEF PlaceOrder, Held, InHand
    <3> QED BY <1>0, <2>1, <3>1, <3>2
  <2> QED BY <2>2, <2>3
<1> QED BY <1>1, <1>2

\* A freshly created engine has neither rows nor orders.
LEMMA InitDescribed == Init => Described
<1> SUFFICES ASSUME Init PROVE Described
  OBVIOUS
<1>1. Planned
  BY InitLedger
<1>2. Held
  BY DEF Init, Held, InHand
<1>3. RowDescribesOrder
  BY DEF Init, RowDescribesOrder, NoBrokerOrder
<1> QED BY <1>1, <1>2, <1>3 DEF Described

\* What the rows say of the orders holds of every reachable state.
LEMMA DescribedHolds == Spec => []Described
<1>1. Inv /\ Described /\ [Next]_vars => Described'
  BY PlannedNext, HeldNext, DescribesNext DEF Described
<1> QED BY InitDescribed, InvHolds, <1>1, PTL DEF Spec

\* The durable row keeps the quantity the broker was asked for, and the side
\* unless the UPDATE that last reopened it was made for the other side, for any
\* manifests: also those whose plans turn a code around within a signal.
THEOREM RowsDescribeOrders == Spec => []RowDescribesOrder
<1>1. Described => RowDescribesOrder
  BY DEF Described
<1> QED BY DescribedHolds, <1>1, PTL

-----------------------------------------------------------------------------
(* The side of a row, where the manifests of a signal are one-sided. *)

\* A row that was ever written has the side of its signal's plans.
Sided ==
  \A i \in Ids : rows[i].status # "NONE" =>
    \A m \in Manifests : Targets(m, i) /\ (m.plan \/ m.auto) => rows[i].side = m.phase

\* The intent of a plan's order has its side, also when it is recorded again.
LEMMA IntentSided ==
  ASSUME OneSided, Inv, Planned, Sided, RecordIntent
  PROVE  /\ rows'[job.cur].side = job.side /\ rows'[job.cur].qty = job.qty
         /\ \A m \in Manifests : Targets(m, job.cur) /\ (m.plan \/ m.auto) =>
              job.side = m.phase
<1>1. PICK k \in Ids : k = job.cur
  BY DEF RecordIntent, Inv, Typed, JobOK, Working
<1>2. /\ pc = "planned" /\ rows' = [rows EXCEPT ![k] = Intent(k)]
      /\ manifest \in Manifests /\ k.code \in Codes
      /\ Targets(manifest, k) /\ (manifest.auto => job.partial /\ job.side = manifest.phase)
  BY <1>1 DEF RecordIntent, Planned, Inv, Typed, TypeOK, Ids
<1>3. rows'[k].qty = job.qty
      /\ rows'[k].side = IF rows[k].status = "NONE" THEN job.side ELSE rows[k].side
  BY <1>2 DEF Intent, Inv, Typed, TypeOK
<1>4. ASSUME NEW m \in Manifests, Targets(m, k), m.plan \/ m.auto PROVE job.side = m.phase
  <2>1. m.sig = manifest.sig /\ m.target[k.code] # -1 /\ manifest.target[k.code] # -1
    BY <1>2, <1>4 DEF Targets
  <2>2. manifest.auto /\ m.phase = manifest.phase
    BY <1>2, <1>4, <2>1 DEF OneSided
  <2> QED BY <1>2, <2>2
<1>5. rows[k].status = "NONE" \/ rows[k].side = job.side
  <2>1. CASE ~job.partial
    BY <1>1, <1>2, <2>1 DEF Planned
  <2>2. CASE job.partial
    <3>1. manifest.plan
      BY <1>2, <2>2 DEF Planned, Working
    <3>2. job.side = manifest.phase
      BY <1>2, <1>4, <3>1
    <3>3. rows[k].status # "NONE" => rows[k].side = manifest.phase
      BY <1>2, <3>1 DEF Sided
    <3> QED BY <3>2, <3>3
  <2> QED BY <2>1, <2>2
<1> QED BY <1>1, <1>3, <1>4, <1>5

\* No step turns the side of a row around.
LEMMA SidedNext ==
  ASSUME OneSided, Inv, Planned, Sided, [Next]_vars PROVE Sided'
<1> SUFFICES ASSUME NEW i \in Ids, rows'[i].status # "NONE",
                    NEW m \in Manifests, Targets(m, i), m.plan \/ m.auto
             PROVE  rows'[i].side = m.phase
  BY DEF Sided, Targets
<1>1. CASE RecordIntent /\ i = job.cur
  BY <1>1, IntentSided
<1>2. CASE ~(RecordIntent /\ i = job.cur)
  BY <1>2, RowStays DEF Keeps, Sided
<1> QED BY <1>1, <1>2

\* The rows of one-sided signals have the side of their plans.
LEMMA SidedHolds == ASSUME OneSided PROVE Spec => []Sided
<1>1. Init => Sided
  BY DEF Init, Sided, NoRow
<1>2. Inv /\ Described /\ Sided /\ [Next]_vars => Sided'
  BY SidedNext DEF Described
<1> QED BY InvHolds, DescribedHolds, <1>1, <1>2, PTL DEF Spec

-----------------------------------------------------------------------------
(***************************************************************************)
(* The chain of an automatic order and its retries.  Most is what a broker  *)
(* order may still have bought or sold in the end; Fits says that n shares  *)
(* more stay within the first attempt.  Every retry has a first attempt at  *)
(* the broker (Rooted), and the retry that is planned, in hand or on its    *)
(* way fits (Capped).                                                       *)
(***************************************************************************)
Automatic(i) == i.acct # Paper /\ \E m \in Manifests : m.sig = i.sig /\ m.auto
Kin(i)   == {j \in Ids : j.acct = i.acct /\ j.sig = i.sig /\ j.code = i.code}
Root(i)  == [acct |-> i.acct, sig |-> i.sig, code |-> i.code, gen |-> 0]
Chain(i) == {j \in Kin(i) : book[j].n > 0}
Most     == [j \in Ids |-> IF book[j].st \in Live THEN book[j].qty ELSE book[j].dealt]
Total(i) == SumFunctionOnSet(Most, Chain(i))
Fits(i, n) == book[Root(i)].n > 0 /\ Total(i) + n <= book[Root(i)].qty

Rooted ==
  \A i \in Ids : Automatic(i) /\ rows[i].status \notin Unsent /\ i.gen > 0 =>
    book[Root(i)].n > 0

Capped ==
  /\ \A i \in Ids : book[i].dealt <= book[i].qty
  /\ \A i \in Ids : Automatic(i) /\ book[Root(i)].n > 0 => Fits(i, 0)
  /\ \A o \in wire : Automatic(o.id) /\ o.id.gen > 0 => Fits(o.id, o.qty)
  /\ pc = "planned" \/ pc \in InHand =>
       (Automatic(job.cur) /\ job.cur.gen > 0 => Fits(job.cur, job.qty))

\* The attempts of one order are finitely many, and differ in their number.
LEMMA KinIs ==
  ASSUME NEW i \in Ids
  PROVE  /\ Root(i) \in Kin(i) /\ i \in Kin(i) /\ Kin(i) \in SUBSET Ids
         /\ \A j \in Kin(i) : Kin(j) = Kin(i) /\ Root(j) = Root(i)
         /\ \A j \in Kin(i) : j.gen = 0 => j = Root(i)
         /\ Root(i).gen = 0
         /\ IsFiniteSet(Kin(i))
<1>1. i \in [acct : Books, sig : Signals, code : Codes, gen : 0..MaxGen]
  BY DEF Ids
<1>2. Root(i) \in Kin(i) /\ Root(i).gen = 0
  BY <1>1, ConstantsAssumption DEF Root, Kin, Ids
<1>3. \A j \in Kin(i) : Kin(j) = Kin(i) /\ Root(j) = Root(i)
  BY DEF Kin, Root
<1>4. \A j \in Kin(i) : j.gen = 0 => j = Root(i)
  <2> TAKE j \in Kin(i)
  <2>1. j \in [acct : Books, sig : Signals, code : Codes, gen : 0..MaxGen]
    BY DEF Ids, Kin
  <2>2. j = [acct |-> j.acct, sig |-> j.sig, code |-> j.code, gen |-> j.gen]
    BY <2>1
  <2> QED BY <2>2 DEF Root, Kin
<1>5. IsFiniteSet(Kin(i))
  <2> DEFINE h == [j \in Kin(i) |-> j.gen]
  <2>1. IsFiniteSet(0..MaxGen)
    BY ConstantsAssumption, FS_Interval
  <2>2. h \in [Kin(i) -> 0..MaxGen]
    <3>1. \A j \in Kin(i) : j.gen \in 0..MaxGen
      BY DEF Kin, Ids
    <3> QED BY <3>1
  <2>3. ASSUME NEW j \in Kin(i), NEW k \in Kin(i), j.gen = k.gen PROVE j = k
    <3>1. /\ j \in [acct : Books, sig : Signals, code : Codes, gen : 0..MaxGen]
          /\ k \in [acct : Books, sig : Signals, code : Codes, gen : 0..MaxGen]
      BY DEF Ids, Kin
    <3>2. j.acct = k.acct /\ j.sig = k.sig /\ j.code = k.code
      BY DEF Kin
    <3> QED BY <2>3, <3>1, <3>2
  <2>4. h \in Injection(Kin(i), 0..MaxGen)
    <3>1. \A j, k \in Kin(i) : h[j] = h[k] => j = k
      BY <2>3
    <3> HIDE DEF h
    <3> QED BY <2>2, <3>1 DEF Injection, IsInjective
  <2> HIDE DEF h
  <2> QED BY <2>1, <2>4, FS_Injection
<1>6. i \in Kin(i) /\ Kin(i) \in SUBSET Ids
  BY DEF Kin
<1> QED BY <1>2, <1>3, <1>4, <1>5, <1>6

\* The numbers of the chain are integers.
LEMMA ChainInts ==
  ASSUME TypeOK, NEW i \in Ids
  PROVE  /\ IsFiniteSet(Chain(i)) /\ Chain(i) \in SUBSET Ids /\ Ints(Most, Ids)
         /\ Total(i) \in Int
         /\ \A j \in Ids : book[j].qty \in Nat /\ book[j].dealt \in Nat /\ book[j].n \in Nat
<1>1. \A j \in Ids : book[j].qty \in Nat /\ book[j].dealt \in Nat /\ book[j].n \in Nat
  <2> TAKE j \in Ids
  <2>1. book[j] \in BrokerOrder
    BY DEF TypeOK
  <2> QED BY <2>1, ConstantsAssumption DEF BrokerOrder, Qtys
<1>2. Ints(Most, Ids)
  BY <1>1 DEF Ints, Most
<1>3. IsFiniteSet(Chain(i)) /\ Chain(i) \in SUBSET Ids
  <2>1. Chain(i) \subseteq Kin(i)
    BY DEF Chain
  <2> QED BY <2>1, KinIs, FS_Subset
<1>4. Ints(Most, Chain(i))
  BY <1>2, <1>3 DEF Ints
<1>5. Total(i) \in Int
  BY <1>3, <1>4, SumType DEF Total
<1> QED BY <1>1, <1>2, <1>3, <1>5

\* What reached the broker is on record as sent.
LEMMA ChainSent ==
  ASSUME Inv, NEW i \in Ids, NEW j \in Chain(i)
  PROVE  rows[j].status \notin Unsent /\ j \in Ids /\ j \in Kin(i)
BY DEF Inv, Cycle, Tied, Reaches, Chain, Kin

\* One request at a time, and none beside an order that is in hand.
LEMMA WireAlone ==
  ASSUME Inv, NEW o \in wire
  PROVE  /\ o.id \in Ids /\ o.id \in Pending
         /\ \A p \in wire : p = o
         /\ pc = "planned" \/ pc \in InHand => job.cur.acct = Paper
<1>1. \A p \in wire : p.id \in Ids /\ p.id \in Pending
  <2> TAKE p \in wire
  <2>1. p.id \in Ids /\ Flying(p.id)
    BY DEF Inv, Typed, TypeOK, Order, Flying
  <2> QED BY <2>1 DEF Inv, Cycle, Tied, Reaches, Pending, Unsent
<1>2. \A p \in wire : p = o
  BY <1>1 DEF Inv, Cycle
<1>3. ASSUME pc = "planned" PROVE FALSE
  BY <1>1, <1>3 DEF Inv, Work
<1>4. ASSUME pc \in InHand, job.cur.acct # Paper PROVE FALSE
  <2>1. rows[job.cur].status = "SUBMITTING" /\ ~Reaches(job.cur) /\ job.cur \in Ids
    BY <1>4 DEF Inv, Work, InHand, Typed, JobOK, Working
  <2>2. job.cur \in Pending
    BY <1>4, <2>1 DEF Pending, TERMINAL, Ended, Unfilled
  <2>3. job.cur = o.id
    BY <1>1, <2>2 DEF Inv, Cycle
  <2> QED BY <2>1, <2>3 DEF Reaches, Flying
<1> QED BY <1>1, <1>2, <1>3, <1>4

\* A broker order stays, with what it was asked for.
LEMMA BookGrows ==
  ASSUME Inv, [Next]_vars, NEW i \in Ids, book[i].n > 0
  PROVE  book'[i].n > 0 /\ book'[i].qty = book[i].qty
<1>1. CASE BrokerNext
  <2>1. \/ book[i].n = 0
        \/ book'[i].qty = book[i].qty /\ book'[i].n = book[i].n
    BY <1>1, BrokerKeepsAsked
  <2> QED BY <2>1
<1>2. CASE ~BrokerNext
  BY <1>2, EngineKeepsAsked
<1> QED BY <1>1, <1>2

\* Fills and endings take nothing out of reach: what an order may have dealt
\* in the end never rises once the broker has it.
LEMMA MostFalls ==
  ASSUME Inv, \A i \in Ids : book[i].dealt <= book[i].qty,
         book' = book \/ (BrokerNext /\ ~\E o \in wire : BrokerAccepts(o)), NEW j \in Ids
  PROVE  /\ book'[j].n = book[j].n /\ book'[j].qty = book[j].qty
         /\ Most'[j] <= Most[j] /\ book'[j].dealt <= book'[j].qty
<1> book \in [Ids -> BrokerOrder] /\ book[j] \in BrokerOrder
  BY DEF Inv, Typed, TypeOK
<1>0. book[j].qty \in Nat /\ book[j].dealt \in Nat /\ book[j].dealt <= book[j].qty
  BY ConstantsAssumption DEF BrokerOrder, Qtys
<1>1. CASE \E k \in Ids : BrokerFills(k)
  <2> PICK k \in Ids : BrokerFills(k)
    BY <1>1
  <2>1. CASE k # j
    <3>1. book'[j] = book[j]
      BY <2>1 DEF BrokerFills
    <3> QED BY <1>0, <3>1 DEF Most
  <2>2. CASE k = j
    <3>1. /\ book[j].st \in Live /\ book[j].dealt < book[j].qty
          /\ book'[j] = [[book[j] EXCEPT !.dealt = book[j].dealt + 1] EXCEPT
                           !.st = IF book[j].dealt + 1 = book[j].qty THEN "FILLED_ALL"
                                                                    ELSE "FILLED_PART"]
      BY <2>2 DEF BrokerFills
    <3>2. /\ book'[j].n = book[j].n /\ book'[j].qty = book[j].qty
          /\ book'[j].dealt = book[j].dealt + 1
          /\ book'[j].st = IF book[j].dealt + 1 = book[j].qty THEN "FILLED_ALL" ELSE "FILLED_PART"
      BY <3>1 DEF BrokerOrder
    <3>3. Most[j] = book[j].qty
      BY <3>1 DEF Most
    <3>4. Most'[j] = book[j].qty
      BY <3>2 DEF Most, Live
    <3> QED BY <1>0, <3>1, <3>2, <3>3, <3>4
  <2> QED BY <2>1, <2>2
<1>2. CASE \E k \in Ids : BrokerEnds(k)
  <2> PICK k \in Ids : BrokerEnds(k)
    BY <1>2
  <2>1. PICK s \in Unfilled \cup {"CANCELLED_PART"} : book' = [book EXCEPT ![k].st = s]
    BY DEF BrokerEnds
  <2>2. CASE k # j
    <3>1. book'[j] = book[j]
      BY <2>1, <2>2
    <3> QED BY <1>0, <3>1 DEF Most
  <2>3. CASE k = j
    <3>1. /\ book'[j].n = book[j].n /\ book'[j].qty = book[j].qty
          /\ book'[j].dealt = book[j].dealt /\ book'[j].st = s
      BY <2>1, <2>3 DEF BrokerOrder
    <3>2. Most[j] = book[j].qty
      BY <2>3 DEF Most, BrokerEnds
    <3>3. Most'[j] = book[j].dealt
      BY <3>1 DEF Most, Live, Unfilled
    <3> QED BY <1>0, <3>1, <3>2, <3>3
  <2> QED BY <2>2, <2>3
<1>3. CASE book' = book
  BY <1>0, <1>3 DEF Most
<1>4. CASE (\E o \in wire : BrokerRejects(o)) \/ \E a \in Accounts : PositionsCatchUp(a)
  BY <1>3, <1>4 DEF BrokerRejects, PositionsCatchUp
<1> QED BY <1>1, <1>2, <1>3, <1>4 DEF BrokerNext

\* What fitted still fits after such a step.
LEMMA FitsFalls ==
  ASSUME Inv, Inv', \A i \in Ids : book[i].dealt <= book[i].qty,
         book' = book \/ (BrokerNext /\ ~\E o \in wire : BrokerAccepts(o)),
         NEW i \in Ids, NEW n \in Nat, Fits(i, n)
  PROVE  book'[Root(i)].n > 0 /\ Total(i)' + n <= book'[Root(i)].qty
<1>1. /\ Root(i) \in Ids /\ Kin(i) \in SUBSET Ids
  BY KinIs
<1>2. \A j \in Ids : /\ book'[j].n = book[j].n /\ book'[j].qty = book[j].qty
                     /\ Most'[j] <= Most[j]
  BY MostFalls
<1>3. Chain(i)' = Chain(i)
  BY <1>1, <1>2 DEF Chain
<1>4. /\ IsFiniteSet(Chain(i)) /\ Chain(i) \in SUBSET Ids /\ Ints(Most, Ids)
      /\ Total(i) \in Int /\ book[Root(i)].qty \in Nat
  BY <1>1, ChainInts DEF Inv, Typed
<1>5. Ints(Most', Ids)
  <2>1. \A j \in Ids : book'[j].qty \in Int /\ book'[j].dealt \in Int
    <3> TAKE j \in Ids
    <3>1. book'[j] \in BrokerOrder
      BY DEF Inv, Typed, TypeOK
    <3> QED BY <3>1, ConstantsAssumption DEF BrokerOrder, Qtys
  <2> QED BY <2>1 DEF Ints, Most
<1>6. Total(i)' <= Total(i) /\ Total(i)' \in Int
  <2>1. Ints(Most, Chain(i)) /\ Ints(Most', Chain(i))
    BY <1>4, <1>5 DEF Ints
  <2>2. \A j \in Chain(i) : Most'[j] <= Most[j]
    BY <1>2, <1>4
  <2>3. SumFunctionOnSet(Most', Chain(i)) <= SumFunctionOnSet(Most, Chain(i))
    BY <1>4, <2>1, <2>2, SumAtMost
  <2>4. Total(i)' = SumFunctionOnSet(Most', Chain(i)')
    BY DEF Total
  <2>5. SumFunctionOnSet(Most', Chain(i)) \in Int
    BY <1>4, <2>1, SumType
  <2> QED BY <1>3, <2>3, <2>4, <2>5 DEF Total
<1> QED BY <1>1, <1>2, <1>4, <1>6 DEF Fits

\* An attempt the broker takes is the first of its chain, or a retry that fits.
LEMMA FitsAccepted ==
  ASSUME Inv, Rooted, Capped, NEW o \in wire, BrokerAccepts(o), NEW i \in Ids,
         Automatic(i), book'[Root(i)].n > 0
  PROVE  Total(i)' <= book'[Root(i)].qty
<1>1. PICK k \in Ids : k = o.id
  BY WireAlone
<1>2. book[k].n = 0 /\ o.qty \in Nat
  BY <1>1, ConstantsAssumption DEF Inv, Typed, TypeOK, Order, Qtys, Cycle, Tied, Flying
<1>3. book' = [book EXCEPT ![k] = [st |-> "SUBMITTED", side |-> o.side, qty |-> o.qty,
                                   dealt |-> 0, n |-> 1]]
  BY <1>1, <1>2 DEF BrokerAccepts
<1>4. /\ \A j \in Ids \ {k} : book'[j] = book[j] /\ Most'[j] = Most[j]
      /\ book'[k].n = 1 /\ book'[k].qty = o.qty /\ Most'[k] = o.qty
  <2>1. book \in [Ids -> BrokerOrder]
    BY DEF Inv, Typed, TypeOK
  <2>2. \A j \in Ids \ {k} : book'[j] = book[j]
    BY <1>3, <2>1
  <2>3. book'[k] = [st |-> "SUBMITTED", side |-> o.side, qty |-> o.qty, dealt |-> 0, n |-> 1]
    BY <1>3, <2>1
  <2> QED BY <2>2, <2>3 DEF Most, Live
<1>5. /\ Root(i) \in Kin(i) /\ Kin(i) \in SUBSET Ids
      /\ \A j \in Kin(i) : Kin(j) = Kin(i) /\ Root(j) = Root(i)
      /\ \A j \in Kin(i) : j.gen = 0 => j = Root(i)
  BY KinIs
<1>6. /\ IsFiniteSet(Chain(i)) /\ Chain(i) \in SUBSET Ids /\ Ints(Most, Ids)
      /\ Total(i) \in Int /\ k \notin Chain(i) /\ \A j \in Chain(i) : j # k
  BY <1>2, ChainInts DEF Inv, Typed, Chain
<1>7. SumFunctionOnSet(Most, Chain(i)) = SumFunctionOnSet(Most', Chain(i))
  <2>1. Ints(Most, Chain(i)) /\ \A j \in Chain(i) : Most[j] = Most'[j]
    BY <1>4, <1>6 DEF Ints
  <2> QED BY <1>6, <2>1, SumSame
<1>8. Total(i)' = SumFunctionOnSet(Most', Chain(i)')
  BY DEF Total
<1>9. CASE k \notin Kin(i)
  <2>1. Chain(i)' = Chain(i)
    BY <1>4, <1>5, <1>9 DEF Chain
  <2>2. Root(i) # k /\ book'[Root(i)] = book[Root(i)]
    BY <1>4, <1>5, <1>9
  <2>3. Total(i) + 0 <= book[Root(i)].qty
    BY <2>2 DEF Capped, Fits
  <2> QED BY <1>6, <1>7, <1>8, <2>1, <2>2, <2>3 DEF Total
<1>10. CASE k \in Kin(i)
  <2>1. Chain(i)' = Chain(i) \cup {k}
    BY <1>4, <1>5, <1>10 DEF Chain
  <2>2. Ints(Most', Chain(i) \cup {k})
    BY <1>2, <1>4, <1>6 DEF Ints
  <2>3. SumFunctionOnSet(Most', Chain(i) \cup {k}) = o.qty + Total(i)
    <3>1. SumFunctionOnSet(Most', Chain(i) \cup {k}) = Most'[k] + SumFunctionOnSet(Most', Chain(i))
      BY <1>6, <2>2, SumAdd
    <3>2. Most'[k] = o.qty /\ SumFunctionOnSet(Most', Chain(i)) = Total(i)
      BY <1>4, <1>7 DEF Total
    <3> QED BY <3>1, <3>2
  <2>4. Automatic(k) /\ Kin(k) = Kin(i) /\ Root(k) = Root(i)
    BY <1>5, <1>10 DEF Automatic, Kin
  <2>5. CASE k.gen > 0
    <3>1. Fits(k, o.qty)
      BY <1>1, <2>4, <2>5 DEF Capped
    <3>2. Total(k) = Total(i)
      BY <2>4 DEF Total, Chain
    <3>3. book[Root(i)].n > 0 /\ Total(i) + o.qty <= book[Root(i)].qty
      BY <2>4, <3>1, <3>2 DEF Fits
    <3>4. book'[Root(i)] = book[Root(i)]
      BY <1>2, <1>4, <1>5, <3>3
    <3> QED BY <1>2, <1>6, <1>8, <2>1, <2>3, <3>3, <3>4
  <2>6. CASE ~(k.gen > 0)
    <3>1. k = Root(i)
      <4>1. k.gen \in Nat
        BY ConstantsAssumption DEF Ids
      <4> QED BY <1>5, <1>10, <2>6, <4>1
    <3>2. ASSUME NEW j \in Chain(i) PROVE FALSE
      <4>1. j \in Kin(i) /\ j \in Ids /\ rows[j].status \notin Unsent /\ j # k
        BY <3>2, <1>6, ChainSent
      <4>2. Root(j) = Root(i) /\ j.gen # 0
        BY <1>5, <3>1, <4>1
      <4>3. j.gen > 0
        BY <4>1, <4>2, ConstantsAssumption DEF Ids
      <4>4. Automatic(j)
        BY <4>1 DEF Automatic, Kin
      <4>5. book[Root(j)].n > 0
        BY <4>1, <4>3, <4>4 DEF Rooted
      <4> QED BY <1>2, <3>1, <4>2, <4>5
    <3>3. Chain(i) = {}
      BY <3>2
    <3>4. Total(i) = 0
      BY <3>3, SumEmpty DEF Total
    <3> QED BY <1>2, <1>4, <1>8, <2>1, <2>3, <3>1, <3>4
  <2> QED BY <2>5, <2>6
<1> QED BY <1>9, <1>10

\* The attempts the plan of a retry counts are the chain at the broker, their
\* fills what the broker has dealt, and the first is the first.
LEMMA PlanCounts ==
  ASSUME OneSided, Inv, Described, Sided, Rooted, NEW c \in Codes, FreshPlan(c),
         Automatic(IdOf(c, job.partial)), IdOf(c, job.partial).gen > 0
  PROVE  Fits(IdOf(c, job.partial), QtyOf(c))
<1> DEFINE i == IdOf(c, job.partial)
<1>1. /\ i \in Ids /\ job.partial \in BOOLEAN /\ c \in Wanted /\ PlanChecks(job.partial)
  BY FreshPlanned
<1>2. /\ i.acct = acct /\ i.sig = manifest.sig /\ i.code = c /\ i.gen = Gen(c, job.partial)
      /\ i.gen > 0 /\ Automatic(i)
  BY DEF IdOf
<1>3. manifest \in Manifests /\ manifest.auto /\ job.partial
  <2>1. manifest \in Manifests
    BY DEF Inv, Typed, TypeOK
  <2>2. PICK m \in Manifests : m.sig = i.sig /\ m.auto
    BY DEF Automatic
  <2>3. manifest.auto
    BY <1>2, <2>1, <2>2 DEF OneSided
  <2> QED BY <1>1, <2>1, <2>3 DEF PlanChecks
<1>4. /\ SideOf(c) = manifest.phase
      /\ Cardinality(Attempts(c)) = i.gen
      /\ \A j \in Attempts(c) : rows[j].status \in Ended /\ rows[j].fill # NoFill
      /\ QtyOf(c) <= Remaining(c)
  <2>1. SideOf(c) = manifest.phase /\ RetryAllowed(c, job.partial)
    BY <1>1, <1>3 DEF PlanChecks
  <2>2. Gen(c, job.partial) > 0
    BY <1>2
  <2> HIDE DEF i
  <2> QED BY <1>2, <1>3, <2>1, <2>2 DEF RetryAllowed, Ended, Unfilled
<1> HIDE DEF i
<1>5. /\ Root(i) \in Kin(i) /\ Kin(i) \in SUBSET Ids /\ Root(i).gen = 0
      /\ \A j \in Kin(i) : Kin(j) = Kin(i) /\ Root(j) = Root(i)
      /\ \A j \in Kin(i) : j.gen = 0 => j = Root(i)
  BY <1>1, KinIs
<1>6. ASSUME NEW j \in Attempts(c) PROVE j \in Chain(i)
  <2>1. j \in Kin(i) /\ j \in Ids
    BY <1>2, <1>6 DEF Attempts, Kin
  <2>2. rows[j].status = book[j].st /\ rows[j].status \in Ended /\ Tied(j)
    BY <1>4, <1>6, <2>1 DEF Inv, Cycle, Tied
  <2>3. book[j].n # 0 /\ book[j].n \in Nat
    BY <2>1, <2>2 DEF Tied, Ended, Unfilled, Inv, Typed, TypeOK, BrokerOrder
  <2> QED BY <2>1, <2>3 DEF Chain
<1>7. ASSUME NEW j \in Chain(i) PROVE j \in Attempts(c)
  <2>1. j \in Ids /\ j \in Kin(i) /\ rows[j].status \notin Unsent
    BY <1>1, <1>7, ChainSent
  <2>2. j.acct = acct /\ j.sig = manifest.sig /\ j.code = c
    BY <1>2, <2>1 DEF Kin
  <2>3. Targets(manifest, j)
    BY <1>1, <2>2 DEF Targets, Wanted
  <2>4. rows[j].side = manifest.phase
    BY <1>3, <2>1, <2>3 DEF Sided, Unsent
  <2> QED BY <1>4, <2>1, <2>2, <2>4 DEF Attempts
<1>8. Attempts(c) = Chain(i)
  BY <1>6, <1>7
<1>9. Root(i) \in Chain(i) /\ book[Root(i)].n > 0
  <2>1. PICK j \in Chain(i) : TRUE
    <3>1. Chain(i) # {}
      <4>1. Cardinality(Attempts(c)) # 0
        BY <1>2, <1>4
      <4>2. Cardinality({}) = 0
        BY FS_EmptySet
      <4> QED BY <1>8, <4>1, <4>2
    <3> QED BY <3>1
  <2>2. j \in Ids /\ j \in Kin(i) /\ rows[j].status \notin Unsent /\ book[j].n > 0
    BY <1>1, ChainSent DEF Chain
  <2>3. CASE j.gen = 0
    BY <1>5, <2>1, <2>2, <2>3
  <2>4. CASE j.gen # 0
    <3>1. j.gen > 0
      BY <2>2, <2>4, ConstantsAssumption DEF Ids
    <3>2. Automatic(j)
      BY <1>2, <2>2 DEF Automatic, Kin
    <3>3. book[Root(i)].n > 0
      BY <1>5, <2>2, <3>1, <3>2 DEF Rooted
    <3> QED BY <1>5, <3>3 DEF Chain
  <2> QED BY <2>3, <2>4 DEF Chain
<1>10. (CHOOSE x \in Attempts(c) : \A j \in Attempts(c) : x.gen <= j.gen) = Root(i)
  <2>1. \A j \in Attempts(c) : j.gen \in Nat /\ j \in Kin(i)
    BY <1>8, ConstantsAssumption DEF Chain, Kin, Ids
  <2>2. Root(i) \in Attempts(c) /\ \A j \in Attempts(c) : Root(i).gen <= j.gen
    BY <1>5, <1>8, <1>9, <2>1
  <2>3. ASSUME NEW x \in Attempts(c), \A j \in Attempts(c) : x.gen <= j.gen
        PROVE  x = Root(i)
    <3>1. x.gen <= Root(i).gen /\ x.gen \in Nat /\ x \in Kin(i)
      BY <2>1, <2>2, <2>3
    <3>2. x.gen = 0
      BY <1>5, <3>1
    <3> QED BY <1>5, <3>1, <3>2
  <2> QED BY <2>2, <2>3
<1>11. /\ IsFiniteSet(Chain(i)) /\ Chain(i) \in SUBSET Ids /\ Ints(Most, Ids)
       /\ Total(i) \in Int /\ \A j \in Ids : book[j].qty \in Nat
  BY <1>1, ChainInts DEF Inv, Typed
<1>12. SumFunctionOnSet([j \in Ids |-> rows[j].fill], Attempts(c)) = Total(i)
  <2>1. \A j \in Chain(i) : Most[j] = [k \in Ids |-> rows[k].fill][j]
    <3> TAKE j \in Chain(i)
    <3>1. j \in Ids /\ j \in Attempts(c)
      BY <1>8, <1>11
    <3>2. rows[j].fill = book[j].dealt /\ book[j].st \in Ended
      BY <1>4, <3>1 DEF Inv, Cycle, Tied
    <3>3. book[j].st \notin Live
      BY <3>2 DEF Ended, Unfilled, Live
    <3> QED BY <3>1, <3>2, <3>3 DEF Most
  <2>2. Ints(Most, Chain(i))
    BY <1>11 DEF Ints
  <2>3. SumFunctionOnSet(Most, Chain(i)) = SumFunctionOnSet([j \in Ids |-> rows[j].fill], Chain(i))
    BY <1>11, <2>1, <2>2, SumSame
  <2> QED BY <1>8, <2>3 DEF Total
<1>13. rows[Root(i)].qty = book[Root(i)].qty
  BY <1>5, <1>9 DEF Described, RowDescribesOrder, Describes
<1>14. Remaining(c) = book[Root(i)].qty - Total(i)
  BY <1>10, <1>12, <1>13 DEF Remaining
<1>15. QtyOf(c) \in Int
  <2>1. QtyOf(c) \in Qtys
    BY PlanTyped DEF FreshPlan, Inv, Typed
  <2> QED BY <2>1, ConstantsAssumption DEF Qtys
<1>16. Total(i) + QtyOf(c) <= book[Root(i)].qty
  BY <1>4, <1>5, <1>11, <1>14, <1>15
<1> QED BY <1>9, <1>16 DEF Fits, i

\* A retry is recorded only if it fits, so behind its first attempt.
LEMMA RootedNext ==
  ASSUME Inv, Capped, Rooted, [Next]_vars PROVE Rooted'
<1> SUFFICES ASSUME NEW i \in Ids, Automatic(i), rows'[i].status \notin Unsent, i.gen > 0
             PROVE  book'[Root(i)].n > 0
  BY DEF Rooted, Automatic, Root
<1>1. book[Root(i)].n > 0
  <2>1. CASE RecordIntent /\ i = job.cur
    <3>1. Fits(i, job.qty)
      BY <2>1 DEF RecordIntent, Capped
    <3> QED BY <3>1 DEF Fits
  <2>2. CASE ~(RecordIntent /\ i = job.cur)
    BY <2>2, RowStays DEF Keeps, Rooted
  <2> QED BY <2>1, <2>2
<1>2. Root(i) \in Ids
  BY KinIs
<1> QED BY <1>1, <1>2, BookGrows

\* The order a step plans, records or clears fits its chain.
LEMMA HandFits ==
  ASSUME OneSided, Inv, Inv', Described, Sided, Rooted, Capped, [Next]_vars,
         pc' = "planned" \/ pc' \in InHand, NEW i \in Ids, i = job'.cur,
         NEW n \in Nat, n = job'.qty, Automatic(i), i.gen > 0
  PROVE  book'[Root(i)].n > 0 /\ Total(i)' + n <= book'[Root(i)].qty
<1>0. \A j \in Ids : book[j].dealt <= book[j].qty
  BY DEF Capped
<1>4. CASE BrokerNext
  <2>1. job' = job /\ pc' = pc
    BY <1>4 DEF BrokerNext, BrokerAccepts, BrokerRejects, BrokerFills, BrokerEnds,
                PositionsCatchUp
  <2>2. ~\E o \in wire : BrokerAccepts(o)
    BY <2>1, WireAlone DEF Automatic
  <2>3. Fits(i, n)
    BY <2>1 DEF Capped
  <2> QED BY <1>0, <1>4, <2>2, <2>3, FitsFalls
<1>5. CASE ~BrokerNext
  <2>1. book' = book
    BY <1>5, EngineKeepsAsked
  <2>2. Fits(i, n)
    <3>1. CASE pc' = pc /\ job' = job
      BY <3>1 DEF Capped
    <3>2. CASE RecordIntent \/ Submit \/ Preflight
      <4>1. (pc = "planned" \/ pc \in InHand) /\ job' = job
        BY <3>2 DEF RecordIntent, Submit, Preflight, InHand
      <4> QED BY <4>1 DEF Capped
    <3>3. CASE \E c \in Codes : FreshPlan(c)
      <4> PICK c \in Codes : FreshPlan(c)
        BY <3>3
      <4>1. i = IdOf(c, job.partial) /\ n = QtyOf(c)
        BY FreshPlanned
      <4> QED BY <4>1, PlanCounts
    <3>4. ~PlaceOrder /\ pc' \in Working
      BY DEF PlaceOrder, InHand, Working
    <3> QED BY <3>1, <3>2, <3>3, <3>4, Beside, HandStep
  <2> QED BY <1>0, <2>1, <2>2, FitsFalls
<1> QED BY <1>4, <1>5

\* The three places at which an attempt can be before the broker has it, and
\* the broker's own steps, keep the chain within its first attempt.
LEMMA CappedNext ==
  ASSUME OneSided, Inv, Inv', Described, Sided, Rooted, Capped, [Next]_vars PROVE Capped'
<1>0. \A i \in Ids : book[i].dealt <= book[i].qty
  BY DEF Capped
<1> DEFINE Quiet == book' = book \/ (BrokerNext /\ ~\E o \in wire : BrokerAccepts(o))
<1>1. Quiet \/ \E o \in wire : BrokerAccepts(o)
  BY EngineKeepsAsked
<1>2. ASSUME NEW i \in Ids PROVE book'[i].dealt <= book'[i].qty
  <2>1. CASE Quiet
    BY <1>0, <2>1, MostFalls
  <2>2. CASE \E o \in wire : BrokerAccepts(o)
    <3> PICK o \in wire : BrokerAccepts(o)
      BY <2>2
    <3>1. /\ book[o.id].n = 0 /\ book \in [Ids -> BrokerOrder] /\ o.qty \in Nat /\ o.id \in Ids
      BY ConstantsAssumption DEF Inv, Typed, TypeOK, Order, Qtys, Cycle, Tied, Flying
    <3>2. book' = [book EXCEPT ![o.id] = [st |-> "SUBMITTED", side |-> o.side, qty |-> o.qty,
                                          dealt |-> 0, n |-> 1]]
      BY <3>1 DEF BrokerAccepts
    <3>3. CASE i = o.id
      BY <3>1, <3>2, <3>3
    <3>4. CASE i # o.id
      <4>1. book'[i] = book[i]
        BY <3>2, <3>4
      <4> QED BY <1>0, <4>1
    <3> QED BY <3>3, <3>4
  <2> QED BY <1>1, <2>1, <2>2
<1>3. ASSUME NEW i \in Ids, Automatic(i), book'[Root(i)].n > 0
      PROVE  Total(i)' + 0 <= book'[Root(i)].qty
  <2>1. CASE Quiet
    <3>1. Root(i) \in Ids
      BY KinIs
    <3>2. book[Root(i)].n > 0
      BY <1>0, <1>3, <2>1, <3>1, MostFalls
    <3>3. Fits(i, 0)
      BY <1>3, <3>2 DEF Capped
    <3> QED BY <1>0, <2>1, <3>3, FitsFalls
  <2>2. CASE \E o \in wire : BrokerAccepts(o)
    <3>1. Total(i)' <= book'[Root(i)].qty
      BY <1>3, <2>2, FitsAccepted
    <3>2. Total(i)' \in Int
      <4>1. TypeOK' /\ Ints(Most', Ids) /\ IsFiniteSet(Chain(i)') /\ Chain(i)' \in SUBSET Ids
        <5>1. \A j \in Ids : book'[j].qty \in Int /\ book'[j].dealt \in Int
          <6> TAKE j \in Ids
          <6>1. book'[j] \in BrokerOrder
            BY DEF Inv, Typed, TypeOK
          <6> QED BY <6>1, ConstantsAssumption DEF BrokerOrder, Qtys
        <5>2. Chain(i)' \subseteq Kin(i)
          BY DEF Chain
        <5>3. IsFiniteSet(Kin(i)) /\ Kin(i) \in SUBSET Ids
          BY KinIs
        <5>4. IsFiniteSet(Chain(i)')
          BY <5>2, <5>3, FS_Subset
        <5> QED BY <5>1, <5>2, <5>3, <5>4 DEF Ints, Most, Inv, Typed
      <4>2. Ints(Most', Chain(i)')
        BY <4>1 DEF Ints
      <4>3. SumFunctionOnSet(Most', Chain(i)') \in Int
        BY <4>1, <4>2, SumType
      <4> QED BY <4>3 DEF Total
    <3> QED BY <3>1, <3>2
  <2> QED BY <1>1, <2>1, <2>2
<1>4. ASSUME NEW o \in wire', Automatic(o.id), o.id.gen > 0
      PROVE  book'[Root(o.id)].n > 0 /\ Total(o.id)' + o.qty <= book'[Root(o.id)].qty
  <2>1. o.id \in Ids /\ o.qty \in Nat
    BY ConstantsAssumption DEF Inv, Typed, TypeOK, Order, Qtys
  <2>2. CASE \E p \in wire : BrokerAccepts(p)
    <3>1. wire' = {}
      BY <2>2, WireAlone DEF BrokerAccepts
    <3> QED BY <3>1
  <2>3. CASE Quiet
    <3>1. Fits(o.id, o.qty)
      <4>1. CASE o \in wire
        BY <1>4, <4>1 DEF Capped
      <4>2. CASE o \notin wire
        <5>1. PlaceOrder /\ o = [id |-> job.cur, side |-> job.side, qty |-> job.qty]
          BY <4>2, BrokerKeepsAsked, EngineKeepsAsked, <2>1
        <5> QED BY <1>4, <5>1 DEF PlaceOrder, InHand, Capped
      <4> QED BY <4>1, <4>2
    <3> QED BY <1>0, <2>1, <2>3, <3>1, FitsFalls
  <2> QED BY <1>1, <2>2, <2>3
<1> HIDE DEF Quiet
<1>5. (\A i \in Ids : book[i].dealt <= book[i].qty)'
  BY <1>2
<1>6. (\A i \in Ids : Automatic(i) /\ book[Root(i)].n > 0 => Fits(i, 0))'
  BY <1>3 DEF Fits
<1>7. (\A o \in wire : Automatic(o.id) /\ o.id.gen > 0 => Fits(o.id, o.qty))'
  BY <1>4 DEF Fits
<1>8. (pc = "planned" \/ pc \in InHand =>
         (Automatic(job.cur) /\ job.cur.gen > 0 => Fits(job.cur, job.qty)))'
  <2> SUFFICES ASSUME pc' = "planned" \/ pc' \in InHand, Automatic(job'.cur), job'.cur.gen > 0
               PROVE  Fits(job.cur, job.qty)'
    BY DEF Automatic, InHand
  <2>1. job'.cur \in Ids /\ job'.qty \in Nat
    BY ConstantsAssumption DEF Inv, Typed, TypeOK, JobOK, Job, Qtys, Working, InHand
  <2> PICK i \in Ids : i = job'.cur
    BY <2>1
  <2> PICK n \in Nat : n = job'.qty
    BY <2>1
  <2>2. book'[Root(i)].n > 0 /\ Total(i)' + n <= book'[Root(i)].qty
    BY HandFits
  <2>3. Total(job.cur)' = Total(i)'
    BY DEF Total, Chain, Kin
  <2> QED BY <2>2, <2>3 DEF Fits, Root
<1> QED BY <1>5, <1>6, <1>7, <1>8 DEF Capped

\* A freshly created engine has no chains.
LEMMA InitCapped == Init => Rooted /\ Capped
<1> SUFFICES ASSUME Init PROVE Rooted /\ Capped
  OBVIOUS
<1>1. Rooted
  BY DEF Init, Rooted, NoRow, Unsent
<1>2. \A i \in Ids : Root(i) \in Ids /\ book[i].n = 0 /\ book[i].dealt <= book[i].qty
  BY KinIs DEF Init, NoBrokerOrder
<1>3. wire = {} /\ pc = "idle"
  BY DEF Init
<1> QED BY <1>1, <1>2, <1>3 DEF Capped, InHand

\* The retries of one automatic intent never buy or sell more than its first
\* attempt ordered, for any manifests that are one-sided: the plan counts
\* the attempts by the side of their rows.
THEOREM RetriesStayWithin == ASSUME OneSided PROVE Spec => []RetryWithinOriginal
<1>1. Inv /\ Inv' /\ Described /\ Sided /\ Rooted /\ Capped /\ [Next]_vars => (Rooted /\ Capped)'
  BY RootedNext, CappedNext
<1>2. Inv /\ Capped => RetryWithinOriginal
  <2> SUFFICES ASSUME Inv, Capped, NEW i \in Ids, i.gen = 0, i.acct # Paper,
                      \E m \in Manifests : m.sig = i.sig /\ m.auto, i \in Chain(i)
               PROVE  Total(i) <= book[i].qty
    BY DEF RetryWithinOriginal, Chain, Kin, Total, Most
  <2>1. Root(i) = i
    BY KinIs
  <2>2. Fits(i, 0)
    BY <2>1 DEF Capped, Automatic, Chain
  <2>3. Total(i) \in Int
    BY ChainInts DEF Inv, Typed
  <2> QED BY <2>1, <2>2, <2>3 DEF Fits
<1> QED BY InitCapped, InvHolds, DescribedHolds, SidedHolds, <1>1, <1>2, PTL DEF Spec
=============================================================================
