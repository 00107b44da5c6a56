-------------------------- MODULE PaperBook_proofs --------------------------
(***************************************************************************)
(* Proofs about PaperBook for every set of codes, prices, plans and routes: *)
(* first the batches and the ids of their fills, where the quantities an    *)
(* attempt computes do not matter; then the money, where they do.           *)
(***************************************************************************)
EXTENDS PaperBook, Sums, TLAPS

Open == {"computed", "cleared"}

\* Why a later attempt cannot repeat the fill f of batch b: its code is
\* processed, or its number is below the code's count; and it is no HOLD.
Recorded(f, b) ==
  /\ f.code \in b.processed \/ (b.route = "automatic" /\ f.n < b.count[f.code])
  /\ f.code \notin Holds(b.plan)

Wellformed(b) ==
  /\ b.status # "NONE"
  /\ b.processed \subseteq b.required /\ b.required \subseteq Codes
  /\ b.count \in [Codes -> Nat]

\* The inductive invariant, in four parts.
CalendarOK ==
  /\ day \in 0..MaxDay
  /\ phase # "closed" => day \in Days

TablesOK ==
  /\ batch = [d \in Days |-> batch[d]]
  /\ \A d \in Days : Known(d) => Wellformed(batch[d])
  /\ \A g \in fills : /\ g.day \in Days /\ g.code \in Codes /\ g.n \in Nat
                      /\ Known(g.day) /\ Recorded(g, batch[g.day])

JobOK ==
  pc \in Open =>
    /\ batch[day].status # "EXECUTED"
    /\ Wellformed(job.batch)
    /\ \A f \in job.fills : /\ f.day = day /\ f.code \in Codes /\ f.n \in Nat
                            /\ Recorded(f, job.batch)
                            /\ \A g \in fills : ~SameId(f, g)
    /\ \A g \in fills : g.day = day => Recorded(g, job.batch)

WorkerOK ==
  /\ pc # "idle" => worker /\ phase # "closed"
  /\ asked /\ pc = "computed" => haltEv \/ cancelEv

IInv == CalendarOK /\ TablesOK /\ JobOK /\ WorkerOK

\* The count of a code is a number: what the automatic batch recorded, or 0.
LEMMA CountNat ==
  ASSUME TablesOK, day \in Days, NEW route, NEW c \in Codes
  PROVE  Count(route, c) \in Nat
  BY DEF Count, TablesOK, Wellformed, Known

\* What an attempt may trade are codes of the account.
LEMMA RequiredCodes ==
  ASSUME TablesOK, day \in Days, NEW plan
  PROVE  Required(plan) \subseteq Codes
  BY DEF Required, Held, TablesOK, Wellformed

\* An attempt that may take up the day's batch leaves every earlier fill of
\* the day recorded in the batch it computes.
LEMMA EarlierRecorded ==
  ASSUME TablesOK, day \in Days, NEW route, NEW plan, NEW q, NEW after,
         Admissible(route, plan), NEW g \in fills, g.day = day
  PROVE  Recorded(g, NewBatch(route, plan, q, after))
<1> DEFINE b == NewBatch(route, plan, q, after)
<1>1. Known(day) /\ Wellformed(batch[day]) /\ Recorded(g, batch[day]) /\ g.code \in Codes
      /\ g.n \in Nat
  BY DEF TablesOK
<1>2. batch[day].plan = plan /\ (batch[day].route = "automatic" => route = "automatic")
  BY <1>1 DEF Admissible
<1>3. b.plan = plan /\ b.route = route
  BY DEF NewBatch
<1>4. CASE g.code \in batch[day].processed
  <2>1. g.code \in Required(plan) /\ g.code \notin Pending(plan)
    BY <1>1, <1>4 DEF Required, Pending, Wellformed
  <2>2. g.code \in b.processed
    BY <2>1 DEF NewBatch
  <2> QED BY <1>1, <1>2, <1>3, <2>2 DEF Recorded
<1>5. CASE batch[day].route = "automatic" /\ g.n < batch[day].count[g.code]
  <2>1. Count(route, g.code) = batch[day].count[g.code]
    BY <1>1, <1>2, <1>5 DEF Count
  <2>2. Count(route, g.code) \in Nat
    BY <1>1, CountNat
  <2>3. b.count[g.code] = Count(route, g.code) \/ b.count[g.code] = Count(route, g.code) + 1
    BY <1>1 DEF NewBatch
  <2>4. g.n < b.count[g.code]
    BY <1>1, <1>5, <2>1, <2>2, <2>3
  <2> QED BY <1>1, <1>2, <1>3, <1>5, <2>4 DEF Recorded
<1> QED BY <1>1, <1>4, <1>5 DEF Recorded

\* A fill computed by an attempt is recorded in its batch and has an id that
\* is not in the table.
LEMMA NewRecorded ==
  ASSUME TablesOK, day \in Days, NEW route, NEW plan, NEW q, NEW after,
         Admissible(route, plan), NEW f \in NewFills(route, plan, q, after)
  PROVE  /\ f.day = day /\ f.code \in Codes /\ f.n \in Nat
         /\ Recorded(f, NewBatch(route, plan, q, after))
         /\ \A g \in fills : ~SameId(f, g)
<1> DEFINE b == NewBatch(route, plan, q, after)
<1>1. PICK c \in Sized(plan, q) :
        /\ after[c] # qty[c]
        /\ f.day = day /\ f.code = c /\ f.n = Count(route, c)
  BY DEF NewFills
<1>2. c \in Codes /\ c \in Pending(plan)
  BY RequiredCodes DEF Sized, Pending
<1>3. Count(route, c) \in Nat
  BY <1>2, CountNat
<1>4. b.plan = plan /\ b.route = route
  BY DEF NewBatch
<1>5. c \notin Holds(plan)
  BY <1>2 DEF Pending
<1>6. ASSUME route # "automatic" PROVE Recorded(f, b)
  <2>1. c \in b.processed
    BY <1>1, <1>6 DEF NewBatch, Done
  <2> QED BY <1>1, <1>4, <1>5, <2>1 DEF Recorded
<1>7. ASSUME route = "automatic" PROVE Recorded(f, b)
  <2>1. b.count[c] = Count(route, c) + 1
    BY <1>1, <1>2, <1>7 DEF NewBatch
  <2> QED BY <1>1, <1>3, <1>4, <1>5, <1>7, <2>1 DEF Recorded
<1>8. ASSUME NEW g \in fills, SameId(f, g) PROVE FALSE
  <2>1. g.day = day /\ g.code = c /\ g.n = Count(route, c)
    BY <1>1, <1>8 DEF SameId
  <2>2. Known(day) /\ Recorded(g, batch[day])
    BY <2>1 DEF TablesOK
  <2>3. c \notin batch[day].processed
    BY <1>2, <2>2 DEF Pending
  <2>4. batch[day].route = "automatic" /\ g.n < batch[day].count[c]
    BY <2>1, <2>2, <2>3 DEF Recorded
  <2>5. g.n = batch[day].count[c]
    BY <2>1, <2>2, <2>4 DEF Count, Admissible
  <2> QED BY <1>3, <2>1, <2>4, <2>5
<1> QED BY <1>1, <1>2, <1>3, <1>6, <1>7, <1>8

\* The batch an attempt computes is well formed.
LEMMA NewWellformed ==
  ASSUME TablesOK, day \in Days, NEW route, NEW plan, NEW q, NEW after
  PROVE  Wellformed(NewBatch(route, plan, q, after))
<1> DEFINE b == NewBatch(route, plan, q, after)
<1>1. b.status # "NONE"
  BY DEF NewBatch
<1>2. b.processed \subseteq b.required
  BY DEF NewBatch, Done, Sized, Pending
<1>3. b.required \subseteq Codes
  BY RequiredCodes DEF NewBatch
<1>4. b.count \in [Codes -> Nat]
  BY CountNat DEF NewBatch
<1> QED BY <1>1, <1>2, <1>3, <1>4 DEF Wellformed

\* A new account (Engine.__init__ on an empty directory).
LEMMA InitIInv == Init => IInv
<1> SUFFICES ASSUME Init PROVE IInv
  OBVIOUS
<1>1. CalendarOK
  BY ConstantsAssumption DEF Init, CalendarOK
<1>2. TablesOK
  BY DEF Init, TablesOK, Known, NoBatch
<1> QED BY <1>1, <1>2 DEF Init, IInv, JobOK, WorkerOK, Open

\* An attempt that computed its trades (paper_rebalance up to its commit).
LEMMA AttemptIInv ==
  ASSUME IInv, NEW route \in Routes, NEW plan \in Plans, NEW q \in Quotes,
         Attempt(route, plan, q)
  PROVE  IInv'
<1> DEFINE after == Traded(route, plan, q)
           b == NewBatch(route, plan, q, after.qty)
           F == NewFills(route, plan, q, after.qty)
<1>1. TablesOK /\ day \in Days /\ Admissible(route, plan) /\ pc = "idle" /\ worker
  BY DEF IInv, CalendarOK, Attempt
<1>2. job' = [batch |-> b, quotes |-> q, cash |-> after.cash, qty |-> after.qty,
              fills |-> F]
  BY DEF Attempt
<1> HIDE DEF after, b, F
<1>3. job'.batch = b /\ job'.fills = F
  BY <1>2
<1>4. /\ UNCHANGED <<fills, batch, day, phase, worker, haltEv, cancelEv>>
      /\ pc' = "computed" /\ asked' = FALSE
  BY DEF Attempt, ledger, clock
<1>5. batch[day].status # "EXECUTED"
  BY <1>1 DEF Admissible, Known
<1>6. CalendarOK'
  BY <1>4 DEF IInv, CalendarOK
<1>7. TablesOK'
  BY <1>1, <1>4 DEF TablesOK, Known
<1>8. JobOK'
  <2>1. Wellformed(b)
    BY <1>1, NewWellformed DEF b
  <2>2. \A f \in F : /\ f.day = day /\ f.code \in Codes /\ f.n \in Nat
                     /\ Recorded(f, b) /\ \A g \in fills : ~SameId(f, g)
    BY <1>1, NewRecorded DEF F, b
  <2>3. \A g \in fills : g.day = day => Recorded(g, b)
    BY <1>1, EarlierRecorded DEF b
  <2> QED BY <1>3, <1>4, <1>5, <2>1, <2>2, <2>3 DEF JobOK
<1>9. WorkerOK'
  BY <1>1, <1>4 DEF IInv, WorkerOK, Attempt
<1> QED BY <1>6, <1>7, <1>8, <1>9 DEF IInv

\* The transaction (paper_rebalance's commit).
LEMMA CommitIInv == IInv /\ Commit => IInv'
<1> SUFFICES ASSUME IInv, Commit PROVE IInv'
  OBVIOUS
<1>1. pc = "cleared" /\ day \in Days /\ TablesOK /\ JobOK
  BY DEF IInv, Commit, CalendarOK, WorkerOK
<1>2. /\ fills' = fills \cup job.fills
      /\ batch' = [batch EXCEPT ![day] = job.batch]
      /\ pc' = "committed"
      /\ UNCHANGED <<day, phase, job, worker, asked, haltEv, cancelEv>>
  BY DEF Commit, clock, flags
<1>3. CalendarOK'
  BY <1>2 DEF IInv, CalendarOK
<1>4. TablesOK'
  <2>1. Wellformed(job.batch) /\ job.batch.status # "NONE"
    BY <1>1 DEF JobOK, Open, Wellformed
  <2>2. batch' = [d \in Days |-> IF d = day THEN job.batch ELSE batch[d]]
    BY <1>1, <1>2 DEF TablesOK
  <2>3. batch'[day] = job.batch /\ \A d \in Days : d # day => batch'[d] = batch[d]
    BY <1>1, <2>2
  <2>4. \A d \in Days : Known(d)' => Wellformed(batch'[d])
    BY <1>1, <2>1, <2>3 DEF TablesOK, Known
  <2>5. ASSUME NEW g \in fills'
        PROVE  /\ g.day \in Days /\ g.code \in Codes /\ g.n \in Nat
               /\ Known(g.day)' /\ Recorded(g, batch'[g.day])
    <3>1. CASE g \in job.fills
      BY <1>1, <2>1, <2>3, <3>1 DEF JobOK, Open, Known
    <3>2. CASE g \in fills
      <4>1. CASE g.day = day
        BY <1>1, <2>1, <2>3, <3>2, <4>1 DEF JobOK, Open, Known, TablesOK
      <4>2. CASE g.day # day
        BY <1>1, <2>3, <3>2, <4>2 DEF Known, TablesOK
      <4> QED BY <4>1, <4>2
    <3> QED BY <1>2, <3>1, <3>2
  <2> QED BY <2>2, <2>4, <2>5 DEF TablesOK
<1>5. JobOK' /\ WorkerOK'
  BY <1>1, <1>2 DEF JobOK, WorkerOK, IInv, Open
<1> QED BY <1>3, <1>4, <1>5 DEF IInv

\* The steps that end an attempt, move the calendar or value the book leave
\* the tables alone.
LEMMA CalendarIInv ==
  ASSUME IInv,
         \/ GiveUp \/ Clear \/ AttemptMarks \/ NextDay \/ WindowEnds \/ SessionEnds
         \/ \E q \in Quotes : MarkBook(q)
         \/ \E d \in 0..MaxDay, q \in Quotes : RecordClose(d, q)
  PROVE  IInv'
<1> USE DEF CalendarOK, WorkerOK, JobOK, Open
<1>1. fills' = fills /\ batch' = batch
  BY DEF GiveUp, Clear, AttemptMarks, NextDay, WindowEnds, SessionEnds, MarkBook,
         RecordClose, ledger
<1>2. TablesOK'
  BY <1>1 DEF IInv, TablesOK, Known
<1>3. CASE GiveUp \/ AttemptMarks
  BY <1>1, <1>2, <1>3 DEF IInv, GiveUp, AttemptMarks, clock, flags
<1>4. CASE Clear
  BY <1>1, <1>2, <1>4 DEF IInv, Clear, clock, flags
<1>5. CASE NextDay
  <2>1. pc = "idle"
    BY <1>5 DEF NextDay, IInv
  <2>2. day' \in Days /\ day' \in 0..MaxDay
    BY <1>5, ConstantsAssumption DEF NextDay, IInv, Days
  <2> QED BY <1>1, <1>2, <1>5, <2>1, <2>2 DEF IInv, NextDay, flags
<1>6. CASE WindowEnds \/ SessionEnds
  BY <1>1, <1>2, <1>6 DEF IInv, WindowEnds, SessionEnds, flags
<1>7. CASE \/ \E q \in Quotes : MarkBook(q)
           \/ \E d \in 0..MaxDay, q \in Quotes : RecordClose(d, q)
  BY <1>1, <1>2, <1>7 DEF IInv, MarkBook, RecordClose, clock, flags
<1> QED BY <1>3, <1>4, <1>5, <1>6, <1>7

\* The operator's requests and a restart leave the tables alone.
LEMMA OperatorIInv ==
  ASSUME IInv, Start \/ Stop \/ Halt \/ HaltLatch \/ WorkerEnds \/ Reboot
  PROVE  IInv'
<1> USE DEF CalendarOK, WorkerOK, JobOK, Open, IInv, ledger, clock, flags
<1>1. TablesOK'
  BY DEF TablesOK, Known, Start, Stop, Halt, HaltLatch, WorkerEnds, Reboot
<1>2. CASE Start
  BY <1>1, <1>2 DEF Start
<1>3. CASE Stop \/ Halt \/ HaltLatch
  BY <1>1, <1>3 DEF Stop, Halt, HaltLatch
<1>4. CASE WorkerEnds \/ Reboot
  BY <1>1, <1>4 DEF WorkerEnds, Reboot
<1> QED BY <1>2, <1>3, <1>4

\* Every step keeps the invariant.
LEMMA StepIInv == IInv /\ [Next]_vars => IInv'
<1> SUFFICES ASSUME IInv, [Next]_vars PROVE IInv'
  OBVIOUS
<1>1. CASE \E route \in Routes, plan \in Plans, q \in Quotes : Attempt(route, plan, q)
  BY <1>1, AttemptIInv
<1>2. CASE Commit
  BY <1>2, CommitIInv
<1>3. CASE UNCHANGED vars
  BY <1>3 DEF vars, ledger, clock, flags, IInv, CalendarOK, TablesOK, JobOK, WorkerOK,
              Known
<1> QED BY <1>1, <1>2, <1>3, CalendarIInv, OperatorIInv DEF Next

\* The invariant holds in every reachable state.
LEMMA Invariance == Spec => []IInv
  BY InitIInv, StepIInv, PTL DEF Spec

-----------------------------------------------------------------------------
(* The theorems. *)

\* No attempt that passed its checks repeats a fill id of the table, however
\* often the batch was resumed (orders' primary key, ":remainder:" numbers).
THEOREM FillIdsAreFresh == Spec => []FreshIds
<1>1. IInv => FreshIds
  BY DEF IInv, JobOK, Open, FreshIds
<1> QED BY <1>1, Invariance, PTL

\* No fill of a batch is of a code its frozen plan holds in exact units
\* (exact_hold_units).
THEOREM ExactHoldsAreKept == Spec => []HoldsKept
<1>1. IInv => HoldsKept
  BY DEF IInv, TablesOK, Recorded, HoldsKept
<1> QED BY <1>1, Invariance, PTL

\* An EXECUTED batch and its day's fills never change again
\* (paper_rebalance's early return, its transaction and restarts).
THEOREM FinishedBatchIsFinal == Spec => ExecutedIsFinal
<1> DEFINE Final == \A d \in Days : Known(d) /\ batch[d].status = "EXECUTED" =>
                      /\ batch'[d] = batch[d]
                      /\ {f \in fills' : f.day = d} = {f \in fills : f.day = d}
<1>1. IInv /\ [Next]_vars => [Final]_vars
  <2> SUFFICES ASSUME IInv, Next PROVE Final
    BY DEF vars
  <2>1. CASE Commit
    <3>1. /\ batch' = [batch EXCEPT ![day] = job.batch]
          /\ fills' = fills \cup job.fills
          /\ batch[day].status # "EXECUTED" /\ \A f \in job.fills : f.day = day
      BY <2>1 DEF Commit, IInv, JobOK, Open
    <3>2. \A d \in Days : d # day => batch'[d] = batch[d]
      BY <3>1 DEF IInv, TablesOK
    <3> QED BY <3>1, <3>2
  <2>2. CASE ~Commit
    <3>1. fills' = fills /\ batch' = batch
      BY <2>2 DEF Next, Attempt, GiveUp, Clear, AttemptMarks, MarkBook, RecordClose,
                  NextDay, WindowEnds, SessionEnds, Start, Stop, Halt, HaltLatch,
                  WorkerEnds, Reboot, ledger
    <3> QED BY <3>1
  <2> QED BY <2>1, <2>2
<1> QED BY <1>1, Invariance, PTL DEF Spec, ExecutedIsFinal

\* An attempt never passes its last check after a stop or a halt was asked,
\* whatever is started meanwhile (cancel_step, Cohort.start).
THEOREM StopIsHonoured == Spec => StopHonoured
<1> DEFINE Honoured == asked => ~(pc # "cleared" /\ pc' = "cleared")
<1>1. IInv /\ [Next]_vars => [Honoured]_vars
  <2> SUFFICES ASSUME IInv, Next, asked, pc # "cleared", pc' = "cleared" PROVE FALSE
    OBVIOUS
  <2>1. Clear
    BY DEF Next, Attempt, GiveUp, Commit, AttemptMarks, MarkBook, RecordClose, NextDay,
           WindowEnds, SessionEnds, Start, Stop, Halt, HaltLatch, WorkerEnds, Reboot
  <2> QED BY <2>1 DEF Clear, IInv, WorkerOK
<1> QED BY <1>1, Invariance, PTL DEF Spec, StopHonoured

\* The marks of the codes, each as old as an integer says.
Marks == mark = [c \in Codes |-> mark[c]] /\ \A c \in Codes : mark[c].at \in Int

\* A mark is replaced by an observation that is not older, if at all.
LEMMA MarkedAdvances ==
  ASSUME Marks, NEW q, NEW at \in Int, mark' = Marked(q, at)
  PROVE  Marks' /\ \A c \in Codes : mark'[c].at >= mark[c].at
<1>1. ASSUME NEW c \in Codes
      PROVE  mark'[c].at \in Int /\ mark'[c].at >= mark[c].at
  <2>1. mark[c].at \in Int
    BY DEF Marks
  <2>2. CASE c \in Held /\ q[c] # NoPrice /\ at >= mark[c].at
    <3>1. mark'[c].at = at
      BY <2>2 DEF Marked
    <3> QED BY <2>2, <3>1
  <2>3. CASE ~(c \in Held /\ q[c] # NoPrice /\ at >= mark[c].at)
    <3>1. mark'[c] = mark[c]
      BY <2>3 DEF Marked
    <3> QED BY <2>1, <3>1
  <2> QED BY <2>2, <2>3
<1>2. mark' = [c \in Codes |-> mark'[c]]
  BY DEF Marked
<1> QED BY <1>1, <1>2 DEF Marks

\* Every step keeps the marks or observes anew.
LEMMA StepMarks ==
  ASSUME Marks, day \in 0..MaxDay, [Next]_vars
  PROVE  Marks' /\ \A c \in Codes : mark'[c].at >= mark[c].at
<1>1. CASE AttemptMarks \/ \E q \in Quotes : MarkBook(q)
  <2>1. PICK q : mark' = Marked(q, 2 * day)
    BY <1>1 DEF AttemptMarks, MarkBook, MarkLive
  <2> QED BY <2>1, MarkedAdvances
<1>2. CASE \E d \in 0..MaxDay, q \in Quotes : RecordClose(d, q)
  <2>1. PICK d \in 0..MaxDay, q \in Quotes : mark' = Marked(q, 2 * d + 1)
    BY <1>2 DEF RecordClose
  <2> QED BY <2>1, MarkedAdvances
<1>3. CASE mark' = mark
  BY <1>3 DEF Marks
<1>4. mark' = mark \/ AttemptMarks \/ (\E q \in Quotes : MarkBook(q))
      \/ (\E d \in 0..MaxDay, q \in Quotes : RecordClose(d, q))
  BY DEF Next, Attempt, GiveUp, Clear, Commit, NextDay, WindowEnds, SessionEnds, Start,
         Stop, Halt, HaltLatch, WorkerEnds, Reboot, vars, views
<1> QED BY <1>1, <1>2, <1>3, <1>4

\* A recorded mark never becomes older, late closes and restarts included
\* (paper_mark).
THEOREM MarksNeverGoBack == Spec => MarksAdvance
<1>1. Init => Marks
  BY DEF Init, Marks
<1>2. IInv => day \in 0..MaxDay
  BY DEF IInv, CalendarOK
<1> DEFINE Advance == \A c \in Codes : mark'[c].at >= mark[c].at
<1>3. Marks /\ IInv /\ [Next]_vars => Marks' /\ [Advance]_vars
  BY <1>2, StepMarks
<1> QED BY <1>1, <1>3, Invariance, PTL DEF Spec, MarksAdvance

-----------------------------------------------------------------------------
(* Arithmetic, and the purchase that comes last.                            *)

\* A quotient does not exceed what it divides.
LEMMA Quotient ==
  ASSUME NEW a \in Nat, NEW d \in Nat \ {0}
  PROVE  a \div d \in Nat /\ (a \div d) * d <= a
OBVIOUS

LEMMA Times == ASSUME NEW a \in Nat, NEW b \in Nat PROVE a * b \in Nat
OBVIOUS

\* A purchase cut to the cash can be paid, its fee included.
LEMMA AffordablePays ==
  ASSUME NEW money \in Nat, NEW price \in Nat \ {0}, NEW n \in Nat,
         NEW k, k = Min({n, Affordable(money, price)})
  PROVE  k \in 0..n /\ k * price * (Unit + Fee) \in 0..money
<1> DEFINE m == Affordable(money, price)
           d == price * (Unit + Fee)
<1>1. d \in Nat \ {0} /\ Unit + Fee = 2001
  BY DEF Unit, Fee
<1>2. m \in Nat /\ m * d <= money
  BY <1>1, Quotient DEF Affordable
<1> HIDE DEF m
<1>3. k \in {n, m} /\ k <= n /\ k <= m
  BY <1>2 DEF Min, m
<1>4. k \in Nat
  BY <1>2, <1>3
<1> HIDE DEF d
<1>5. k * d \in Nat /\ k * d <= m * d
  BY <1>1, <1>2, <1>3, <1>4
<1>6. k * d <= money
  <2>1. m * d \in Nat
    BY <1>1, <1>2
  <2> QED
    BY <1>2, <1>5, <2>1
<1>7. k * price * (Unit + Fee) = k * d
  BY <1>1, <1>4 DEF d
<1> QED
  BY <1>3, <1>4, <1>5, <1>6, <1>7

\* Of some codes one is bought last.
LEMMA LightestInside ==
  ASSUME NEW S, IsFiniteSet(S), S # {}, S \subseteq Codes, NEW plan \in Plans
  PROVE  Lightest(plan, S) \in S
<1> DEFINE Before(d, c) == plan.w[d] > plan.w[c] \/ (plan.w[d] = plan.w[c] /\ d < c)
           Last(T, c) == c \in T /\ \A d \in T \ {c} : Before(d, c)
           G == {T \in SUBSET S : T = {} \/ \E c \in T : Last(T, c)}
<1>0. \A c \in S : c \in Int /\ plan.w[c] \in Int
  BY ConstantsAssumption DEF PlanType
<1>1. \A c, d \in S : c # d => Before(c, d) \/ Before(d, c)
  BY <1>0
<1>2. \A b, c, d \in S : Before(b, c) /\ Before(c, d) => Before(b, d)
  BY <1>0
<1>3. {} \in G
  OBVIOUS
<1>4. ASSUME NEW T \in G, NEW x \in S \ T PROVE T \cup {x} \in G
  <2> HIDE DEF Before
  <2>1. CASE T = {}
    <3>1. Last(T \cup {x}, x)
      BY <2>1
    <3> QED
      BY <1>4, <3>1
  <2>2. CASE T # {}
    <3>1. PICK c \in T : Last(T, c)
      BY <1>4, <2>2
    <3>2. CASE Before(x, c)
      <4>1. Last(T \cup {x}, c)
        BY <3>1, <3>2
      <4> QED
        BY <1>4, <3>1, <4>1
    <3>3. CASE Before(c, x)
      <4>1. Last(T \cup {x}, x)
        BY <1>2, <1>4, <3>1, <3>3
      <4> QED
        BY <1>4, <4>1
    <3> QED
      BY <1>1, <1>4, <3>1, <3>2, <3>3
  <2> QED
    BY <2>1, <2>2
<1>5. S \in G
  <2> HIDE DEF G
  <2> QED
    BY <1>3, <1>4, SetInduction DEF G
<1> QED
  BY <1>5 DEF Lightest

-----------------------------------------------------------------------------
(* The purchases, one after the other.                                      *)

Book == [cash : Nat, qty : [Codes -> Nat]]

\* What the purchases of the codes s made of the book b0: book b.
Spent(b, b0, q, s) == [c \in s |-> (b.qty[c] - b0.qty[c]) * q[c] * (Unit + Fee)]
Fair(b, b0, n, q, s) ==
  /\ b \in Book
  /\ \A c \in s : b0.qty[c] <= b.qty[c] /\ b.qty[c] <= b0.qty[c] + n[c]
  /\ \A c \in Codes \ s : b.qty[c] = b0.qty[c]
  /\ b.cash = b0.cash - SumFunctionOnSet(Spent(b, b0, q, s), s)

\* The next purchase, from a book in which the codes s are bought.
LEMMA BuyIsFair ==
  ASSUME NEW s, IsFiniteSet(s), s \subseteq Codes, NEW c \in Codes \ s,
         NEW b0 \in Book, NEW n, NEW q, n[c] \in Nat, q[c] \in Nat \ {0},
         \A d \in s : q[d] \in Nat,
         NEW b, Fair(b, b0, n, q, s)
  PROVE  Fair(Buy(b, c, n[c], q[c]), b0, n, q, s \cup {c})
<1> DEFINE k == Min({n[c], Affordable(b.cash, q[c])})
           x == Buy(b, c, n[c], q[c])
           paid == k * q[c] * (Unit + Fee)
           old == Spent(b, b0, q, s)
           new == Spent(x, b0, q, s \cup {c})
<1>1. b \in Book /\ b.cash \in Nat /\ b.qty \in [Codes -> Nat] /\ b0.qty \in [Codes -> Nat]
      /\ b0.cash \in Nat
  BY DEF Fair, Book
<1>2. k \in 0..n[c] /\ paid \in 0..b.cash
  BY <1>1, AffordablePays
<1>3. x = [cash |-> b.cash - paid, qty |-> [b.qty EXCEPT ![c] = @ + k]]
  BY DEF Buy
<1> HIDE DEF k, x
<1>4. /\ x.cash = b.cash - paid /\ x.qty = [b.qty EXCEPT ![c] = @ + k]
      /\ x.qty[c] = b.qty[c] + k /\ \A d \in Codes \ {c} : x.qty[d] = b.qty[d]
  BY <1>1, <1>3
<1>5. x \in Book
  <2>1. b.cash - paid \in Nat
    BY <1>1, <1>2
  <2>2. [b.qty EXCEPT ![c] = @ + k] \in [Codes -> Nat]
    BY <1>1, <1>2
  <2> HIDE DEF paid
  <2> QED
    BY <1>3, <2>1, <2>2 DEF Book
<1>6. b.qty[c] = b0.qty[c] /\ b.qty[c] \in Nat
  BY <1>1 DEF Fair
<1>7. new[c] = paid
  <2>1. x.qty[c] - b0.qty[c] = k
    BY <1>2, <1>4, <1>6
  <2> QED
    BY <2>1 DEF Spent
<1>8. \A d \in s : new[d] = old[d]
  BY <1>4 DEF Spent
<1>9. \A d \in s : old[d] \in Int
  <2> TAKE d \in s
  <2>1. b.qty[d] \in Int /\ b0.qty[d] \in Int /\ q[d] \in Int
    BY <1>1
  <2>2. (b.qty[d] - b0.qty[d]) * q[d] * (Unit + Fee) \in Int
    BY <2>1 DEF Unit, Fee
  <2> QED
    BY <2>2 DEF Spent
<1>10. paid \in Int
  BY <1>2
<1> HIDE DEF new, old, paid
<1>11. SumFunctionOnSet(new, s \cup {c}) = paid + SumFunctionOnSet(old, s)
  <2>1. Ints(new, s \cup {c}) /\ Ints(new, s)
    BY <1>7, <1>8, <1>9, <1>10 DEF Ints
  <2>2. SumFunctionOnSet(new, s \cup {c}) = new[c] + SumFunctionOnSet(new, s)
    BY <2>1, SumAdd
  <2>3. SumFunctionOnSet(new, s) = SumFunctionOnSet(old, s)
    BY <1>8, <2>1, SumSame
  <2> QED
    BY <1>7, <2>2, <2>3
<1>12. SumFunctionOnSet(old, s) \in Int
  BY <1>9, SumType DEF Ints
<1>13. x.cash = b0.cash - SumFunctionOnSet(new, s \cup {c})
  <2>1. b.cash = b0.cash - SumFunctionOnSet(old, s)
    BY DEF Fair, old
  <2> QED
    BY <1>1, <1>4, <1>10, <1>11, <1>12, <2>1
<1>14. \A d \in s \cup {c} : b0.qty[d] <= x.qty[d] /\ x.qty[d] <= b0.qty[d] + n[d]
  <2>1. b0.qty[c] <= x.qty[c] /\ x.qty[c] <= b0.qty[c] + n[c]
    BY <1>2, <1>4, <1>6
  <2>2. \A d \in s : x.qty[d] = b.qty[d]
    BY <1>4
  <2> QED
    BY <2>1, <2>2 DEF Fair
<1>15. \A d \in Codes \ (s \cup {c}) : x.qty[d] = b0.qty[d]
  BY <1>4 DEF Fair
<1> QED
  BY <1>5, <1>13, <1>14, <1>15 DEF Fair, x, new

\* Shops(g, ...): g[s] is the book after the purchases of the codes s.
Shops(g, plan, n, q, b0, S) ==
  g = [s \in SUBSET S |->
         IF s = {} THEN b0
         ELSE Buy(g[s \ {Lightest(plan, s)}], Lightest(plan, s),
                  n[Lightest(plan, s)], q[Lightest(plan, s)])]

\* A function that is right wherever the book before is a book is right.
LEMMA ShoppingIsFair ==
  ASSUME NEW S, IsFiniteSet(S), S \subseteq Codes, NEW plan \in Plans, NEW b0 \in Book,
         NEW n, NEW q, \A c \in S : n[c] \in Nat /\ q[c] \in Nat \ {0},
         NEW g, g[{}] = b0,
         \A s \in SUBSET S : LET c == Lightest(plan, s)
                             IN  s # {} /\ g[s \ {c}] \in Book =>
                                   g[s] = Buy(g[s \ {c}], c, n[c], q[c])
  PROVE  \A s \in SUBSET S : Fair(g[s], b0, n, q, s)
<1> DEFINE B == {s \in SUBSET S : ~Fair(g[s], b0, n, q, s)}
<1> SUFFICES ASSUME B # {} PROVE FALSE
  OBVIOUS
<1>1. PICK s \in B : \A u \in B : u \subseteq s => u = s
  <2>1. B \in SUBSET (SUBSET S)
    OBVIOUS
  <2> HIDE DEF B
  <2> QED
    BY <2>1, SmallestSubset
<1> DEFINE c == Lightest(plan, s)
           t == s \ {c}
<1>2. s # {}
  <2>1. SumFunctionOnSet(Spent(b0, b0, q, {}), {}) = 0
    BY SumEmpty
  <2>2. b0.cash \in Nat /\ b0.qty \in [Codes -> Nat]
    BY DEF Book
  <2>3. Fair(g[{}], b0, n, q, {})
    BY <2>1, <2>2 DEF Fair
  <2> QED
    BY <1>1, <2>3
<1>3. IsFiniteSet(s) /\ s \subseteq Codes
  BY <1>1, FS_Subset
<1>4. c \in s
  BY <1>2, <1>3, LightestInside
<1> HIDE DEF c
<1>5. t \in SUBSET S /\ IsFiniteSet(t) /\ t \cup {c} = s /\ c \in Codes \ t
  BY <1>1, <1>3, <1>4, FS_Subset
<1>6. Fair(g[t], b0, n, q, t)
  BY <1>1, <1>4, <1>5
<1>7. g[s] = Buy(g[t], c, n[c], q[c])
  BY <1>1, <1>2, <1>6 DEF Fair, c
<1> HIDE DEF t
<1>8. Fair(Buy(g[t], c, n[c], q[c]), b0, n, q, t \cup {c})
  <2>1. n[c] \in Nat /\ q[c] \in Nat \ {0} /\ t \subseteq Codes /\ \A d \in t : q[d] \in Nat
    BY <1>1, <1>4, <1>5
  <2> QED
    BY <1>5, <1>6, <2>1, BuyIsFair
<1> QED
  BY <1>1, <1>5, <1>7, <1>8

LEMMA ShoppingExists ==
  ASSUME NEW S, IsFiniteSet(S), S \subseteq Codes, NEW plan \in Plans, NEW b0 \in Book,
         NEW n, NEW q, \A c \in S : n[c] \in Nat /\ q[c] \in Nat \ {0}
  PROVE  \E g : Shops(g, plan, n, q, b0, S)
<1> DEFINE step == [p \in S \X Book |-> Buy(p[2], p[1], n[p[1]], q[p[1]])]
           one == [s \in SUBSET S |-> Lightest(plan, s)]
<1>1. \A s \in SUBSET S : s # {} => Lightest(plan, s) \in s
  BY FS_Subset, LightestInside
<1>2. PICK g : Folds(g, step, one, b0, S)
  <2>1. \A s \in SUBSET S : s # {} => one[s] \in s
    BY <1>1
  <2> HIDE DEF one, step
  <2> QED
    BY <2>1, FoldExists
<1>3. \A s \in SUBSET S : g[s] = IF s = {} THEN b0
                          ELSE step[<<Lightest(plan, s), g[s \ {Lightest(plan, s)}]>>]
  <2> HIDE DEF step
  <2> QED
    BY <1>2 DEF Folds
<1>4. ASSUME NEW s \in SUBSET S, s # {}, g[s \ {Lightest(plan, s)}] \in Book
      PROVE  g[s] = Buy(g[s \ {Lightest(plan, s)}], Lightest(plan, s),
                        n[Lightest(plan, s)], q[Lightest(plan, s)])
  <2> DEFINE c == Lightest(plan, s)
             b == g[s \ {c}]
  <2>1. c \in S /\ b \in Book
    BY <1>1, <1>4
  <2>2. g[s] = step[<<c, b>>]
    <3> HIDE DEF step
    <3> QED
      BY <1>3, <1>4
  <2> HIDE DEF c, b
  <2>3. step[<<c, b>>] = Buy(b, c, n[c], q[c])
    BY <2>1
  <2> HIDE DEF step
  <2> QED
    BY <2>2, <2>3 DEF c, b
<1>5. g[{}] = b0
  BY <1>3
<1>6. \A s \in SUBSET S : Fair(g[s], b0, n, q, s)
  <2> HIDE DEF step, one
  <2> QED
    BY <1>4, <1>5, ShoppingIsFair
<1>7. \A s \in SUBSET S : s # {} => g[s \ {Lightest(plan, s)}] \in Book
  BY <1>6 DEF Fair
<1>8. g = [s \in SUBSET S |-> g[s]]
  <2> HIDE DEF step, one
  <2> QED
    BY <1>2 DEF Folds
<1> HIDE DEF step, one
<1> QED
  BY <1>4, <1>5, <1>7, <1>8 DEF Shops

\* What an attempt finds.
Ready ==
  /\ cash \in Nat /\ qty \in [Codes -> Nat] /\ mark \in [Codes -> Mark]
  /\ Known(day) => batch[day] \in Batch

\* The sizing basis is a sum of money, if there is one.
LEMMA EquityNat ==
  ASSUME Ready, NEW q \in Quotes
  PROVE  Equity(q) \in Nat \cup {None}
<1> DEFINE price(c) == IF q[c] # NoPrice THEN q[c] ELSE mark[c].price
           value == [c \in Held |-> qty[c] * price(c) * Unit]
<1>1. CASE Known(day) /\ batch[day].equity # None
  BY <1>1 DEF Equity, Ready, Batch
<1>2. CASE ~(Known(day) /\ batch[day].equity # None) /\ \A c \in Held : price(c) # NoPrice
  <2>1. \A c \in Held : qty[c] \in Nat /\ price(c) \in Nat
    <3>1. \A p \in Prices \cup {NoPrice} : p \in Nat
      BY ConstantsAssumption DEF NoPrice
    <3>2. \A c \in Codes : /\ qty[c] \in Nat /\ q[c] \in Prices \cup {NoPrice}
                           /\ mark[c] \in Mark
      BY ConstantsAssumption DEF Ready
    <3>3. \A m \in Mark : m.price \in Prices \cup {NoPrice}
      BY DEF Mark
    <3> HIDE DEF NoPrice
    <3> QED
      BY <3>1, <3>2, <3>3 DEF Held
  <2>2. \A c \in Held : value[c] \in Nat
    BY <2>1 DEF Unit
  <2>3. IsFiniteSet(Held)
    BY ConstantsAssumption, FS_Subset DEF Held
  <2>4. SumFunctionOnSet(value, Held) \in Nat
    <3> HIDE DEF value
    <3> QED
      BY <2>2, <2>3, SumNat
  <2>5. Equity(q) = cash + SumFunctionOnSet(value, Held)
    BY <1>2 DEF Equity
  <2> HIDE DEF value
  <2> QED
    BY <2>4, <2>5 DEF Ready
<1>3. CASE ~(Known(day) /\ batch[day].equity # None) /\ ~\A c \in Held : price(c) # NoPrice
  BY <1>3 DEF Equity
<1> QED
  BY <1>1, <1>2, <1>3

\* A code is sized once, and at a price that qualified.
LEMMA SizedCodes ==
  ASSUME Ready, NEW plan \in Plans, NEW q \in Quotes
  PROVE  /\ Sized(plan, q) \subseteq Codes /\ IsFiniteSet(Sized(plan, q))
         /\ \A c \in Sized(plan, q) :
              /\ q[c] \in Prices /\ q[c] \in Nat \ {0}
              /\ c \in Pending(plan) /\ c \in Required(plan)
              /\ Known(day) => c \notin batch[day].processed
<1>1. Required(plan) \subseteq Codes
  BY DEF Required, Held, Ready, Batch
<1>2. \A c \in Sized(plan, q) : c \in Pending(plan) /\ q[c] # NoPrice
  BY DEF Sized
<1>3. Pending(plan) \subseteq Required(plan)
      /\ \A c \in Pending(plan) : Known(day) => c \notin batch[day].processed
  BY DEF Pending
<1>4. Sized(plan, q) \subseteq Codes
  BY <1>1, <1>2, <1>3
<1>5. \A c \in Codes : q[c] # NoPrice => q[c] \in Prices /\ q[c] \in Nat \ {0}
  BY ConstantsAssumption
<1>6. IsFiniteSet(Sized(plan, q))
  BY <1>4, ConstantsAssumption, FS_Subset
<1> QED
  BY <1>2, <1>3, <1>4, <1>5, <1>6

\* A code that is sized has a number of shares as its target.
LEMMA TargetNat ==
  ASSUME Ready, NEW route, NEW plan \in Plans, NEW q \in Quotes, NEW c \in Sized(plan, q)
  PROVE  Target(route, plan, q, c) \in Nat
<1>1. c \in Codes /\ q[c] \in Nat \ {0}
  BY SizedCodes
<1>2. CASE route = "automatic" /\ Known(day) /\ batch[day].target[c] # None
  BY <1>1, <1>2 DEF Target, Ready, Batch
<1>3. CASE ~(route = "automatic" /\ Known(day) /\ batch[day].target[c] # None)
           /\ plan.w[c] = 0
  BY <1>3 DEF Target
<1>4. CASE ~(route = "automatic" /\ Known(day) /\ batch[day].target[c] # None)
           /\ plan.w[c] # 0
  <2>1. Equity(q) \in Nat
    BY <1>4, EquityNat DEF Sized
  <2>2. plan.w[c] \in Nat
    BY <1>1, ConstantsAssumption DEF PlanType
  <2>3. plan.w[c] * Equity(q) \in Nat
    BY <2>1, <2>2
  <2>4. Parts * Unit * q[c] \in Nat \ {0}
    BY <1>1, ConstantsAssumption DEF Unit
  <2>5. Target(route, plan, q, c) = (plan.w[c] * Equity(q)) \div (Parts * Unit * q[c])
    BY <1>4 DEF Target
  <2> QED
    BY <2>3, <2>4, <2>5, Quotient
<1> QED
  BY <1>2, <1>3, <1>4

Sales(route, plan, q) == {c \in Sized(plan, q) : Target(route, plan, q, c) < qty[c]}
Buys(route, plan, q)  == {c \in Sized(plan, q) : Target(route, plan, q, c) > qty[c]}
\* What a sale brings, its fee paid.
Proceeds(route, plan, q) ==
  [c \in Sales(route, plan, q) |->
     (qty[c] - Target(route, plan, q, c)) * q[c] * (Unit - Fee)]

\* The book after the sales.
LEMMA SoldBook ==
  ASSUME Ready, NEW route, NEW plan \in Plans, NEW q \in Quotes
  PROVE  LET sold == Sold(route, plan, q)
             sales == Sales(route, plan, q)
             pro == Proceeds(route, plan, q)
         IN  /\ sold \in Book /\ IsFiniteSet(sales) /\ sales \subseteq Codes
             /\ \A c \in sales : pro[c] \in Nat
             /\ sold.cash = cash + SumFunctionOnSet(pro, sales)
             /\ \A c \in sales : sold.qty[c] = Target(route, plan, q, c)
             /\ \A c \in Codes \ sales : sold.qty[c] = qty[c]
<1> DEFINE sold == Sold(route, plan, q)
           sales == Sales(route, plan, q)
           pro == Proceeds(route, plan, q)
<1>1. IsFiniteSet(sales) /\ sales \subseteq Codes
  BY SizedCodes, FS_Subset DEF Sales
<1>2. \A c \in sales : /\ Target(route, plan, q, c) \in Nat /\ q[c] \in Nat
                       /\ qty[c] \in Nat /\ Target(route, plan, q, c) < qty[c]
  BY <1>1, SizedCodes, TargetNat DEF Sales, Ready
<1>3. \A c \in sales : pro[c] \in Nat
  <2> TAKE c \in sales
  <2>1. qty[c] - Target(route, plan, q, c) \in Nat /\ Unit - Fee \in Nat /\ q[c] \in Nat
    BY <1>2 DEF Unit, Fee
  <2>2. (qty[c] - Target(route, plan, q, c)) * q[c] \in Nat
    BY <2>1, Times
  <2>3. (qty[c] - Target(route, plan, q, c)) * q[c] * (Unit - Fee) \in Nat
    BY <2>1, <2>2, Times
  <2> QED
    BY <2>3 DEF Proceeds
<1>4. sold = [cash |-> cash + SumFunctionOnSet(pro, sales),
              qty |-> [c \in Codes |-> IF c \in sales THEN Target(route, plan, q, c)
                                       ELSE qty[c]]]
  BY DEF Sold, Sales, Proceeds
<1> HIDE DEF pro, sales, sold
<1>5. SumFunctionOnSet(pro, sales) \in Nat
  BY <1>1, <1>3, SumNat
<1>6. cash + SumFunctionOnSet(pro, sales) \in Nat
  BY <1>5 DEF Ready
<1>7. [c \in Codes |-> IF c \in sales THEN Target(route, plan, q, c) ELSE qty[c]]
        \in [Codes -> Nat]
  BY <1>2 DEF Ready
<1>8. sold \in Book
  BY <1>4, <1>6, <1>7 DEF Book
<1> QED
  BY <1>1, <1>3, <1>4, <1>8 DEF sold, sales, pro

\* How many shares more than it holds a code is to have.
More(route, plan, q) == [c \in Buys(route, plan, q) |-> Target(route, plan, q, c) - qty[c]]

\* The trades of an attempt are the sales, then the purchases as far as the cash goes.
LEMMA TradedFair ==
  ASSUME Ready, NEW route, NEW plan \in Plans, NEW q \in Quotes
  PROVE  Fair(Traded(route, plan, q), Sold(route, plan, q), More(route, plan, q), q,
              Buys(route, plan, q))
<1> DEFINE S == Buys(route, plan, q)
           n == More(route, plan, q)
           b0 == Sold(route, plan, q)
           P(g) == g = [s \in SUBSET S |->
                          IF s = {} THEN b0
                          ELSE Buy(g[s \ {Lightest(plan, s)}], Lightest(plan, s),
                                   Target(route, plan, q, Lightest(plan, s))
                                     - qty[Lightest(plan, s)],
                                   q[Lightest(plan, s)])]
<1>1. Traded(route, plan, q) = (CHOOSE g : P(g))[S]
  BY DEF Traded, MapThenFoldSet, Buys
<1>2. IsFiniteSet(S) /\ S \subseteq Codes /\ b0 \in Book
  BY SizedCodes, SoldBook, FS_Subset DEF Buys
<1>3. \A c \in S : n[c] = Target(route, plan, q, c) - qty[c]
  BY DEF More
<1>4. \A c \in S : n[c] \in Nat /\ q[c] \in Nat \ {0}
  <2> TAKE c \in S
  <2>1. /\ Target(route, plan, q, c) \in Nat /\ qty[c] \in Nat /\ q[c] \in Nat \ {0}
        /\ Target(route, plan, q, c) > qty[c]
    BY <1>2, SizedCodes, TargetNat DEF Buys, Ready
  <2> QED
    BY <1>3, <2>1
<1>5. \A s \in SUBSET S : s # {} => Lightest(plan, s) \in S
  BY <1>2, FS_Subset, LightestInside
<1> HIDE DEF S, n, b0
<1>6. PICK h : Shops(h, plan, n, q, b0, S)
  BY <1>2, <1>4, ShoppingExists
<1>7. P(h)
  BY <1>3, <1>5, <1>6 DEF Shops
<1> DEFINE g == CHOOSE x : P(x)
<1>8. P(g)
  <2> HIDE DEF P
  <2> QED
    BY <1>7
<1> HIDE DEF g
<1>9. /\ g[{}] = b0
      /\ \A s \in SUBSET S : LET c == Lightest(plan, s)
                             IN  s # {} /\ g[s \ {c}] \in Book =>
                                   g[s] = Buy(g[s \ {c}], c, n[c], q[c])
  BY <1>3, <1>5, <1>8
<1>10. Fair(g[S], b0, n, q, S)
  <2> HIDE DEF P
  <2>1. \A s \in SUBSET S : Fair(g[s], b0, n, q, s)
    BY <1>2, <1>4, <1>9, ShoppingIsFair
  <2> QED
    BY <2>1
<1>11. Traded(route, plan, q) = g[S]
  BY <1>1 DEF g
<1> QED
  BY <1>10, <1>11 DEF b0, n, S

\* The trades of an attempt, code by code.
LEMMA TradedQty ==
  ASSUME Ready, NEW route, NEW plan \in Plans, NEW q \in Quotes
  PROVE  LET after == Traded(route, plan, q)
         IN  /\ after.cash \in Nat /\ after.qty \in [Codes -> Nat]
             /\ \A c \in Codes \ Sized(plan, q) : after.qty[c] = qty[c]
             /\ \A c \in Sized(plan, q) :
                  LET goal == Target(route, plan, q, c)
                  IN  /\ goal <= qty[c] => after.qty[c] = goal
                      /\ goal > qty[c] => qty[c] <= after.qty[c] /\ after.qty[c] <= goal
<1> DEFINE after == Traded(route, plan, q)
           sold == Sold(route, plan, q)
           sales == Sales(route, plan, q)
           buys == Buys(route, plan, q)
           more == More(route, plan, q)
<1>1. /\ after \in Book
      /\ \A c \in buys : sold.qty[c] <= after.qty[c] /\ after.qty[c] <= sold.qty[c] + more[c]
      /\ \A c \in Codes \ buys : after.qty[c] = sold.qty[c]
  BY TradedFair DEF Fair
<1>2. /\ sales \subseteq Codes
      /\ \A c \in sales : sold.qty[c] = Target(route, plan, q, c)
      /\ \A c \in Codes \ sales : sold.qty[c] = qty[c]
  BY SoldBook
<1>3. /\ buys = {c \in Sized(plan, q) : Target(route, plan, q, c) > qty[c]}
      /\ sales = {c \in Sized(plan, q) : Target(route, plan, q, c) < qty[c]}
      /\ \A c \in buys : more[c] = Target(route, plan, q, c) - qty[c]
  BY DEF Buys, Sales, More
<1>4. /\ Sized(plan, q) \subseteq Codes
      /\ \A c \in Sized(plan, q) : Target(route, plan, q, c) \in Nat /\ qty[c] \in Nat
  BY SizedCodes, TargetNat DEF Ready
<1> HIDE DEF after, sold, sales, buys, more
<1>5. after.cash \in Nat /\ after.qty \in [Codes -> Nat]
  BY <1>1 DEF Book
<1>6. \A c \in Codes \ Sized(plan, q) : after.qty[c] = qty[c]
  BY <1>1, <1>2, <1>3
<1>7. ASSUME NEW c \in Sized(plan, q), Target(route, plan, q, c) <= qty[c]
      PROVE  after.qty[c] = Target(route, plan, q, c)
  <2>1. c \in Codes /\ c \notin buys
    BY <1>3, <1>4, <1>7
  <2>2. after.qty[c] = sold.qty[c]
    BY <1>1, <2>1
  <2>3. CASE c \in sales
    BY <1>2, <2>2, <2>3
  <2>4. CASE c \notin sales
    BY <1>2, <1>3, <1>4, <1>7, <2>1, <2>2, <2>4
  <2> QED
    BY <2>3, <2>4
<1>8. ASSUME NEW c \in Sized(plan, q), Target(route, plan, q, c) > qty[c]
      PROVE  qty[c] <= after.qty[c] /\ after.qty[c] <= Target(route, plan, q, c)
  <2>1. c \in Codes /\ c \in buys /\ c \notin sales
    BY <1>3, <1>4, <1>8
  <2>2. sold.qty[c] = qty[c] /\ more[c] = Target(route, plan, q, c) - qty[c]
    BY <1>2, <1>3, <2>1
  <2>3. sold.qty[c] <= after.qty[c] /\ after.qty[c] <= sold.qty[c] + more[c]
    BY <1>1, <2>1
  <2> QED
    BY <1>4, <2>2, <2>3
<1> QED
  BY <1>5, <1>6, <1>7, <1>8 DEF after

\* The fill of a code after an attempt.
FillOf(route, q, after, c) ==
  [day |-> day, code |-> c, n |-> Count(route, c), price |-> q[c],
   side |-> IF after[c] > qty[c] THEN "BUY" ELSE "SELL",
   qty |-> IF after[c] > qty[c] THEN after[c] - qty[c] ELSE qty[c] - after[c]]
Changed(plan, q, after) == {c \in Sized(plan, q) : after[c] # qty[c]}
Fills(route, plan, q, after) == [c \in Changed(plan, q, after) |-> FillOf(route, q, after, c)]

LEMMA FillsAre ==
  ASSUME NEW route, NEW plan, NEW q, NEW after
  PROVE  NewFills(route, plan, q, after)
           = {Fills(route, plan, q, after)[c] : c \in Changed(plan, q, after)}
BY DEF NewFills, Fills, Changed, FillOf

\* The fills of an attempt are fills: one of each code whose quantity changes.
LEMMA FillsTyped ==
  ASSUME Ready, day \in Days, NEW route, \A c \in Codes : Count(route, c) \in Nat,
         NEW plan \in Plans, NEW q \in Quotes, NEW after \in [Codes -> Nat],
         NEW c \in Changed(plan, q, after)
  PROVE  FillOf(route, q, after, c) \in Fill
<1>1. c \in Codes /\ after[c] \in Nat /\ qty[c] \in Nat /\ after[c] # qty[c]
      /\ q[c] \in Prices /\ Count(route, c) \in Nat
  BY SizedCodes DEF Changed, Ready
<1>2. CASE after[c] > qty[c]
  BY <1>1, <1>2 DEF FillOf, Fill
<1>3. CASE ~(after[c] > qty[c])
  BY <1>1, <1>3 DEF FillOf, Fill
<1> QED
  BY <1>2, <1>3

\* What a fill moves and costs are integers.
LEMMA FillInts ==
  ASSUME NEW f \in Fill
  PROVE  Signed(f) \in Int /\ Cost(f) \in Int
<1>1. f.qty \in Int /\ f.price \in Int
  <2>1. f.qty \in Nat \ {0} /\ f.price \in Prices
    BY DEF Fill
  <2>2. \A p \in Prices : p \in Int
    BY ConstantsAssumption
  <2>3. f.qty \in Int
    BY <2>1
  <2>4. f.price \in Int
    BY <2>1, <2>2, Zenon
  <2> QED
    BY <2>3, <2>4
<1>2. f.qty * f.price * (Unit + Fee) \in Int /\ f.qty * f.price * (Unit - Fee) \in Int
  BY <1>1 DEF Unit, Fee
<1> QED
  BY <1>1, <1>2 DEF Signed, Cost

\* The cash of an attempt is the cash before and its fills, fees included.
LEMMA TradedCash ==
  ASSUME Ready, day \in Days, NEW route, \A c \in Codes : Count(route, c) \in Nat,
         NEW plan \in Plans, NEW q \in Quotes
  PROVE  LET after == Traded(route, plan, q)
             F == NewFills(route, plan, q, after.qty)
         IN  /\ F \subseteq Fill /\ IsFiniteSet(F)
             /\ after.cash = cash - SumFunctionOnSet([f \in F |-> Cost(f)], F)
<1> DEFINE t == Traded(route, plan, q)
           after == t.qty
           F == NewFills(route, plan, q, after)
           changed == Changed(plan, q, after)
           h == Fills(route, plan, q, after)
           sales == Sales(route, plan, q)
           buys == Buys(route, plan, q)
           sold == Sold(route, plan, q)
           pro == Proceeds(route, plan, q)
           spent == Spent(t, sold, q, buys)
           cost == [f \in F |-> Cost(f)]
           paid == [c \in buys \cup sales |-> Cost(FillOf(route, q, after, c))]
<1>1. after \in [Codes -> Nat]
  BY TradedQty
<1>2. F = {h[c] : c \in changed}
  BY FillsAre
<1>3. \A c \in changed : h[c] = FillOf(route, q, after, c) /\ h[c] \in Fill
  BY <1>1, FillsTyped DEF Fills
<1>4. F \subseteq Fill
  <2> HIDE DEF F, h, changed
  <2> QED
    BY <1>2, <1>3
<1>5. IsFiniteSet(buys) /\ buys \subseteq Codes /\ IsFiniteSet(sales) /\ sales \subseteq Codes
      /\ buys \cap sales = {}
  <2>1. Sized(plan, q) \subseteq Codes /\ IsFiniteSet(Sized(plan, q))
        /\ buys \subseteq Sized(plan, q) /\ sales \subseteq Sized(plan, q)
    BY SizedCodes DEF Buys, Sales
  <2>2. \A c \in Sized(plan, q) : Target(route, plan, q, c) \in Nat /\ qty[c] \in Nat
    BY <2>1, TargetNat DEF Ready
  <2>3. buys \cap sales = {}
    BY <2>2 DEF Buys, Sales
  <2> QED
    BY <2>1, <2>3, FS_Subset
<1>6. changed \subseteq buys \cup sales
  <2> SUFFICES ASSUME NEW c \in changed PROVE c \in buys \cup sales
    OBVIOUS
  <2>1. c \in Sized(plan, q) /\ after[c] # qty[c]
    BY DEF Changed
  <2>2. Target(route, plan, q, c) \in Nat /\ qty[c] \in Nat
    BY <2>1, SizedCodes, TargetNat DEF Ready
  <2>3. Target(route, plan, q, c) <= qty[c] => after[c] = Target(route, plan, q, c)
    BY <2>1, TradedQty
  <2>4. Target(route, plan, q, c) # qty[c]
    <3> HIDE DEF after
    <3> QED
      BY <2>1, <2>2, <2>3
  <2> QED
    BY <2>1, <2>2, <2>4 DEF Buys, Sales
<1>7. \A c \in buys \cup sales : q[c] \in Nat /\ c \in Codes /\ c \in Sized(plan, q)
  BY SizedCodes DEF Buys, Sales
<1>8. \A c \in buys : paid[c] = spent[c] /\ spent[c] \in Int
  <2> TAKE c \in buys
  <2>1. c \in Codes /\ c \in Sized(plan, q) /\ c \notin sales /\ q[c] \in Nat
    BY <1>5, <1>7
  <2>2. sold.qty[c] = qty[c] /\ qty[c] \in Nat /\ after[c] \in Nat /\ qty[c] <= after[c]
    BY <1>1, <2>1, SoldBook, TradedQty DEF Ready, Buys
  <2>3. spent[c] = (after[c] - qty[c]) * q[c] * (Unit + Fee)
    BY <2>2 DEF Spent
  <2>4. spent[c] \in Int
    BY <2>1, <2>2, <2>3 DEF Unit, Fee
  <2>5. paid[c] = Cost(FillOf(route, q, after, c))
    BY <2>1
  <2>6. CASE after[c] > qty[c]
    <3> DEFINE x == FillOf(route, q, after, c)
    <3>1. x.side = "BUY" /\ x.qty = after[c] - qty[c] /\ x.price = q[c]
      BY <2>6 DEF FillOf
    <3>2. Cost(x) = x.qty * x.price * (Unit + Fee)
      BY <3>1 DEF Cost
    <3>3. Cost(x) = (after[c] - qty[c]) * q[c] * (Unit + Fee)
      BY <3>1, <3>2
    <3> HIDE DEF x
    <3> QED
      BY <2>3, <2>4, <2>5, <3>3 DEF x
  <2>7. CASE after[c] = qty[c]
    <3>1. spent[c] = 0
      BY <2>1, <2>2, <2>3, <2>7 DEF Unit, Fee
    <3>2. paid[c] = -((qty[c] - after[c]) * q[c] * (Unit - Fee))
      BY <2>2, <2>5, <2>7 DEF Cost, FillOf
    <3> QED
      BY <2>1, <2>2, <2>7, <3>1, <3>2 DEF Unit, Fee
  <2> QED
    BY <2>2, <2>4, <2>6, <2>7
<1>9. \A c \in sales : paid[c] = -pro[c] /\ pro[c] \in Int
  <2> TAKE c \in sales
  <2>1. c \in Codes /\ c \in Sized(plan, q) /\ q[c] \in Nat /\ pro[c] \in Nat
    BY <1>5, <1>7, SoldBook
  <2>2. /\ after[c] = Target(route, plan, q, c) /\ qty[c] \in Nat /\ after[c] \in Nat
        /\ after[c] < qty[c]
    <3>1. Target(route, plan, q, c) \in Nat /\ qty[c] \in Nat /\ after[c] \in Nat
          /\ Target(route, plan, q, c) < qty[c]
      BY <1>1, <2>1, TargetNat DEF Ready, Sales
    <3>2. Target(route, plan, q, c) <= qty[c] => after[c] = Target(route, plan, q, c)
      BY <2>1, TradedQty
    <3> HIDE DEF after
    <3> QED
      BY <3>1, <3>2
  <2>3. paid[c] = -((qty[c] - after[c]) * q[c] * (Unit - Fee))
    BY <2>2 DEF Cost, FillOf
  <2>4. pro[c] = (qty[c] - after[c]) * q[c] * (Unit - Fee)
    BY <2>2 DEF Proceeds
  <2> QED
    BY <2>1, <2>3, <2>4
<1>10. \A c \in (buys \cup sales) \ changed : paid[c] = 0
  <2> TAKE c \in (buys \cup sales) \ changed
  <2>1. after[c] = qty[c] /\ qty[c] \in Nat /\ q[c] \in Nat
    BY <1>7 DEF Changed, Ready
  <2>2. paid[c] = -((qty[c] - after[c]) * q[c] * (Unit - Fee))
    BY <2>1 DEF Cost, FillOf
  <2> QED
    BY <2>1, <2>2 DEF Unit, Fee
<1>11. \A c \in changed : cost[h[c]] = paid[c]
  <2> TAKE c \in changed
  <2>1. h[c] \in F /\ c \in buys \cup sales
    BY <1>2, <1>6
  <2> HIDE DEF F, h
  <2> QED
    BY <1>3, <2>1
<1>12. \A c, d \in changed : h[c] = h[d] => c = d
  <2> TAKE c, d \in changed
  <2>1. h[c].code = c /\ h[d].code = d
    BY DEF Fills, FillOf
  <2> QED
    BY <2>1
<1>13. t.cash = sold.cash - SumFunctionOnSet(spent, buys)
       /\ sold.cash = cash + SumFunctionOnSet(pro, sales)
  BY TradedFair, SoldBook DEF Fair
<1>14. cash \in Int /\ t.cash \in Int
  <2>1. cash \in Nat
    BY DEF Ready
  <2>2. t.cash \in Nat
    BY TradedQty
  <2> HIDE DEF t
  <2> QED
    BY <2>1, <2>2
<1> HIDE DEF t, after, F, changed, h, sales, buys, sold, pro, spent, cost, paid
<1>15. Ints(paid, buys \cup sales) /\ Ints(paid, buys) /\ Ints(paid, sales)
       /\ Ints(spent, buys) /\ Ints(pro, sales)
  BY <1>8, <1>9 DEF Ints
<1>16. IsFiniteSet(changed) /\ IsFiniteSet(buys \cup sales)
  BY <1>5, <1>6, FS_Subset, FS_Union
<1>17. \A c \in changed : paid[c] \in Int
  BY <1>6, <1>15 DEF Ints
<1>18. IsFiniteSet(F) /\ SumFunctionOnSet(cost, F) = SumFunctionOnSet(paid, changed)
  BY <1>2, <1>11, <1>12, <1>16, <1>17, SumImage
<1>19. SumFunctionOnSet(paid, buys \cup sales) = SumFunctionOnSet(paid, changed)
  BY <1>6, <1>10, <1>15, <1>16, SumZeros
<1>20. SumFunctionOnSet(paid, buys \cup sales)
         = SumFunctionOnSet(paid, buys) + SumFunctionOnSet(paid, sales)
  BY <1>5, <1>15, SumUnion
<1>21. SumFunctionOnSet(paid, buys) = SumFunctionOnSet(spent, buys)
  BY <1>5, <1>8, <1>15, SumSame
<1>22. SumFunctionOnSet(paid, sales) = -SumFunctionOnSet(pro, sales)
  BY <1>5, <1>9, <1>15, SumNegated
<1>23. SumFunctionOnSet(spent, buys) \in Int /\ SumFunctionOnSet(pro, sales) \in Int
  BY <1>5, <1>15, SumType
<1>24. t.cash = cash - SumFunctionOnSet(cost, F)
  BY <1>13, <1>14, <1>18, <1>19, <1>20, <1>21, <1>22, <1>23
<1> QED
  BY <1>4, <1>18, <1>24 DEF cost, F, after, t

\* The fills of a code, and of a day.
Own(S, c) == {f \in S : f.code = c}
OfDay(S, d) == {f \in S : f.day = d}

\* The sums over a set of fills.
Costs(S) == SumFunctionOnSet([f \in S |-> Cost(f)], S)
Moved(S, c) == SumFunctionOnSet([f \in Own(S, c) |-> Signed(f)], Own(S, c))

LEMMA LedgerSums ==
  ASSUME NEW S, S \subseteq Fill, IsFiniteSet(S), NEW c
  PROVE  /\ CashAfter(S) = StartCash - Costs(S) /\ Costs(S) \in Int
         /\ QtyAfter(S, c) = StartQty[c] + Moved(S, c) /\ Moved(S, c) \in Int
<1> DEFINE C == [f \in S |-> Cost(f)]
           M == [f \in Own(S, c) |-> Signed(f)]
<1>1. Ints(C, S) /\ Ints(M, Own(S, c)) /\ IsFiniteSet(Own(S, c))
  BY FillInts, FS_Subset DEF Ints, Own
<1>2. SumFunctionOnSet(C, S) \in Int /\ SumFunctionOnSet(M, Own(S, c)) \in Int
  <2> HIDE DEF C, M
  <2> QED
    BY <1>1, SumType
<1> QED
  BY <1>2 DEF Costs, Moved, CashAfter, QtyAfter, Own

\* More fills add their costs and their quantities.
LEMMA LedgerAdds ==
  ASSUME NEW S, S \subseteq Fill, IsFiniteSet(S), NEW F, F \subseteq Fill, IsFiniteSet(F),
         S \cap F = {}, NEW c
  PROVE  /\ Costs(S \cup F) = Costs(S) + Costs(F)
         /\ Moved(S \cup F, c) = Moved(S, c) + Moved(F, c)
<1> DEFINE A == S \cup F
           C == [f \in A |-> Cost(f)]
           M == [f \in Own(A, c) |-> Signed(f)]
<1>1. /\ Own(A, c) = Own(S, c) \cup Own(F, c) /\ Own(S, c) \cap Own(F, c) = {}
      /\ IsFiniteSet(Own(S, c)) /\ IsFiniteSet(Own(F, c))
      /\ Own(S, c) \subseteq S /\ Own(F, c) \subseteq F
  BY FS_Subset DEF Own
<1>2. Ints(C, S \cup F) /\ Ints(C, S) /\ Ints(C, F)
  BY FillInts DEF Ints
<1>3. Ints(M, Own(S, c) \cup Own(F, c)) /\ Ints(M, Own(S, c)) /\ Ints(M, Own(F, c))
  BY <1>1, FillInts DEF Ints
<1>4. /\ \A f \in S : C[f] = [g \in S |-> Cost(g)][f]
      /\ \A f \in F : C[f] = [g \in F |-> Cost(g)][f]
      /\ \A f \in Own(S, c) : M[f] = [g \in Own(S, c) |-> Signed(g)][f]
      /\ \A f \in Own(F, c) : M[f] = [g \in Own(F, c) |-> Signed(g)][f]
  BY <1>1
<1>5. Costs(A) = SumFunctionOnSet(C, A) /\ Moved(A, c) = SumFunctionOnSet(M, Own(A, c))
  BY DEF Costs, Moved
<1> HIDE DEF A, C, M
<1>6. SumFunctionOnSet(C, S) = Costs(S) /\ SumFunctionOnSet(C, F) = Costs(F)
  BY <1>2, <1>4, SumSame DEF Costs
<1>7. SumFunctionOnSet(M, Own(S, c)) = Moved(S, c) /\ SumFunctionOnSet(M, Own(F, c)) = Moved(F, c)
  BY <1>1, <1>3, <1>4, SumSame DEF Moved
<1>8. SumFunctionOnSet(C, S \cup F) = Costs(S) + Costs(F)
  BY <1>2, <1>6, SumUnion
<1>9. SumFunctionOnSet(M, Own(A, c)) = Moved(S, c) + Moved(F, c)
  BY <1>1, <1>3, <1>7, SumUnion
<1> QED
  BY <1>5, <1>8, <1>9 DEF A

\* An attempt fills what it changes.
LEMMA NewMoved ==
  ASSUME Ready, NEW route, NEW plan \in Plans, NEW q \in Quotes,
         NEW after \in [Codes -> Nat], NEW c \in Codes,
         c \notin Sized(plan, q) => after[c] = qty[c]
  PROVE  LET F == NewFills(route, plan, q, after)
         IN  /\ Moved(F, c) = after[c] - qty[c]
             /\ after[c] = qty[c] => Own(F, c) = {}
             /\ \A f \in Own(F, c) : f.side = (IF after[c] > qty[c] THEN "BUY" ELSE "SELL")
<1> DEFINE F == NewFills(route, plan, q, after)
           h == Fills(route, plan, q, after)
           changed == Changed(plan, q, after)
<1>1. F = {h[d] : d \in changed} /\ \A d \in changed : h[d] = FillOf(route, q, after, d)
  BY FillsAre DEF Fills
<1>2. \A d \in changed : h[d].code = d
  <2> TAKE d \in changed
  <2>1. FillOf(route, q, after, d).code = d
    BY DEF FillOf
  <2> HIDE DEF h, F, changed
  <2> QED
    BY <1>1, <2>1
<1>3. after[c] \in Nat /\ qty[c] \in Nat
  BY DEF Ready
<1>4. c \in changed <=> after[c] # qty[c]
  BY DEF Changed
<1>5. CASE c \notin changed
  <2>1. Own(F, c) = {}
    <3> HIDE DEF F, h, changed
    <3> QED
      BY <1>1, <1>2, <1>5 DEF Own
  <2>2. Moved(F, c) = 0
    BY <2>1, SumEmpty DEF Moved
  <2> HIDE DEF F, changed
  <2>3. Moved(F, c) = after[c] - qty[c]
    BY <1>3, <1>4, <1>5, <2>2
  <2> QED
    BY <2>1, <2>3 DEF F
<1>6. CASE c \in changed
  <2> DEFINE x == FillOf(route, q, after, c)
  <2>1. Own(F, c) = {x}
    <3>1. h[c] = x
      BY <1>1, <1>6
    <3> HIDE DEF F, h, changed, x
    <3> QED
      BY <1>1, <1>2, <1>6, <3>1 DEF Own
  <2>2. x.side = (IF after[c] > qty[c] THEN "BUY" ELSE "SELL")
        /\ x.qty = (IF after[c] > qty[c] THEN after[c] - qty[c] ELSE qty[c] - after[c])
    BY DEF FillOf
  <2> HIDE DEF x, F, h, changed
  <2>3. Signed(x) = after[c] - qty[c]
    <3>1. CASE after[c] > qty[c]
      BY <1>3, <2>2, <3>1 DEF Signed
    <3>2. CASE ~(after[c] > qty[c])
      BY <1>3, <2>2, <3>2 DEF Signed
    <3> QED
      BY <3>1, <3>2
  <2> DEFINE M == [f \in {x} |-> Signed(f)]
  <2>4. Moved(F, c) = after[c] - qty[c]
    <3>1. M[x] = after[c] - qty[c] /\ M[x] \in Int
      BY <1>3, <2>3
    <3>2. Moved(F, c) = SumFunctionOnSet(M, {x})
      BY <2>1 DEF Moved
    <3> HIDE DEF M
    <3>3. SumFunctionOnSet(M, {} \cup {x}) = M[x] + SumFunctionOnSet(M, {})
      <4>1. Ints(M, {} \cup {x})
        BY <3>1 DEF Ints
      <4> QED
        BY <4>1, FS_EmptySet, SumAdd
    <3>4. {} \cup {x} = {x}
      OBVIOUS
    <3> QED
      BY <1>3, <3>1, <3>2, <3>3, <3>4, SumEmpty
  <2>5. after[c] # qty[c]
    BY <1>4, <1>6
  <2> QED
    BY <2>1, <2>2, <2>4, <2>5 DEF F
<1> QED
  BY <1>5, <1>6

-----------------------------------------------------------------------------
(* The ledger and what the batches say of it.                               *)

Till(S, d) == {f \in S : f.day <= d}
\* The holdings at the end of a day, as the fills S say.
EndOf(S, d) == [c \in Codes |-> QtyAfter(Till(S, d), c)]

\* What batch b says of a code: mine are the code's fills of the batch's day,
\* was and now its holdings before and after them.
CodeOK(b, c, mine, was, now) ==
  /\ \A f, g \in mine : f.side = g.side
  /\ b.target[c] # None => c \in b.required /\ b.route = "automatic"
  /\ b.target[c] # None /\ c \in b.processed => now = b.target[c]
  /\ b.target[c] # None /\ c \notin b.processed =>
       was <= now /\ now < b.target[c] /\ \A f \in mine : f.side = "BUY"
  /\ b.target[c] = None /\ c \notin b.processed => mine = {}

BatchOK(b, S, was, now) ==
  /\ b \in Batch
  /\ b.status = "EXECUTED" => b.required \subseteq b.processed
  /\ b.required \cap Holds(b.plan) \subseteq b.processed
  /\ \A c \in Codes : CodeOK(b, c, Own(S, c), was[c], now[c])

LedgerOK ==
  /\ cash \in Nat /\ qty \in [Codes -> Nat]
  /\ fills \subseteq Fill /\ IsFiniteSet(fills)
  /\ cash = CashAfter(fills) /\ \A c \in Codes : qty[c] = QtyAfter(fills, c)
  /\ \A f \in fills : f.day <= day

DaysOK ==
  \A d \in Days : Known(d) =>
    d <= day /\ BatchOK(batch[d], OfDay(fills, d), EndOf(fills, d - 1), EndOf(fills, d))

OpenOK ==
  pc \in Open =>
    /\ job.cash \in Nat /\ job.qty \in [Codes -> Nat]
    /\ job.fills \subseteq Fill /\ IsFiniteSet(job.fills)
    /\ job.cash = CashAfter(fills \cup job.fills)
    /\ \A c \in Codes : job.qty[c] = QtyAfter(fills \cup job.fills, c)
    /\ BatchOK(job.batch, OfDay(fills \cup job.fills, day), EndOf(fills, day - 1), job.qty)

ViewsOK ==
  /\ pc # "idle" => job.quotes \in Quotes
  /\ mark \in [Codes -> Mark] /\ nav \in [0..MaxDay -> Nav]
  /\ \A d \in 0..MaxDay : nav[d].basis = "close" =>
       /\ d < day \/ (d = day /\ phase = "closed")
       /\ nav[d].cash = CashAfter(Till(fills, d))
       /\ \A c \in Codes : nav[d].qty[c] = QtyAfter(Till(fills, d), c)

LInv == LedgerOK /\ DaysOK /\ OpenOK /\ ViewsOK

LEMMA InvReady ==
  ASSUME LedgerOK, DaysOK, ViewsOK, day \in Days
  PROVE  Ready
BY DEF LedgerOK, DaysOK, ViewsOK, Ready, BatchOK

\* The batch an attempt computes is one.
LEMMA NewBatchTyped ==
  ASSUME Ready, TablesOK, day \in Days, NEW route \in Routes, NEW plan \in Plans,
         NEW q \in Quotes, NEW after
  PROVE  NewBatch(route, plan, q, after) \in Batch
<1> DEFINE b == NewBatch(route, plan, q, after)
<1>1. route \in {"whole", "qualified", "automatic"}
  BY ConstantsAssumption
<1>2. b.status \in {"WAITING_QUOTES", "PARTIALLY_EXECUTED", "EXECUTED"}
  BY DEF NewBatch
<1>3. b.required \subseteq Codes
  BY RequiredCodes DEF NewBatch
<1>4. b.processed \subseteq b.required
  BY DEF NewBatch, Done, Sized, Pending
<1>5. b.traded \subseteq Codes
  BY SizedCodes DEF NewBatch, Ready, Batch
<1>6. b.equity \in Nat \cup {None}
  BY EquityNat DEF NewBatch
<1>7. b.target \in [Codes -> Nat \cup {None}]
  <2>1. \A c \in Codes : Known(day) => batch[day].target[c] \in Nat \cup {None}
    BY DEF Ready, Batch
  <2>2. b.target = [c \in Codes |->
                     IF route # "automatic" THEN None
                     ELSE IF c \in Sized(plan, q) THEN Target(route, plan, q, c)
                     ELSE IF Known(day) THEN batch[day].target[c] ELSE None]
    BY DEF NewBatch
  <2> QED
    BY <2>1, <2>2, TargetNat
<1>8. b.count \in [Codes -> Nat]
  BY CountNat DEF NewBatch
<1>9. b = [route |-> route, plan |-> plan, required |-> b.required,
           processed |-> b.processed, traded |-> b.traded, equity |-> b.equity,
           status |-> b.status, target |-> b.target, count |-> b.count]
  BY DEF NewBatch
<1> HIDE DEF b
<1>10. b.processed \subseteq Codes
  BY <1>3, <1>4
<1>11. b \in Batch
  BY <1>1, <1>2, <1>3, <1>5, <1>6, <1>7, <1>8, <1>9, <1>10 DEF Batch
<1> QED
  BY <1>11 DEF b

\* What the day's batch and fills say of a code before an attempt.
Before(c, mine, was) ==
  LET target == IF Known(day) THEN batch[day].target[c] ELSE None
      done   == Known(day) /\ c \in batch[day].processed
  IN  /\ \A f, g \in mine : f.side = g.side
      /\ target # None => Known(day) /\ c \in batch[day].required
                            /\ batch[day].route = "automatic"
      /\ target # None /\ done => qty[c] = target
      /\ target # None /\ ~done =>
           was <= qty[c] /\ qty[c] < target /\ \A f \in mine : f.side = "BUY"
      /\ target = None /\ ~done => mine = {}
      /\ mine = {} => was = qty[c]

LEMMA BeforeHolds ==
  ASSUME TablesOK, LedgerOK, DaysOK, day \in Days, NEW c \in Codes
  PROVE  Before(c, Own(OfDay(fills, day), c), EndOf(fills, day - 1)[c])
<1> DEFINE mine == Own(OfDay(fills, day), c)
           was == EndOf(fills, day - 1)[c]
<1>0. \A f \in fills : f.day \in Int /\ day \in Int
  BY DEF LedgerOK, Fill, Days
<1>1. was = QtyAfter(Till(fills, day - 1), c)
  BY DEF EndOf
<1>2. ASSUME mine = {} PROVE was = qty[c]
  <2>1. {f \in Till(fills, day - 1) : f.code = c} = {f \in fills : f.code = c}
    <3> SUFFICES ASSUME NEW f \in fills, f.code = c PROVE f \in Till(fills, day - 1)
      BY DEF Till
    <3>1. f.day # day
      BY <1>2 DEF Own, OfDay
    <3> QED
      BY <1>0, <3>1 DEF LedgerOK, Till
  <2>2. QtyAfter(Till(fills, day - 1), c) = QtyAfter(fills, c)
    BY <2>1 DEF QtyAfter
  <2> QED
    BY <1>1, <2>2 DEF LedgerOK
<1>3. CASE ~Known(day)
  <2>1. mine = {}
    BY <1>3 DEF TablesOK, Own, OfDay
  <2> HIDE DEF mine, was
  <2>2. Before(c, mine, was)
    BY <1>2, <1>3, <2>1 DEF Before
  <2> QED
    BY <2>2 DEF mine, was
<1>4. CASE Known(day)
  <2>1. Till(fills, day) = fills
    BY DEF Till, LedgerOK
  <2>2. EndOf(fills, day)[c] = qty[c]
    BY <2>1 DEF EndOf, LedgerOK
  <2>3. CodeOK(batch[day], c, mine, was, qty[c])
    BY <1>4, <2>2 DEF DaysOK, BatchOK
  <2> HIDE DEF mine, was
  <2>4. Before(c, mine, was)
    BY <1>2, <1>4, <2>3 DEF Before, CodeOK
  <2> QED
    BY <2>4 DEF mine, was
<1> QED
  BY <1>3, <1>4

\* An attempt keeps what the batch says of a code.
LEMMA NewCodeOK ==
  ASSUME Ready, TablesOK, day \in Days, NEW route \in Routes, NEW plan \in Plans,
         NEW q \in Quotes, Admissible(route, plan), NEW c \in Codes,
         Known(day) => batch[day].required \cap Holds(batch[day].plan) \subseteq batch[day].processed,
         NEW mine, NEW was \in Int, Before(c, mine, was)
  PROVE  LET after == Traded(route, plan, q).qty
             F == NewFills(route, plan, q, after)
         IN  CodeOK(NewBatch(route, plan, q, after), c, mine \cup Own(F, c), was, after[c])
<1> DEFINE after == Traded(route, plan, q).qty
           F == NewFills(route, plan, q, after)
           new == Own(F, c)
           b == NewBatch(route, plan, q, after)
           target == IF Known(day) THEN batch[day].target[c] ELSE None
           done == Known(day) /\ c \in batch[day].processed
           goal == Target(route, plan, q, c)
<1>1. /\ \A f, g \in mine : f.side = g.side
      /\ target # None => Known(day) /\ c \in batch[day].required
                            /\ batch[day].route = "automatic"
      /\ target # None /\ done => qty[c] = target
      /\ target # None /\ ~done =>
           was <= qty[c] /\ qty[c] < target /\ \A f \in mine : f.side = "BUY"
      /\ target = None /\ ~done => mine = {}
      /\ mine = {} => was = qty[c]
  BY DEF Before
<1>2. /\ after \in [Codes -> Nat] /\ after[c] \in Nat /\ qty[c] \in Nat
      /\ c \notin Sized(plan, q) => after[c] = qty[c]
      /\ c \in Sized(plan, q) /\ goal <= qty[c] => after[c] = goal
      /\ c \in Sized(plan, q) /\ goal > qty[c] => qty[c] <= after[c] /\ after[c] <= goal
  <2>1. /\ after \in [Codes -> Nat]
        /\ c \notin Sized(plan, q) => after[c] = qty[c]
        /\ c \in Sized(plan, q) /\ goal <= qty[c] => after[c] = goal
        /\ c \in Sized(plan, q) /\ goal > qty[c] => qty[c] <= after[c] /\ after[c] <= goal
    <3>1. after \in [Codes -> Nat]
      BY TradedQty
    <3>2. \A d \in Codes \ Sized(plan, q) : after[d] = qty[d]
      BY TradedQty
    <3>3. c \in Sized(plan, q) =>
            /\ goal <= qty[c] => after[c] = goal
            /\ goal > qty[c] => qty[c] <= after[c] /\ after[c] <= goal
      BY TradedQty
    <3> HIDE DEF after, goal
    <3> QED
      BY <3>1, <3>2, <3>3
  <2> HIDE DEF after
  <2> QED
    BY <2>1 DEF Ready
<1>3. /\ after[c] = qty[c] => new = {}
      /\ \A f \in new : f.side = (IF after[c] > qty[c] THEN "BUY" ELSE "SELL")
  <2> HIDE DEF after
  <2> QED
    BY <1>2, NewMoved
<1>4. c \in Sized(plan, q) =>
        /\ c \in Pending(plan) /\ c \in Required(plan) /\ ~done /\ goal \in Nat
        /\ goal = IF route = "automatic" /\ target # None THEN target ELSE goal
  <2>1. c \in Sized(plan, q) =>
          c \in Pending(plan) /\ c \in Required(plan) /\ ~done /\ goal \in Nat
    BY SizedCodes, TargetNat
  <2>2. goal = IF route = "automatic" /\ target # None THEN target ELSE goal
    BY DEF Target
  <2> QED
    BY <2>1, <2>2
<1>5. /\ b.required = Required(plan) /\ b.route = route
      /\ c \in b.processed <=> \/ c \in Required(plan) /\ c \notin Pending(plan)
                               \/ /\ c \in Sized(plan, q)
                                  /\ route = "automatic" => after[c] = goal
      /\ b.target[c] = IF route # "automatic" THEN None
                       ELSE IF c \in Sized(plan, q) THEN goal ELSE target
  BY DEF NewBatch, Done
<1>6. /\ Known(day) /\ c \in batch[day].required => c \in Required(plan)
      /\ Known(day) /\ batch[day].route = "automatic" => route = "automatic"
      /\ done => c \in Required(plan) /\ c \notin Pending(plan)
      /\ Known(day) => batch[day].plan = plan
  BY DEF Required, Pending, Admissible, TablesOK, Wellformed
<1>7. c \in Pending(plan) => ~done
  BY DEF Pending
<1>8. None \notin Nat
  BY DEF None
<1> HIDE DEF after, F, new, b, target, done, goal
<1>9. ASSUME c \notin Sized(plan, q)
      PROVE  CodeOK(b, c, mine \cup new, was, after[c])
  <2>1. after[c] = qty[c] /\ new = {}
    BY <1>2, <1>3, <1>9
  <2>2. mine \cup new = mine
    BY <2>1
  <2>3. b.target[c] # None => b.target[c] = target /\ route = "automatic" /\ target # None
    BY <1>5, <1>9
  <2>4. target # None => route = "automatic" /\ b.target[c] = target
    BY <1>1, <1>5, <1>6, <1>9
  <2>5. c \in b.processed => c \in Required(plan) /\ c \notin Pending(plan)
    BY <1>5, <1>9
  <2>6. done => c \in b.processed
    BY <1>5, <1>6
  <2>7. b.target[c] # None /\ c \in b.processed => done
    <3> SUFFICES ASSUME b.target[c] # None, c \in b.processed, ~done PROVE FALSE
      OBVIOUS
    <3>1. Known(day) /\ c \in Required(plan) /\ c \notin Pending(plan)
          /\ c \in batch[day].required
      BY <1>1, <2>3, <2>5
    <3>2. c \notin batch[day].processed
      BY <3>1 DEF done
    <3>3. c \in Holds(plan)
      BY <3>1, <3>2 DEF Pending
    <3> QED
      BY <1>6, <3>1, <3>2, <3>3
  <2>8. CodeOK(b, c, mine, was, after[c])
    BY <1>1, <1>5, <1>6, <2>1, <2>3, <2>4, <2>6, <2>7 DEF CodeOK
  <2> QED
    BY <2>2, <2>8
<1>10. ASSUME c \in Sized(plan, q), route # "automatic"
       PROVE  CodeOK(b, c, mine \cup new, was, after[c])
  <2>1. b.target[c] = None /\ c \in b.processed
    BY <1>5, <1>10
  <2>2. target = None /\ ~done
    BY <1>1, <1>4, <1>6, <1>10
  <2>3. mine = {}
    BY <1>1, <2>2
  <2>4. \A f, g \in mine \cup new : f.side = g.side
    BY <1>3, <2>3
  <2> QED
    BY <2>1, <2>4 DEF CodeOK
<1>11. ASSUME c \in Sized(plan, q), route = "automatic"
       PROVE  CodeOK(b, c, mine \cup new, was, after[c])
  <2>1. b.target[c] = goal /\ c \in b.required /\ b.route = "automatic" /\ ~done
        /\ goal \in Nat
    BY <1>4, <1>5, <1>11
  <2>2. c \in b.processed <=> after[c] = goal
    BY <1>4, <1>5, <1>11
  <2>3. target # None => goal = target /\ goal > qty[c] /\ after[c] >= qty[c]
    <3>1. target # None => goal = target
      BY <1>4, <1>11
    <3>2. target # None => goal > qty[c]
      BY <1>1, <1>2, <2>1, <3>1
    <3> QED
      BY <1>2, <1>11, <2>1, <3>1, <3>2
  <2>4. \A f, g \in mine \cup new : f.side = g.side
    <3>1. CASE target = None
      BY <1>1, <1>3, <2>1, <3>1
    <3>2. CASE target # None
      <4>1. \A f \in mine : f.side = "BUY"
        BY <1>1, <2>1, <3>2
      <4>2. after[c] = qty[c] \/ after[c] > qty[c]
        BY <1>2, <2>3, <3>2
      <4>3. \A f \in new : f.side = "BUY"
        BY <1>3, <4>2
      <4> QED
        BY <4>1, <4>3
    <3> QED
      BY <3>1, <3>2
  <2>5. ASSUME after[c] # goal
        PROVE  was <= after[c] /\ after[c] < goal /\ \A f \in mine \cup new : f.side = "BUY"
    <3>1. goal > qty[c] /\ qty[c] <= after[c] /\ after[c] < goal
      BY <1>2, <1>11, <2>1, <2>5
    <3>2. was <= qty[c] /\ \A f \in mine : f.side = "BUY"
      BY <1>1, <1>2, <2>1
    <3>3. \A f \in new : f.side = "BUY"
      BY <1>2, <1>3, <3>1
    <3> QED
      BY <1>2, <3>1, <3>2, <3>3
  <2> QED
    BY <1>8, <2>1, <2>2, <2>4, <2>5 DEF CodeOK
<1>12. CodeOK(b, c, mine \cup new, was, after[c])
  BY <1>9, <1>10, <1>11
<1> QED
  BY <1>12 DEF b, new, F, after

\* The holdings at an end of day are integers.
LEMMA EndOfInt ==
  ASSUME LedgerOK, NEW d, NEW c \in Codes
  PROVE  EndOf(fills, d)[c] \in Int
<1>1. Till(fills, d) \subseteq Fill /\ IsFiniteSet(Till(fills, d))
  BY FS_Subset DEF LedgerOK, Till
<1>2. /\ QtyAfter(Till(fills, d), c) = StartQty[c] + Moved(Till(fills, d), c)
      /\ Moved(Till(fills, d), c) \in Int
  BY <1>1, LedgerSums
<1>3. StartQty[c] \in Int
  BY ConstantsAssumption
<1> QED
  BY <1>2, <1>3 DEF EndOf

\* What an attempt computes, should it be committed.
LEMMA AttemptBatch ==
  ASSUME IInv, LInv, NEW route \in Routes, NEW plan \in Plans, NEW q \in Quotes,
         Admissible(route, plan), day \in Days
  PROVE  LET after == Traded(route, plan, q).qty
             F == NewFills(route, plan, q, after)
         IN  BatchOK(NewBatch(route, plan, q, after), OfDay(fills \cup F, day),
                     EndOf(fills, day - 1), after)
<1> DEFINE after == Traded(route, plan, q).qty
           F == NewFills(route, plan, q, after)
           b == NewBatch(route, plan, q, after)
           was == EndOf(fills, day - 1)
<1>1. Ready /\ TablesOK /\ LedgerOK /\ DaysOK
  BY InvReady DEF LInv, IInv
<1>2. b \in Batch
  BY <1>1, NewBatchTyped
<1>3. b.status = "EXECUTED" => b.required \subseteq b.processed
  BY DEF NewBatch
<1>4. b.required \cap Holds(b.plan) \subseteq b.processed
  BY DEF NewBatch, Pending
<1>5. \A f \in F : f.day = day
  <2>1. \A f \in F : \E c : f = FillOf(route, q, after, c)
    BY DEF NewFills, FillOf
  <2>2. \A c : FillOf(route, q, after, c).day = day
    BY DEF FillOf
  <2> HIDE DEF F, after
  <2> QED
    BY <2>1, <2>2
<1>6. \A c \in Codes : Own(OfDay(fills \cup F, day), c) = Own(OfDay(fills, day), c) \cup Own(F, c)
  <2> HIDE DEF F
  <2> QED
    BY <1>5 DEF Own, OfDay
<1>7. Known(day) => batch[day].required \cap Holds(batch[day].plan) \subseteq batch[day].processed
  BY <1>1 DEF DaysOK, BatchOK
<1>8. ASSUME NEW c \in Codes
      PROVE  CodeOK(b, c, Own(OfDay(fills, day), c) \cup Own(F, c), was[c], after[c])
  <2>1. was[c] \in Int /\ Before(c, Own(OfDay(fills, day), c), was[c])
    BY <1>1, EndOfInt, BeforeHolds
  <2> QED
    BY <1>1, <1>7, <2>1, NewCodeOK
<1> HIDE DEF after, F, b, was
<1>9. BatchOK(b, OfDay(fills \cup F, day), was, after)
  BY <1>2, <1>3, <1>4, <1>6, <1>8 DEF BatchOK
<1> QED
  BY <1>9 DEF after, F, b, was

LEMMA AttemptLedger ==
  ASSUME IInv, LInv, NEW route \in Routes, NEW plan \in Plans, NEW q \in Quotes,
         Admissible(route, plan), day \in Days
  PROVE  LET t == Traded(route, plan, q)
             F == NewFills(route, plan, q, t.qty)
         IN  /\ t.cash \in Nat /\ t.qty \in [Codes -> Nat]
             /\ F \subseteq Fill /\ IsFiniteSet(F)
             /\ t.cash = CashAfter(fills \cup F)
             /\ \A c \in Codes : t.qty[c] = QtyAfter(fills \cup F, c)
<1> DEFINE t == Traded(route, plan, q)
           F == NewFills(route, plan, q, t.qty)
           A == fills \cup F
<1>1. Ready /\ TablesOK /\ LedgerOK
  BY InvReady DEF LInv, IInv
<1>2. /\ t.cash \in Nat /\ t.qty \in [Codes -> Nat]
      /\ \A c \in Codes \ Sized(plan, q) : t.qty[c] = qty[c]
  BY <1>1, TradedQty
<1>3. F \subseteq Fill /\ IsFiniteSet(F) /\ t.cash = cash - Costs(F)
  <2>1. \A c \in Codes : Count(route, c) \in Nat
    BY <1>1, CountNat
  <2> QED
    BY <1>1, <2>1, TradedCash DEF Costs
<1>4. \A f \in F : \A g \in fills : ~SameId(f, g)
  BY <1>1, NewRecorded
<1>5. \A c \in Codes : Moved(F, c) = t.qty[c] - qty[c]
  <2> TAKE c \in Codes
  <2>1. c \notin Sized(plan, q) => t.qty[c] = qty[c]
    BY <1>2
  <2> HIDE DEF t
  <2> QED
    BY <1>1, <1>2, <2>1, NewMoved
<1> HIDE DEF t, F
<1>6. fills \cap F = {}
  BY <1>4 DEF SameId
<1>7. fills \subseteq Fill /\ IsFiniteSet(fills) /\ A \subseteq Fill /\ IsFiniteSet(A)
  BY <1>1, <1>3, FS_Union DEF LedgerOK
<1> HIDE DEF A
<1>8. CashAfter(A) = t.cash
  <2>1. Costs(A) = Costs(fills) + Costs(F)
    BY <1>3, <1>6, <1>7, LedgerAdds DEF A
  <2>2. /\ CashAfter(A) = StartCash - Costs(A) /\ CashAfter(fills) = StartCash - Costs(fills)
        /\ Costs(fills) \in Int /\ Costs(F) \in Int
    BY <1>3, <1>7, LedgerSums
  <2>3. cash = CashAfter(fills) /\ StartCash \in Int
    BY <1>1, ConstantsAssumption DEF LedgerOK
  <2> QED
    BY <1>3, <2>1, <2>2, <2>3
<1>9. ASSUME NEW c \in Codes PROVE t.qty[c] = QtyAfter(A, c)
  <2>1. Moved(A, c) = Moved(fills, c) + Moved(F, c)
    BY <1>3, <1>6, <1>7, LedgerAdds DEF A
  <2>2. /\ QtyAfter(A, c) = StartQty[c] + Moved(A, c)
        /\ QtyAfter(fills, c) = StartQty[c] + Moved(fills, c)
        /\ Moved(fills, c) \in Int /\ Moved(F, c) \in Int
    BY <1>3, <1>7, LedgerSums
  <2>3. qty[c] = QtyAfter(fills, c) /\ StartQty[c] \in Int
    BY <1>1, ConstantsAssumption DEF LedgerOK
  <2>4. Moved(F, c) = t.qty[c] - qty[c] /\ t.qty[c] \in Int
    BY <1>2, <1>5
  <2> QED
    BY <2>1, <2>2, <2>3, <2>4
<1> QED
  BY <1>2, <1>3, <1>8, <1>9 DEF A, F, t

LEMMA AttemptLInv ==
  ASSUME IInv, LInv, NEW route \in Routes, NEW plan \in Plans, NEW q \in Quotes,
         Attempt(route, plan, q)
  PROVE  LInv'
<1> DEFINE t == Traded(route, plan, q)
           F == NewFills(route, plan, q, t.qty)
           b == NewBatch(route, plan, q, t.qty)
<1>1. day \in Days /\ Admissible(route, plan)
  BY DEF IInv, CalendarOK, Attempt
<1>2. /\ t.cash \in Nat /\ t.qty \in [Codes -> Nat] /\ F \subseteq Fill /\ IsFiniteSet(F)
      /\ t.cash = CashAfter(fills \cup F)
      /\ \A c \in Codes : t.qty[c] = QtyAfter(fills \cup F, c)
  BY <1>1, AttemptLedger
<1>3. BatchOK(b, OfDay(fills \cup F, day), EndOf(fills, day - 1), t.qty)
  BY <1>1, AttemptBatch
<1>4. /\ job' = [batch |-> b, quotes |-> q, cash |-> t.cash, qty |-> t.qty, fills |-> F]
      /\ UNCHANGED <<cash, qty, fills, batch, mark, nav, day, phase>>
  BY DEF Attempt, ledger, views, clock
<1> HIDE DEF t, F, b
<1>5. job'.batch = b /\ job'.quotes = q /\ job'.cash = t.cash /\ job'.qty = t.qty
      /\ job'.fills = F
  BY <1>4
<1>6. LedgerOK'
  BY <1>4 DEF LInv, LedgerOK
<1>7. DaysOK'
  BY <1>4 DEF LInv, DaysOK, Known
<1>8. OpenOK'
  BY <1>2, <1>3, <1>4, <1>5 DEF OpenOK
<1>9. ViewsOK'
  BY <1>4, <1>5 DEF LInv, ViewsOK
<1> QED
  BY <1>6, <1>7, <1>8, <1>9 DEF LInv

\* The fills of a commit are of its day: they change no day before.
LEMMA OldDays ==
  ASSUME NEW S, NEW F, NEW e \in Int, \A f \in F : f.day = e, NEW d \in Int, d < e
  PROVE  Till(S \cup F, d) = Till(S, d) /\ OfDay(S \cup F, d) = OfDay(S, d)
BY DEF Till, OfDay

LEMMA CommitLInv == IInv /\ LInv /\ Commit => LInv'
<1> SUFFICES ASSUME IInv, LInv, Commit PROVE LInv'
  OBVIOUS
<1> DEFINE F == job.fills
           A == fills \cup F
<1>1. /\ pc = "cleared" /\ pc \in Open /\ day \in Days /\ phase # "closed"
      /\ \A f \in F : f.day = day
  BY DEF IInv, Commit, CalendarOK, WorkerOK, JobOK, Open
<1>2. /\ cash' = job.cash /\ qty' = job.qty /\ fills' = A
      /\ batch' = [batch EXCEPT ![day] = job.batch]
      /\ pc' = "committed" /\ UNCHANGED <<mark, nav, day, phase, job>>
  BY DEF Commit, views, clock
<1>3. /\ job.cash \in Nat /\ job.qty \in [Codes -> Nat] /\ F \subseteq Fill /\ IsFiniteSet(F)
      /\ job.cash = CashAfter(A) /\ \A c \in Codes : job.qty[c] = QtyAfter(A, c)
      /\ BatchOK(job.batch, OfDay(A, day), EndOf(fills, day - 1), job.qty)
  BY <1>1 DEF LInv, OpenOK
<1>4. day \in Int
  BY <1>1 DEF Days
<1>5. \A d \in Int : d < day => Till(A, d) = Till(fills, d) /\ OfDay(A, d) = OfDay(fills, d)
  BY <1>1, <1>4, OldDays
<1>6. batch'[day] = job.batch /\ \A d \in Days : d # day => batch'[d] = batch[d]
  BY <1>1, <1>2 DEF IInv, TablesOK
<1>7. A \subseteq Fill /\ IsFiniteSet(A) /\ \A f \in A : f.day <= day
  <2>1. fills \subseteq Fill /\ IsFiniteSet(fills) /\ \A f \in fills : f.day <= day
    BY DEF LInv, LedgerOK
  <2>2. IsFiniteSet(A) /\ A \subseteq Fill
    BY <1>3, <2>1, FS_Union
  <2>3. \A f \in F : f.day <= day
    BY <1>1, <1>4
  <2> HIDE DEF F
  <2> QED
    BY <2>1, <2>2, <2>3
<1> HIDE DEF A, F
<1>8. LedgerOK'
  BY <1>2, <1>3, <1>7 DEF LedgerOK
<1>9. DaysOK'
  <2> SUFFICES ASSUME NEW d \in Days, Known(d)'
               PROVE  d <= day /\ BatchOK(batch'[d], OfDay(A, d), EndOf(A, d - 1), EndOf(A, d))
    BY <1>2 DEF DaysOK
  <2>1. CASE d = day
    <3>1. Till(A, day) = A
      BY <1>7 DEF Till
    <3>2. EndOf(A, day) = job.qty
      BY <1>3, <3>1 DEF EndOf
    <3>3. EndOf(A, day - 1) = EndOf(fills, day - 1)
      BY <1>4, <1>5 DEF EndOf
    <3> QED
      BY <1>3, <1>4, <1>6, <2>1, <3>2, <3>3
  <2>2. CASE d # day
    <3>1. Known(d) /\ batch'[d] = batch[d]
      BY <1>6, <2>2 DEF Known
    <3>2. d <= day /\ BatchOK(batch[d], OfDay(fills, d), EndOf(fills, d - 1), EndOf(fills, d))
      BY <3>1 DEF LInv, DaysOK
    <3>3. d < day /\ d \in Int /\ d - 1 < day /\ d - 1 \in Int
      BY <1>4, <2>2, <3>2 DEF Days
    <3>4. EndOf(A, d) = EndOf(fills, d) /\ EndOf(A, d - 1) = EndOf(fills, d - 1)
          /\ OfDay(A, d) = OfDay(fills, d)
      BY <1>5, <3>3 DEF EndOf
    <3> QED
      BY <3>1, <3>2, <3>4
  <2> QED
    BY <2>1, <2>2
<1>10. OpenOK'
  BY <1>2 DEF OpenOK, Open
<1>11. ViewsOK'
  <2>1. ASSUME NEW d \in 0..MaxDay, nav[d].basis = "close"
        PROVE  d < day /\ Till(A, d) = Till(fills, d)
    BY <1>1, <1>5, <2>1 DEF LInv, ViewsOK
  <2> QED
    BY <1>1, <1>2, <2>1 DEF LInv, ViewsOK
<1> QED
  BY <1>8, <1>9, <1>10, <1>11 DEF LInv

\* An observation marks, and values the book if everything held has a mark.
LEMMA MarkedTyped ==
  ASSUME LedgerOK, ViewsOK, NEW q \in Quotes, NEW at \in 0..(2 * MaxDay + 1)
  PROVE  Marked(q, at) \in [Codes -> Mark]
<1>1. \A c \in Codes : q[c] \in Prices \cup {NoPrice} /\ mark[c] \in Mark
  BY ConstantsAssumption DEF ViewsOK
<1>2. \A c \in Codes : [price |-> q[c], at |-> at] \in Mark
  BY <1>1 DEF Mark
<1> QED
  BY <1>1, <1>2 DEF Marked

LEMMA ValueTyped ==
  ASSUME LedgerOK, ViewsOK, NEW d \in 0..MaxDay, NEW basis \in {"live", "close"},
         Value(d, basis)
  PROVE  /\ nav' \in [0..MaxDay -> Nav]
         /\ nav'[d].basis = basis /\ nav'[d].cash = cash /\ nav'[d].qty = qty
         /\ \A e \in 0..MaxDay : e # d => nav'[e] = nav[e]
<1>1. nav \in [0..MaxDay -> Nav]
  BY DEF ViewsOK
<1> DEFINE v == [basis |-> basis, cash |-> cash, qty |-> qty]
<1>2. v \in Nav
  BY DEF Nav, LedgerOK
<1>3. v.basis = basis /\ v.cash = cash /\ v.qty = qty
  OBVIOUS
<1>4. nav' = [nav EXCEPT ![d] = v]
  BY DEF Value
<1> HIDE DEF v
<1>5. nav' \in [0..MaxDay -> Nav] /\ nav'[d] = v /\ \A e \in 0..MaxDay : e # d => nav'[e] = nav[e]
  BY <1>1, <1>2, <1>4
<1> QED
  BY <1>3, <1>5

\* A step that leaves the tables alone and goes back in no attempt and no day.
LEMMA QuietLInv ==
  ASSUME LInv, UNCHANGED ledger, day \in Int, day' \in Int, day <= day',
         pc' \in Open => pc \in Open /\ job' = job /\ day' = day
  PROVE  LedgerOK' /\ DaysOK' /\ OpenOK'
<1>1. UNCHANGED <<cash, qty, fills, batch>>
  BY DEF ledger
<1>2. LedgerOK'
  <2>1. \A f \in fills : f.day \in Int /\ f.day <= day
    BY DEF LInv, LedgerOK, Fill, Days
  <2>2. \A f \in fills : f.day <= day'
    BY <2>1
  <2> QED
    BY <1>1, <2>2 DEF LInv, LedgerOK
<1>3. DaysOK'
  <2>1. \A d \in Days : Known(d) => d <= day'
    BY DEF LInv, DaysOK, Days
  <2> QED
    BY <1>1, <2>1 DEF LInv, DaysOK, Known
<1>4. OpenOK'
  BY <1>1 DEF LInv, OpenOK
<1> QED
  BY <1>2, <1>3, <1>4

\* The calendar never reopens a day that was valued at its close.
LEMMA CalendarViews ==
  ASSUME LInv, UNCHANGED <<ledger, views>>, day \in Int,
         pc' # "idle" => pc # "idle" /\ job' = job,
         \/ day' = day /\ (phase = "closed" => phase' = "closed")
         \/ day' = day + 1
  PROVE  ViewsOK'
<1>1. UNCHANGED <<fills, mark, nav>>
  BY DEF ledger, views
<1>2. ASSUME NEW d \in 0..MaxDay, nav[d].basis = "close"
      PROVE  d < day' \/ (d = day' /\ phase' = "closed")
  BY <1>2 DEF LInv, ViewsOK
<1> QED
  BY <1>1, <1>2 DEF LInv, ViewsOK

LEMMA CalendarLInv ==
  ASSUME IInv, LInv,
         \/ GiveUp \/ Clear \/ NextDay \/ WindowEnds \/ SessionEnds
         \/ Start \/ Stop \/ Halt \/ HaltLatch \/ WorkerEnds \/ Reboot \/ UNCHANGED vars
  PROVE  LInv'
<1>1. day \in Int
  BY DEF IInv, CalendarOK
<1>2. UNCHANGED <<ledger, views>>
  BY DEF GiveUp, Clear, NextDay, WindowEnds, SessionEnds, Start, Stop, Halt, HaltLatch,
         WorkerEnds, Reboot, vars
<1>3. \/ day' = day /\ (phase = "closed" => phase' = "closed")
      \/ day' = day + 1 /\ pc' = pc /\ pc = "idle"
  BY DEF GiveUp, Clear, NextDay, WindowEnds, SessionEnds, Start, Stop, Halt, HaltLatch,
         WorkerEnds, Reboot, vars, clock, IInv, WorkerOK
<1>4. /\ pc' # "idle" => pc # "idle" /\ job' = job
      /\ pc' \in Open => pc \in Open
  BY DEF GiveUp, Clear, NextDay, WindowEnds, SessionEnds, Start, Stop, Halt, HaltLatch,
         WorkerEnds, Reboot, vars, Open
<1>5. pc' \in Open => pc \in Open /\ job' = job /\ day' = day
  BY <1>3, <1>4 DEF Open
<1>6. day' \in Int /\ day <= day'
  BY <1>1, <1>3
<1>7. LedgerOK' /\ DaysOK' /\ OpenOK'
  BY <1>1, <1>2, <1>5, <1>6, QuietLInv
<1>8. ViewsOK'
  BY <1>1, <1>2, <1>3, <1>4, CalendarViews
<1> QED
  BY <1>7, <1>8 DEF LInv

\* A valuation that is not a close's.
LEMMA LiveLInv ==
  ASSUME IInv, LInv, NEW q \in Quotes, MarkLive(q), UNCHANGED <<ledger, clock>>,
         pc' # "idle" => pc' = pc /\ job' = job
  PROVE  LInv'
<1>1. day \in 0..MaxDay /\ day' = day /\ phase' = phase /\ MaxDay \in Nat
  BY ConstantsAssumption DEF IInv, CalendarOK, clock
<1>2. LedgerOK' /\ DaysOK' /\ OpenOK'
  <2>1. day \in Int /\ day' \in Int /\ day <= day'
    BY <1>1
  <2>2. pc' \in Open => pc \in Open /\ job' = job /\ day' = day
    BY <1>1 DEF Open
  <2> QED
    BY <2>1, <2>2, QuietLInv
<1>3. mark' \in [Codes -> Mark]
  <2>1. 2 * day \in 0..(2 * MaxDay + 1)
    BY <1>1
  <2> QED
    BY <2>1, MarkedTyped DEF MarkLive, LInv
<1>4. pc' # "idle" => job'.quotes \in Quotes
  BY DEF LInv, ViewsOK
<1>5. CASE nav' = nav
  BY <1>1, <1>2, <1>3, <1>4, <1>5 DEF LInv, ViewsOK, ledger
<1>6. CASE Value(day, "live")
  <2>1. nav' \in [0..MaxDay -> Nav] /\ nav'[day].basis = "live"
        /\ \A e \in 0..MaxDay : e # day => nav'[e] = nav[e]
    BY <1>1, <1>6, ValueTyped DEF LInv
  <2>2. \A e \in 0..MaxDay : nav'[e].basis = "close" => e # day /\ nav'[e] = nav[e]
    BY <2>1
  <2>3. ViewsOK'
    BY <1>1, <1>3, <1>4, <2>1, <2>2 DEF LInv, ViewsOK, ledger
  <2> QED
    BY <1>2, <2>3 DEF LInv
<1>7. nav' = nav \/ Value(day, "live")
  BY DEF MarkLive
<1> QED
  BY <1>2, <1>5, <1>6, <1>7 DEF LInv

\* A close is recorded from a book that no fill has changed since.
LEMMA CloseLInv ==
  ASSUME IInv, LInv, NEW d \in 0..MaxDay, NEW q \in Quotes, RecordClose(d, q)
  PROVE  LInv'
<1>1. day \in Int /\ day' = day /\ phase' = phase /\ MaxDay \in Nat
      /\ pc' = pc /\ job' = job /\ pc = "idle"
  BY ConstantsAssumption DEF IInv, CalendarOK, clock, RecordClose
<1>2. LedgerOK' /\ DaysOK' /\ OpenOK'
  <2>1. UNCHANGED ledger /\ day <= day' /\ day' \in Int
    BY <1>1 DEF RecordClose
  <2> QED
    BY <1>1, <2>1, QuietLInv
<1>3. mark' \in [Codes -> Mark]
  <2>1. 2 * d + 1 \in 0..(2 * MaxDay + 1)
    BY <1>1
  <2> QED
    BY <2>1, MarkedTyped DEF RecordClose, LInv
<1>4. nav' \in [0..MaxDay -> Nav] /\ nav'[d].cash = cash /\ nav'[d].qty = qty
      /\ \A e \in 0..MaxDay : e # d => nav'[e] = nav[e]
  BY ValueTyped DEF RecordClose, LInv
<1>5. Till(fills, d) = fills /\ (d < day \/ (d = day /\ phase = "closed"))
  BY DEF Till, RecordClose
<1>6. cash = CashAfter(Till(fills, d)) /\ \A c \in Codes : qty[c] = QtyAfter(Till(fills, d), c)
  BY <1>5 DEF LInv, LedgerOK
<1>7. fills' = fills
  BY DEF RecordClose, ledger
<1>8. ASSUME NEW e \in 0..MaxDay, nav'[e].basis = "close"
      PROVE  /\ e < day \/ (e = day /\ phase = "closed")
             /\ nav'[e].cash = CashAfter(Till(fills, e))
             /\ \A c \in Codes : nav'[e].qty[c] = QtyAfter(Till(fills, e), c)
  <2>1. CASE e = d
    BY <1>4, <1>5, <1>6, <2>1
  <2>2. CASE e # d
    BY <1>4, <1>8, <2>2 DEF LInv, ViewsOK
  <2> QED
    BY <2>1, <2>2
<1>9. ViewsOK'
  BY <1>1, <1>3, <1>4, <1>7, <1>8 DEF ViewsOK
<1> QED
  BY <1>2, <1>9 DEF LInv

LEMMA InitLInv == Init => LInv
<1> SUFFICES ASSUME Init PROVE LInv
  OBVIOUS
<1>1. \A c : QtyAfter({}, c) = StartQty[c] + SumFunctionOnSet([f \in {} |-> Signed(f)], {})
  BY DEF QtyAfter
<1>2. CashAfter({}) = StartCash - SumFunctionOnSet([f \in {} |-> Cost(f)], {})
  BY DEF CashAfter
<1>3. CashAfter({}) = cash /\ \A c \in Codes : QtyAfter({}, c) = qty[c]
  BY <1>1, <1>2, SumEmpty, ConstantsAssumption DEF Init
<1>4. LedgerOK
  BY <1>3, FS_EmptySet, ConstantsAssumption DEF Init, LedgerOK
<1>5. DaysOK /\ OpenOK
  BY DEF Init, DaysOK, Known, NoBatch, OpenOK, Open
<1>6. ViewsOK
  <2>1. [price |-> NoPrice, at |-> 0] \in Mark
    BY ConstantsAssumption DEF Mark
  <2>2. [basis |-> "none", cash |-> 0, qty |-> StartQty] \in Nav
    BY ConstantsAssumption DEF Nav
  <2>3. mark \in [Codes -> Mark] /\ nav \in [0..MaxDay -> Nav]
    BY <2>1, <2>2 DEF Init
  <2> QED
    BY <2>3 DEF Init, ViewsOK
<1> QED
  BY <1>4, <1>5, <1>6 DEF LInv

LEMMA StepLInv == IInv /\ LInv /\ [Next]_vars => LInv'
<1> SUFFICES ASSUME IInv, LInv, [Next]_vars PROVE LInv'
  OBVIOUS
<1>1. CASE \E route \in Routes, plan \in Plans, q \in Quotes : Attempt(route, plan, q)
  BY <1>1, AttemptLInv
<1>2. CASE Commit
  BY <1>2, CommitLInv
<1>3. CASE AttemptMarks
  <2>1. job.quotes \in Quotes
    BY <1>3 DEF AttemptMarks, LInv, ViewsOK
  <2> QED
    BY <1>3, <2>1, LiveLInv DEF AttemptMarks
<1>4. CASE \E q \in Quotes : MarkBook(q)
  BY <1>4, LiveLInv DEF MarkBook
<1>5. CASE \E d \in 0..MaxDay, q \in Quotes : RecordClose(d, q)
  BY <1>5, CloseLInv
<1> QED
  BY <1>1, <1>2, <1>3, <1>4, <1>5, CalendarLInv DEF Next

LEMMA LedgerInvariance == Spec => [](IInv /\ LInv)
  BY InitIInv, StepIInv, InitLInv, StepLInv, PTL DEF Spec

\* Cash and holdings are the start and every committed fill with its fee, whatever
\* attempts were stopped, rolled back or lost in a crash (paper_rebalance).
THEOREM LedgerIsItsFills == Spec => []LedgerIsFills
<1>1. LInv => LedgerIsFills
  BY DEF LInv, LedgerOK, LedgerIsFills
<1> QED
  BY <1>1, LedgerInvariance, PTL

\* Over all attempts of a day a code is traded one way and, on the automatic
\* route, never past its frozen target (pending_targets).
THEOREM OneWayTrades == Spec => []TowardsTarget
<1>1. IInv /\ LInv => TowardsTarget
  <2> SUFFICES ASSUME IInv, LInv, NEW d \in Days, Known(d), NEW c \in Codes
               PROVE  LET today == {f \in fills : f.day = d /\ f.code = c}
                          before == QtyAfter(UpTo(d - 1), c)
                          now == QtyAfter(UpTo(d), c)
                      IN  /\ \A f, g \in today : f.side = g.side
                          /\ batch[d].target[c] # None /\ now > before => now <= batch[d].target[c]
                          /\ batch[d].target[c] # None /\ now < before => now >= batch[d].target[c]
    BY DEF TowardsTarget
  <2> DEFINE was == EndOf(fills, d - 1)[c]
             now == EndOf(fills, d)[c]
             mine == Own(OfDay(fills, d), c)
  <2>1. CodeOK(batch[d], c, mine, was, now) /\ batch[d] \in Batch
    BY DEF LInv, DaysOK, BatchOK
  <2>2. was \in Int /\ now \in Int
    BY EndOfInt DEF LInv
  <2>3. was = QtyAfter(UpTo(d - 1), c) /\ now = QtyAfter(UpTo(d), c)
    BY DEF EndOf, UpTo, Till
  <2>4. mine = {f \in fills : f.day = d /\ f.code = c}
    BY DEF Own, OfDay
  <2>5. batch[d].target[c] \in Nat \cup {None}
    BY <2>1 DEF Batch
  <2> HIDE DEF was, now, mine
  <2>6. /\ batch[d].target[c] # None /\ now > was => now <= batch[d].target[c]
        /\ batch[d].target[c] # None /\ now < was => now >= batch[d].target[c]
    BY <2>1, <2>2, <2>5 DEF CodeOK
  <2> QED
    BY <2>1, <2>3, <2>4, <2>6 DEF CodeOK
<1> QED
  BY <1>1, LedgerInvariance, PTL

\* An automatic batch is EXECUTED only with every frozen target reached
\* (CASH_CONSTRAINT keeps a code pending).
THEOREM ExecutedMeansReached == Spec => []ExecutedIsReached
<1>1. IInv /\ LInv => ExecutedIsReached
  <2> SUFFICES ASSUME IInv, LInv, NEW d \in Days, Known(d), batch[d].status = "EXECUTED",
                      NEW c \in Codes, batch[d].target[c] # None
               PROVE  QtyAfter(UpTo(d), c) = batch[d].target[c]
    BY DEF ExecutedIsReached
  <2>1. /\ CodeOK(batch[d], c, Own(OfDay(fills, d), c), EndOf(fills, d - 1)[c], EndOf(fills, d)[c])
        /\ batch[d].required \subseteq batch[d].processed
    BY DEF LInv, DaysOK, BatchOK
  <2>2. EndOf(fills, d)[c] = batch[d].target[c]
    BY <2>1 DEF CodeOK
  <2> QED
    BY <2>2 DEF EndOf, UpTo, Till
<1> QED
  BY <1>1, LedgerInvariance, PTL

\* A day valued at its close shows the book of that close, however late it is
\* recorded (paper_record_close).
THEOREM CloseShowsItsDay == Spec => []NavOfItsDay
<1>1. LInv => NavOfItsDay
  BY DEF LInv, ViewsOK, NavOfItsDay, UpTo, Till
<1> QED
  BY <1>1, LedgerInvariance, PTL

\* The rest of the types.
RestTyped ==
  /\ \A d \in Days : Known(d) \/ batch[d] = NoBatch
  /\ haltReason \in BOOLEAN /\ haltEv \in BOOLEAN /\ cancelEv \in BOOLEAN
  /\ phase \in {"window", "session", "closed"}
  /\ pc \in {"idle", "computed", "cleared", "committed"}
  /\ worker \in BOOLEAN /\ asked \in BOOLEAN

LEMMA StepRest == IInv /\ RestTyped /\ [Next]_vars => RestTyped'
<1> SUFFICES ASSUME IInv, RestTyped, [Next]_vars PROVE RestTyped'
  OBVIOUS
<1> DEFINE Flags == /\ haltReason \in BOOLEAN /\ haltEv \in BOOLEAN /\ cancelEv \in BOOLEAN
                    /\ phase \in {"window", "session", "closed"}
                    /\ pc \in {"idle", "computed", "cleared", "committed"}
                    /\ worker \in BOOLEAN /\ asked \in BOOLEAN
           Batches == \A d \in Days : Known(d) \/ batch[d] = NoBatch
<1>1. CASE \E route \in Routes, plan \in Plans, q \in Quotes : Attempt(route, plan, q)
  BY <1>1 DEF Attempt, RestTyped, Known, ledger, clock
<1>2. CASE Commit
  <2>1. Wellformed(job.batch) /\ batch' = [batch EXCEPT ![day] = job.batch]
        /\ pc = "cleared" /\ day \in Days
    BY <1>2 DEF Commit, IInv, JobOK, WorkerOK, CalendarOK, Open
  <2>2. batch'[day] = job.batch /\ \A d \in Days : d # day => batch'[d] = batch[d]
    BY <2>1 DEF IInv, TablesOK
  <2>3. Batches'
    BY <2>1, <2>2 DEF RestTyped, Known, Wellformed
  <2>4. Flags'
    BY <1>2 DEF Commit, RestTyped, clock, flags
  <2> QED
    BY <2>3, <2>4 DEF RestTyped
<1>3. CASE GiveUp \/ Clear \/ AttemptMarks
  BY <1>3 DEF GiveUp, Clear, AttemptMarks, RestTyped, Known, ledger, clock, flags
<1>4. CASE \/ \E q \in Quotes : MarkBook(q)
           \/ \E d \in 0..MaxDay, q \in Quotes : RecordClose(d, q)
  BY <1>4 DEF MarkBook, RecordClose, RestTyped, Known, ledger, clock, flags
<1>5. CASE NextDay \/ WindowEnds \/ SessionEnds
  BY <1>5 DEF NextDay, WindowEnds, SessionEnds, RestTyped, Known, ledger, flags
<1>6. CASE Start \/ Stop \/ Halt \/ HaltLatch \/ WorkerEnds \/ Reboot
  <2>1. Batches'
    BY <1>6 DEF Start, Stop, Halt, HaltLatch, WorkerEnds, Reboot, RestTyped, Known, ledger
  <2>2. Flags
    BY DEF RestTyped
  <2>3. CASE Start \/ Stop \/ Halt
    BY <2>1, <2>2, <2>3 DEF Start, Stop, Halt, RestTyped, clock
  <2>4. CASE HaltLatch \/ WorkerEnds
    BY <2>1, <2>2, <2>4 DEF HaltLatch, WorkerEnds, RestTyped, clock, flags
  <2>5. CASE Reboot
    <3>1. haltEv' \in BOOLEAN /\ haltReason' \in BOOLEAN
      BY <2>2, <2>5 DEF Reboot
    <3> QED
      BY <2>1, <2>2, <2>5, <3>1 DEF Reboot, RestTyped, clock
  <2> QED
    BY <1>6, <2>3, <2>4, <2>5
<1>7. CASE UNCHANGED vars
  BY <1>7 DEF vars, RestTyped, Known, ledger, clock, flags
<1> QED
  BY <1>1, <1>2, <1>3, <1>4, <1>5, <1>6, <1>7 DEF Next

\* Every state is well typed: the cash is never negative, a fill never empty and
\* the books of a batch and a day complete (paper_rebalance, its fees and cuts).
THEOREM TypesHold == Spec => []TypeOK
<1>1. Init => RestTyped
  BY DEF Init, RestTyped, Known
<1>2. IInv /\ LInv /\ RestTyped => TypeOK
  <2> SUFFICES ASSUME IInv, LInv, RestTyped PROVE TypeOK
    OBVIOUS
  <2>1. \A d \in Days : batch[d] = NoBatch \/ batch[d] \in Batch
    BY DEF LInv, DaysOK, BatchOK, RestTyped
  <2> QED
    BY <2>1 DEF LInv, LedgerOK, ViewsOK, IInv, CalendarOK, RestTyped, TypeOK
<1> QED
  BY <1>1, <1>2, StepRest, LedgerInvariance, PTL DEF Spec
=============================================================================
