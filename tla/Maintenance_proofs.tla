------------------------- MODULE Maintenance_proofs -------------------------
(***************************************************************************)
(* The maintenance lease, whatever the clients call and however many       *)
(* threads serve them. Its operations exclude one another (OneOp): a       *)
(* thread enters an operation only where the record shows none, and only   *)
(* the thread that is inside takes the mark away. No tick runs while a     *)
(* drained lease holds the owners (QuietLease), an end that failed leaves  *)
(* them stopped (FailuresStayPaused), and a user's stop wins over a lease  *)
(* (UserStopsWin) and leaves no chart job behind (JobsNeverStray).         *)
(***************************************************************************)
EXTENDS Maintenance, TLAPS

Record == [phase : Phases, op : BOOLEAN, restore : BOOLEAN, cancel : BOOLEAN,
           prepared : BOOLEAN, watch : BOOLEAN, drained : BOOLEAN]
Backs == {"idle", "drain", "finish", "failed"}
Places == {"idle", "request", "register", "begin", "suspend", "check", "refuse", "drain", "status",
           "prepare", "prepare2", "prepare3", "charts", "charts2", "end", "qualify", "resume",
           "decide", "finish", "fail", "failed", "guard", "start", "clear", "bguard", "bstart",
           "connect", "stop", "override", "bstop", "boverride", "bstopped",
           "lstop", "lstop2", "lstop3"}
CallNames == {"none", "ucharts", "begin", "status", "prepare", "charts", "end", "abort",
              "start", "bstart", "stop", "bstop", "halt"}
Handlers == [at : Places, call : CallNames, back : Backs]
Shape == rec \in Record /\ handler \in [Threads -> Handlers]

\* Inside an operation the record is that of a lease, and is marked.
Exclusive ==
    \A t \in Threads : InOperation(t) =>
        rec.op /\ Active /\ \A u \in Threads : InOperation(u) => u = t

Inv == Shape /\ Exclusive

OthersSame(t) == \A u \in Threads \ {t} : handler'[u] = handler[u]
Marked == rec'.op = rec.op /\ (Active => Active')

LEMMA OthersInside ==
  ASSUME NEW t \in Threads, OthersSame(t), NEW u \in Threads \ {t}
  PROVE  InOperation(u)' = InOperation(u)
BY DEF OthersSame, InOperation, At

(* A step of a thread that enters no operation and leaves the mark alone.     *)
LEMMA Stays ==
  ASSUME Exclusive, NEW t \in Threads, OthersSame(t), Marked, InOperation(t)' => InOperation(t)
  PROVE  Exclusive'
<1>1. \A u \in Threads : InOperation(u)' => InOperation(u)
  BY OthersInside
<1> QED
  BY <1>1 DEF Exclusive, Marked

(* The thread inside leaves.                                                  *)
LEMMA Leaves ==
  ASSUME Exclusive, NEW t \in Threads, OthersSame(t), InOperation(t), ~InOperation(t)'
  PROVE  Exclusive'
<1>1. \A u \in Threads : ~InOperation(u)'
  BY OthersInside DEF Exclusive
<1> QED
  BY <1>1 DEF Exclusive

(* A thread enters where none is inside.                                      *)
LEMMA Enters ==
  ASSUME NEW t \in Threads, OthersSame(t), \A u \in Threads : ~InOperation(u), rec'.op, Active'
  PROVE  Exclusive'
<1>1. \A u \in Threads \ {t} : ~InOperation(u)'
  BY OthersInside
<1> QED
  BY <1>1 DEF Exclusive

(* How a handler moves.                                                       *)
LEMMA Goes ==
  ASSUME Shape, NEW t \in Threads, NEW place \in Places, Go(t, place)
  PROVE  /\ OthersSame(t) /\ handler' \in [Threads -> Handlers]
         /\ place = "idle" => handler'[t] = Idle
         /\ place # "idle" => /\ handler'[t].at = place /\ handler'[t].call = handler[t].call
                              /\ handler'[t].back = handler[t].back
BY DEF Shape, Go, OthersSame, Handlers, Idle, Backs, Places, CallNames

LEMMA StopsNext ==
  ASSUME Shape, NEW t \in Threads, NEW place \in Backs, ThenStop(t, place)
  PROVE  /\ OthersSame(t) /\ handler' \in [Threads -> Handlers]
         /\ handler'[t].at = "lstop" /\ handler'[t].call = handler[t].call
         /\ handler'[t].back = place
<1>1. handler' = [handler EXCEPT ![t] = [[handler[t] EXCEPT !.at = "lstop"] EXCEPT !.back = place]]
  BY DEF ThenStop
<1>2. [[handler[t] EXCEPT !.at = "lstop"] EXCEPT !.back = place] \in Handlers
  BY DEF Shape, Handlers, Places
<1> QED
  BY <1>1, <1>2 DEF Shape, OthersSame, Handlers

LEMMA IdleOutside ==
  ASSUME NEW t \in Threads, handler[t] = Idle
  PROVE  ~InOperation(t)
BY DEF InOperation, At, Idle

(* The record after a status call: the same mark, and still that of a lease.  *)
LEMMA StatusKeeps ==
  ASSUME NEW r \in Record, NEW o \in Statuses(r)
  PROVE  /\ o[1] \in Record /\ o[1].op = r.op
         /\ r.phase \notin {"NONE", "FINISHED"} => o[1].phase \notin {"NONE", "FINISHED"}
<1>0. PICK w \in Watched(r) : \E j \in AfterCancel(w) :
        o = LET k == IF j \in {"ok", "bad"} THEN "none" ELSE j IN <<Settled(Exited(w, j), k), k>>
  BY DEF Statuses
<1>1. PICK j \in AfterCancel(w) :
        o = LET k == IF j \in {"ok", "bad"} THEN "none" ELSE j IN <<Settled(Exited(w, j), k), k>>
  BY <1>0
<1>2. /\ w \in Record /\ w.op = r.op
      /\ r.phase \notin {"NONE", "FINISHED"} => w.phase \notin {"NONE", "FINISHED"}
  BY DEF Watched, Record, Phases
<1>3. /\ Exited(w, j) \in Record /\ Exited(w, j).op = w.op
      /\ w.phase \notin {"NONE", "FINISHED"} => Exited(w, j).phase \notin {"NONE", "FINISHED"}
  BY <1>2 DEF Exited, Record, Phases
<1>4. ASSUME NEW x \in Record, NEW k
      PROVE  /\ Settled(x, k) \in Record /\ Settled(x, k).op = x.op
             /\ x.phase \notin {"NONE", "FINISHED"} => Settled(x, k).phase \notin {"NONE", "FINISHED"}
  BY DEF Settled, Record, Phases
<1>5. PICK k : o = <<Settled(Exited(w, j), k), k>>
  BY <1>1
<1>6. o[1] = Settled(Exited(w, j), k)
  BY <1>5
<1> QED
  BY <1>2, <1>3, <1>4, <1>6

LEMMA UserStopKeeps ==
  ASSUME Shape
  PROVE  /\ UserStopped \in Record /\ UserStopped.op = rec.op
         /\ Active => UserStopped.phase \notin {"NONE", "FINISHED"}
BY DEF Shape, UserStopped, Active, Record, Phases

(* Where a call at a place is inside an operation.                            *)
Within(place, call, back) ==
    \/ place \in {"suspend", "check", "refuse", "drain", "prepare2", "prepare3", "charts2",
                  "qualify", "resume", "decide", "finish", "fail", "failed"}
    \/ call = "end" /\ place \in {"guard", "start", "clear", "bguard", "bstart", "connect"}
    \/ place \in {"lstop", "lstop2", "lstop3"} /\ back # "idle"

LEMMA Placed ==
  ASSUME NEW t \in Threads
  PROVE  InOperation(t) <=> Within(handler[t].at, handler[t].call, handler[t].back)
BY DEF InOperation, At, Within

LEMMA PlacedNext ==
  ASSUME NEW t \in Threads
  PROVE  InOperation(t)' <=> Within(handler'[t].at, handler'[t].call, handler'[t].back)
BY DEF InOperation, At, Within

(* A step to another place that enters no operation.                          *)
LEMMA Moves ==
  ASSUME Inv, NEW t \in Threads, NEW place \in Places, Go(t, place), rec' \in Record, Marked,
         Within(place, handler[t].call, handler[t].back) => InOperation(t)
  PROVE  Inv'
<1>1. /\ OthersSame(t) /\ handler' \in [Threads -> Handlers]
      /\ place = "idle" => handler'[t] = Idle
      /\ place # "idle" => /\ handler'[t].at = place /\ handler'[t].call = handler[t].call
                           /\ handler'[t].back = handler[t].back
  BY Goes DEF Inv
<1>2. InOperation(t)' => InOperation(t)
  <2>1. CASE place = "idle"
    BY <1>1, <2>1, PlacedNext DEF Within, Idle
  <2>2. CASE place # "idle"
    BY <1>1, <2>2, PlacedNext
  <2> QED
    BY <2>1, <2>2
<1> QED
  BY <1>1, <1>2, Stays DEF Inv, Shape

(* The thread inside leaves.                                                  *)
LEMMA MovesOut ==
  ASSUME Inv, NEW t \in Threads, NEW place \in Places, Go(t, place), rec' \in Record,
         InOperation(t), ~Within(place, handler[t].call, handler[t].back)
  PROVE  Inv'
<1>1. /\ OthersSame(t) /\ handler' \in [Threads -> Handlers]
      /\ place = "idle" => handler'[t] = Idle
      /\ place # "idle" => /\ handler'[t].at = place /\ handler'[t].call = handler[t].call
                           /\ handler'[t].back = handler[t].back
  BY Goes DEF Inv
<1>2. ~InOperation(t)'
  <2>1. CASE place = "idle"
    BY <1>1, <2>1, PlacedNext DEF Within, Idle
  <2>2. CASE place # "idle"
    BY <1>1, <2>2, PlacedNext
  <2> QED
    BY <2>1, <2>2
<1> QED
  BY <1>1, <1>2, Leaves DEF Inv, Shape

(* A thread enters from outside, where the record is not marked.              *)
LEMMA MovesIn ==
  ASSUME Inv, NEW t \in Threads, NEW place \in Places, Go(t, place), rec' \in Record,
         \A u \in Threads : ~InOperation(u), rec'.op, Active'
  PROVE  Inv'
BY Goes, Enters DEF Inv, Shape

(* A step into the nested stop.                                               *)
LEMMA MovesToStop ==
  ASSUME Inv, NEW t \in Threads, NEW place \in Backs, ThenStop(t, place), rec' \in Record, Marked,
         InOperation(t)
  PROVE  Inv'
BY StopsNext, Stays DEF Inv, Shape

(* A step of something that is no handler.                                    *)
LEMMA Elsewhere ==
  ASSUME Inv, UNCHANGED <<rec, handler>>
  PROVE  Inv'
BY DEF Inv, Shape, Exclusive, InOperation, At, Active

LEMMA UserStops ==
  ASSUME Inv, rec' = UserStopped
  PROVE  rec' \in Record /\ Marked
BY UserStopKeeps DEF Inv, Marked, Active

LEMMA Unmarked ==
  ASSUME Exclusive, ~rec.op
  PROVE  \A u \in Threads : ~InOperation(u)
BY DEF Exclusive

LEMMA NotActive ==
  ASSUME Exclusive, ~Active
  PROVE  \A u \in Threads : ~InOperation(u)
BY DEF Exclusive

LEMMA SameRecord ==
  ASSUME Inv, rec' = rec
  PROVE  rec' \in Record /\ Marked
BY DEF Inv, Shape, Marked, Active

LEMMA InvInit == Init => Inv
<1> SUFFICES ASSUME Init PROVE Inv
  OBVIOUS
<1>1. Shape
  BY DEF Init, Shape, Record, Phases, NoLease, Handlers, Backs, Idle, Places, CallNames
<1>2. \A t \in Threads : ~InOperation(t)
  BY IdleOutside DEF Init
<1> QED
  BY <1>1, <1>2 DEF Inv, Exclusive

Arriving(place, call) == [Idle EXCEPT !.at = place, !.call = call]

LEMMA Arrived ==
  ASSUME NEW place \in Places, NEW call \in CallNames
  PROVE  /\ Arriving(place, call) \in Handlers
         /\ Arriving(place, call).at = place /\ Arriving(place, call).call = call
         /\ Arriving(place, call).back = "idle"
<1>1. ASSUME NEW h, h = Arriving(place, call)
      PROVE  h \in Handlers /\ h.at = place /\ h.call = call /\ h.back = "idle"
  BY <1>1 DEF Arriving, Idle, Handlers, Backs
<1> QED
  BY <1>1

(* A call arrives.                                                            *)
LEMMA InvokeKeeps ==
  ASSUME Inv, NEW t \in Threads, Invoke(t)
  PROVE  Inv'
<1>1. PICK c \in Calls : handler' = [handler EXCEPT ![t] = [Idle EXCEPT !.at = Entry[c], !.call = c]]
  BY DEF Invoke
<1>2. rec' = rec
  BY DEF Invoke
<1>3. c \in DOMAIN Entry
  BY CallsAssumption
<1>4. /\ Entry[c] \in Places /\ c \in CallNames
      /\ ~Within(Entry[c], c, "idle")
  <2>1. c \in {"ucharts", "begin", "status", "prepare", "charts", "end", "abort",
               "start", "bstart", "stop", "bstop", "halt"}
    BY <1>3 DEF Entry
  <2>2. /\ Entry[c] \in {"request", "begin", "status", "prepare", "charts", "end", "guard",
                         "bguard", "stop", "bstop"}
        /\ c = "end" => Entry[c] = "end"
    BY <2>1 DEF Entry
  <2> HIDE DEF Entry
  <2> QED
    BY <2>1, <2>2 DEF Within, Places, CallNames
<1>5. handler' = [handler EXCEPT ![t] = Arriving(Entry[c], c)]
  BY <1>1 DEF Arriving
<1>6. OthersSame(t) /\ handler' \in [Threads -> Handlers] /\ handler'[t] = Arriving(Entry[c], c)
  BY <1>4, <1>5, Arrived DEF OthersSame, Inv, Shape
<1>7. ~InOperation(t)'
  BY <1>4, <1>6, Arrived, PlacedNext
<1> QED
  BY <1>2, <1>6, <1>7, Stays DEF Inv, Shape, Marked, Active

LEMMA StartKeeps ==
  ASSUME Inv, NEW t \in Threads,
         StartGuard(t) \/ StartChecks(t) \/ StartClears(t) \/ BrokerGuard(t) \/ BrokerChecks(t) \/ BrokerClears(t)
  PROVE  Inv'
<1> USE Placed DEF Within, At, Places
<1>0. ASSUME NEW fails \in BOOLEAN, Started(t, fails)
      PROVE  (handler[t].call = "end" /\ Go(t, "decide")) \/ Go(t, "idle")
  BY <1>0 DEF Started
<1>1. CASE StartGuard(t)
  <2>1. At(t, "guard") /\ rec' = rec /\ (Go(t, "start") \/ (handler[t].call = "end" /\ Go(t, "fail")) \/ Go(t, "idle"))
    BY <1>1 DEF StartGuard
  <2> QED
    BY <2>1, Moves, SameRecord
<1>2. CASE StartChecks(t)
  <2>1. At(t, "start") /\ rec' = rec /\ ((handler[t].call = "end" /\ Go(t, "fail")) \/ (handler[t].call = "end" /\ Go(t, "decide")) \/ Go(t, "idle") \/ Go(t, "clear"))
    BY <1>2 DEF StartChecks
  <2> QED
    BY <2>1, Moves, SameRecord
<1>3. CASE StartClears(t)
  <2>1. At(t, "clear") /\ rec' = rec /\ Go(t, "bguard")
    BY <1>3 DEF StartClears
  <2> QED
    BY <2>1, Moves, SameRecord
<1>4. CASE BrokerGuard(t)
  <2>1. /\ At(t, "bguard") /\ rec' = rec
        /\ Go(t, "bstart") \/ (handler[t].call = "end" /\ Go(t, "decide")) \/ Go(t, "idle")
    BY <1>0, <1>4 DEF BrokerGuard
  <2> QED
    BY <2>1, Moves, SameRecord
<1>5. CASE BrokerChecks(t)
  <2>1. /\ At(t, "bstart") /\ rec' = rec
        /\ Go(t, "connect") \/ (handler[t].call = "end" /\ Go(t, "decide")) \/ Go(t, "idle")
    BY <1>0, <1>5 DEF BrokerChecks
  <2> QED
    BY <2>1, Moves, SameRecord
<1>6. CASE BrokerClears(t)
  <2>1. At(t, "connect") /\ rec' = rec /\ ((handler[t].call = "end" /\ Go(t, "decide")) \/ Go(t, "idle"))
    BY <1>0, <1>6 DEF BrokerClears
  <2> QED
    BY <2>1, Moves, SameRecord
<1> QED
  BY <1>1, <1>2, <1>3, <1>4, <1>5, <1>6

LEMMA StopKeeps ==
  ASSUME Inv, NEW t \in Threads,
         SignalStop(t) \/ OverrideLease(t) \/ SignalBroker(t) \/ BrokerOverrides(t) \/ StopReturns(t)
  PROVE  Inv'
<1> USE Placed DEF Within, At, Places
<1>1. CASE SignalStop(t)
  <2>1. At(t, "stop") /\ rec' = rec /\ Go(t, "override")
    BY <1>1 DEF SignalStop
  <2> QED
    BY <2>1, Moves, SameRecord
<1>2. CASE OverrideLease(t)
  <2>1. At(t, "override") /\ rec' = UserStopped /\ Go(t, "bstop")
    BY <1>2 DEF OverrideLease
  <2> QED
    BY <2>1, Moves, UserStops
<1>3. CASE SignalBroker(t)
  <2>1. At(t, "bstop") /\ rec' = rec /\ Go(t, "boverride")
    BY <1>3 DEF SignalBroker
  <2> QED
    BY <2>1, Moves, SameRecord
<1>4. CASE BrokerOverrides(t)
  <2>1. At(t, "boverride") /\ rec' = UserStopped /\ Go(t, "bstopped")
    BY <1>4 DEF BrokerOverrides
  <2> QED
    BY <2>1, Moves, UserStops
<1>5. CASE StopReturns(t)
  <2>1. At(t, "bstopped") /\ rec' = rec /\ Go(t, "idle")
    BY <1>5 DEF StopReturns
  <2> QED
    BY <2>1, Moves, SameRecord
<1> QED
  BY <1>1, <1>2, <1>3, <1>4, <1>5

LEMMA LeaseStopKeeps ==
  ASSUME Inv, NEW t \in Threads, LeaseStops(t) \/ LeaseStopsBroker(t) \/ LeaseStopped(t)
  PROVE  Inv'
<1> USE Placed DEF Within, At, Places
<1>1. CASE LeaseStops(t)
  <2>1. At(t, "lstop") /\ rec' = rec /\ Go(t, "lstop2")
    BY <1>1 DEF LeaseStops
  <2> QED
    BY <2>1, Moves, SameRecord
<1>2. CASE LeaseStopsBroker(t)
  <2>1. At(t, "lstop2") /\ Go(t, "lstop3") /\ (rec' = rec \/ rec' = UserStopped)
    BY <1>2 DEF LeaseStopsBroker
  <2> QED
    BY <2>1, Moves, SameRecord, UserStops
<1>3. CASE LeaseStopped(t)
  <2>1. At(t, "lstop3") /\ rec' = rec /\ Go(t, handler[t].back)
    BY <1>3 DEF LeaseStopped
  <2>2. handler[t].back \in Backs
    BY DEF Inv, Shape, Handlers
  <2>3. handler[t].back \in Places /\ (handler[t].back # "idle" => InOperation(t))
    BY <2>1, <2>2 DEF Backs
  <2> QED
    BY <2>1, <2>2, <2>3, Moves, SameRecord DEF Backs
<1> QED
  BY <1>1, <1>2, <1>3

LEMMA BeginKeeps ==
  ASSUME Inv, NEW t \in Threads,
         Begin(t) \/ Suspend(t) \/ CheckIdle(t) \/ BeginFails(t) \/ Drain(t) \/ Status(t)
  PROVE  Inv'
<1> USE Placed DEF Within, At, Places
<1>1. CASE Begin(t)
  <2>1. CASE ~Active /\ rec' = [NoLease EXCEPT !.phase = "GUARDING", !.op = TRUE, !.restore = ~stop["cohort"]]
                     /\ Go(t, "suspend")
    <3>1. rec' = [phase |-> "GUARDING", op |-> TRUE, restore |-> ~stop["cohort"], cancel |-> FALSE,
                  prepared |-> FALSE, watch |-> FALSE, drained |-> FALSE]
      BY <2>1 DEF NoLease
    <3>2. rec' \in Record /\ rec'.op /\ Active'
      BY <3>1 DEF Record, Phases, Active
    <3> QED
      BY <2>1, <3>2, MovesIn, NotActive DEF Inv
  <2>2. CASE rec' = rec /\ (Go(t, "idle") \/ Go(t, "status"))
    BY <2>2, Moves, SameRecord
  <2> QED
    BY <1>1, <2>1, <2>2 DEF Begin
<1>2. CASE Suspend(t)
  <2>1. At(t, "suspend") /\ rec' = rec /\ Go(t, "check")
    BY <1>2 DEF Suspend
  <2> QED
    BY <2>1, Moves, SameRecord
<1>3. CASE CheckIdle(t)
  <2>1. InOperation(t) /\ rec' = rec
    BY <1>3 DEF CheckIdle
  <2>2. CASE ThenStop(t, "drain")
    BY <2>1, <2>2, MovesToStop, SameRecord DEF Backs
  <2>3. CASE Go(t, "refuse")
    BY <2>1, <2>3, Moves, SameRecord
  <2> QED
    BY <1>3, <2>2, <2>3 DEF CheckIdle
<1>4. CASE BeginFails(t)
  <2>1. /\ OthersSame(t) /\ handler' \in [Threads -> Handlers]
        /\ handler'[t].at = "lstop" /\ handler'[t].back = "idle"
    BY <1>4, StopsNext DEF BeginFails, Backs, Inv
  <2>2. InOperation(t) /\ rec' \in Record
    BY <1>4 DEF BeginFails, Record, Inv, Shape, Phases
  <2> QED
    BY <2>1, <2>2, PlacedNext, Leaves DEF Inv, Shape
<1>5. CASE Drain(t)
  <2>1. rec' \in Record
    BY <1>5 DEF Drain, Draining, Record, Inv, Shape, Phases
  <2> QED
    BY <1>5, <2>1, MovesOut DEF Drain
<1>6. CASE Status(t)
  <2>1. rec' \in Record /\ Marked
    BY <1>6, StatusKeeps, SameRecord DEF Status, Marked, Active, Inv, Shape
  <2> QED
    BY <1>6, <2>1, Moves DEF Status
<1> QED
  BY <1>1, <1>2, <1>3, <1>4, <1>5, <1>6

LEMMA WorkKeeps ==
  ASSUME Inv, NEW t \in Threads,
         Prepare(t) \/ PrepareRuns(t) \/ Prepared(t) \/ Charts(t) \/ ChartsAdmitted(t)
           \/ Request(t) \/ Register(t)
  PROVE  Inv'
<1> USE Placed DEF Within, At, Places
<1>1. CASE Prepare(t)
  <2>1. CASE /\ rec.phase = "PAUSED" /\ Clean /\ rec' = [rec EXCEPT !.phase = "PREPARING", !.op = TRUE]
             /\ Go(t, "prepare2")
    <3>1. ~rec.op
      BY <2>1 DEF Clean, CleanIn
    <3>2. rec' \in Record /\ rec'.op /\ Active'
      BY <2>1 DEF Record, Phases, Active, Inv, Shape
    <3> QED
      BY <2>1, <3>1, <3>2, MovesIn, Unmarked DEF Inv
  <2>2. CASE rec' = rec /\ Go(t, "idle")
    BY <2>2, Moves, SameRecord
  <2> QED
    BY <1>1, <2>1, <2>2 DEF Prepare
<1>2. CASE PrepareRuns(t)
  <2>1. At(t, "prepare2") /\ rec' = rec /\ Go(t, "prepare3")
    BY <1>2 DEF PrepareRuns
  <2> QED
    BY <2>1, Moves, SameRecord
<1>3. CASE Prepared(t)
  <2>1. rec' \in Record
    BY <1>3 DEF Prepared, Record, Inv, Shape, Phases
  <2> QED
    BY <1>3, <2>1, MovesOut DEF Prepared
<1>4. CASE Charts(t)
  <2>1. CASE /\ rec.phase = "PAUSED" /\ Clean /\ rec' = [rec EXCEPT !.phase = "CHARTS_PREFLIGHT", !.op = TRUE]
             /\ Go(t, "charts2")
    <3>1. ~rec.op
      BY <2>1 DEF Clean, CleanIn
    <3>2. rec' \in Record /\ rec'.op /\ Active'
      BY <2>1 DEF Record, Phases, Active, Inv, Shape
    <3> QED
      BY <2>1, <3>1, <3>2, MovesIn, Unmarked DEF Inv
  <2>2. CASE rec' = rec /\ Go(t, "idle")
    BY <2>2, Moves, SameRecord
  <2> QED
    BY <1>4, <2>1, <2>2 DEF Charts
<1>5. CASE ChartsAdmitted(t)
  <2>1. rec' \in Record
    BY <1>5 DEF ChartsAdmitted, Record, Inv, Shape, Phases
  <2> QED
    BY <1>5, <2>1, MovesOut DEF ChartsAdmitted
<1>6. CASE Request(t)
  <2>1. At(t, "request") /\ rec' = rec /\ (Go(t, "register") \/ Go(t, "idle"))
    BY <1>6 DEF Request
  <2> QED
    BY <2>1, Moves, SameRecord
<1>7. CASE Register(t)
  <2>1. At(t, "register") /\ rec' = rec /\ Go(t, "idle")
    BY <1>7 DEF Register
  <2> QED
    BY <2>1, Moves, SameRecord
<1> QED
  BY <1>1, <1>2, <1>3, <1>4, <1>5, <1>6, <1>7

LEMMA EndKeeps ==
  ASSUME Inv, NEW t \in Threads,
         End(t) \/ Qualify(t) \/ Resume(t) \/ Decide(t) \/ Finish(t) \/ EndFails(t) \/ EndFailed(t)
  PROVE  Inv'
<1> USE Placed DEF Within, At, Places
<1>1. CASE End(t)
  <2> DEFINE r == IF handler[t].call = "abort" THEN [rec EXCEPT !.restore = FALSE, !.cancel = TRUE]
                  ELSE rec
  <2>1. CASE rec' = rec /\ (Go(t, "idle") \/ Go(t, "status"))
    BY <2>1, Moves, SameRecord
  <2>2. ASSUME Active, NEW o \in Statuses(r),
               rec' = [o[1] EXCEPT !.op = o[1].op \/ CleanIn(o[1], o[2])],
               Go(t, IF CleanIn(o[1], o[2]) THEN "qualify" ELSE "idle")
        PROVE  Inv'
    <3>1. r \in Record /\ r.op = rec.op /\ r.phase = rec.phase
      BY DEF Record, Inv, Shape
    <3>2. o[1] \in Record /\ o[1].op = rec.op /\ o[1].phase \notin {"NONE", "FINISHED"}
      <4> HIDE DEF r
      <4> QED
        BY <2>2, <3>1, StatusKeeps DEF Active
    <3>3. CleanIn(o[1], o[2]) \in BOOLEAN
      BY DEF CleanIn, Drained
    <3>4. rec' \in Record /\ rec'.op = (o[1].op \/ CleanIn(o[1], o[2])) /\ Active'
      BY <2>2, <3>2, <3>3 DEF Record, Active
    <3>5. CASE CleanIn(o[1], o[2])
      <4>1. ~rec.op
        BY <3>2, <3>5 DEF CleanIn
      <4>2. Go(t, "qualify") /\ rec'.op
        BY <2>2, <3>4, <3>5
      <4> QED
        BY <3>4, <4>1, <4>2, MovesIn, Unmarked DEF Inv
    <3>6. CASE ~CleanIn(o[1], o[2])
      <4>1. Go(t, "idle") /\ Marked
        BY <2>2, <3>2, <3>4, <3>6 DEF Marked, Record
      <4> QED
        BY <3>4, <4>1, Moves
    <3> QED
      BY <3>5, <3>6
  <2> QED
    BY <1>1, <2>1, <2>2 DEF End
<1>2. CASE Qualify(t)
  <2>1. At(t, "qualify") /\ rec' = rec /\ (Go(t, "fail") \/ Go(t, "resume"))
    BY <1>2 DEF Qualify
  <2> QED
    BY <2>1, Moves, SameRecord
<1>3. CASE Resume(t)
  <2>1. /\ At(t, "resume") /\ rec' = rec
        /\ (handler[t].call = "end" /\ Go(t, "guard")) \/ Go(t, "finish")
    BY <1>3 DEF Resume
  <2> QED
    BY <2>1, Moves, SameRecord
<1>4. CASE Decide(t)
  <2>1. InOperation(t) /\ rec' = rec
    BY <1>4 DEF Decide
  <2>2. CASE ThenStop(t, "finish")
    BY <2>1, <2>2, MovesToStop, SameRecord DEF Backs
  <2>3. CASE Go(t, "finish") \/ Go(t, "fail")
    BY <2>1, <2>3, Moves, SameRecord
  <2> QED
    BY <1>4, <2>2, <2>3 DEF Decide
<1>5. CASE Finish(t)
  <2>1. rec' \in Record
    BY <1>5 DEF Finish, Record, Inv, Shape, Phases
  <2> QED
    BY <1>5, <2>1, MovesOut DEF Finish
<1>6. CASE EndFails(t)
  <2>1. InOperation(t) /\ rec' \in Record /\ Marked
    BY <1>6 DEF EndFails, Record, Inv, Shape, Phases, Marked, Active
  <2> QED
    BY <1>6, <2>1, MovesToStop DEF EndFails, AfterFailure, Backs
<1>7. CASE EndFailed(t)
  <2>1. rec' \in Record
    BY <1>7 DEF EndFailed, Record, Inv, Shape, Phases
  <2> QED
    BY <1>7, <2>1, MovesOut DEF EndFailed
<1> QED
  BY <1>1, <1>2, <1>3, <1>4, <1>5, <1>6, <1>7

LEMMA InvStep == Inv /\ [Next]_vars => Inv'
<1> SUFFICES ASSUME Inv, [Next]_vars PROVE Inv'
  OBVIOUS
<1>1. ASSUME NEW t \in Threads, Invoke(t) PROVE Inv'
  BY <1>1, InvokeKeeps
<1>2. ASSUME NEW t \in Threads, Handle(t) PROVE Inv'
  BY <1>2, StartKeeps, StopKeeps, LeaseStopKeeps, BeginKeeps, WorkKeeps, EndKeeps DEF Handle
<1>3. ASSUME NEW o \in Owners, Work(o) PROVE Inv'
  BY <1>3, Elsewhere DEF Work, Gate, TickBegins, TickEnds, WorkerExits
<1>4. CASE JobEnds
  BY <1>4, Elsewhere DEF JobEnds
<1>5. CASE UNCHANGED vars
  BY <1>5, Elsewhere DEF vars
<1> QED
  BY <1>1, <1>2, <1>3, <1>4, <1>5 DEF Next

(* At most one thread is inside an operation of the lease, and the record     *)
(* says so until it has left: maintenance_status and the four operations of   *)
(* cohort.py reserve and release the record under _maintenance_lock.          *)
THEOREM OneOp == Spec => []OneOperation
<1>1. Inv => OneOperation
  BY DEF Inv, Exclusive, OneOperation
<1> QED
  BY <1>1, InvInit, InvStep, PTL DEF Spec

----------------------------------------------------------------------------
(* No tick past its gate while a drained lease holds the owners.  A worker    *)
(* passes its gate only without an active lease, so what a drained lease has  *)
(* found stays true as long as it is active, whatever workers are started;    *)
(* a job that runs under the lease, and the threads that prepare its inputs   *)
(* or admit that job, are there only once it is drained.  A chart request     *)
(* without a lease may give a lease the phase CHARTS_FINISHED, never one of   *)
(* the phases before it, and no mark of a drained lease.                      *)
Quiet == \A o \in Owners : worker[o] \in {"off", "loop"}
Working == {"prepare2", "prepare3", "charts2"}

Workers == worker \in [Owners -> {"off", "loop", "gate", "tick"}]
Hushed ==
    /\ rec.drained => Quiet /\ Active
    /\ rec.phase \in QuietPhases => rec.drained
    /\ job = "leased" => rec.drained /\ ~rec.op
    /\ \A t \in Threads : handler[t].at \in Working => rec.drained

QInv == Inv /\ Workers /\ Hushed

LEMMA WorkingInside ==
  ASSUME Inv, NEW t \in Threads, handler[t].at \in Working
  PROVE  InOperation(t) /\ Active /\ rec.op
BY DEF Inv, Exclusive, InOperation, Working

QuietKept == Quiet /\ Active => Quiet'
QuietRec  == /\ rec'.drained => Quiet /\ Active /\ Active'
             /\ rec'.phase \in QuietPhases => rec'.drained
             /\ job' = "leased" => rec'.drained /\ ~rec'.op
Held(t) == rec.drained => rec'.drained \/ InOperation(t)
Hush == Workers' /\ Hushed'

(* A step of a handler, by what it does to the owners, the record and the job.*)
LEMMA HushStep ==
  ASSUME QInv, NEW t \in Threads, OthersSame(t), Workers', QuietKept, QuietRec, Held(t),
         handler'[t].at \in Working => rec'.drained
  PROVE  Hush
<1>1. ASSUME NEW u \in Threads, handler'[u].at \in Working PROVE rec'.drained
  <2>1. CASE u = t
    BY <1>1, <2>1
  <2>2. CASE u # t
    <3>1. handler[u].at \in Working
      BY <1>1, <2>2 DEF OthersSame
    <3>2. rec.drained /\ ~InOperation(t)
      BY <2>2, <3>1, WorkingInside DEF QInv, Hushed, Inv, Exclusive
    <3> QED
      BY <3>2 DEF Held
  <2> QED
    BY <2>1, <2>2
<1>2. rec'.drained => Quiet' /\ Active'
  BY DEF QuietKept, QuietRec
<1> QED
  BY <1>1, <1>2 DEF Hush, Hushed, QuietRec

(* What a step leaves alone stays quiet.                                      *)
LEMMA SameWorkers ==
  ASSUME QInv, worker' = worker
  PROVE  Workers' /\ (Quiet => Quiet')
BY DEF QInv, Workers, Quiet

LEMMA OneStarted ==
  ASSUME QInv, NEW o \in Owners, worker' = [worker EXCEPT ![o] = "loop"]
  PROVE  Workers' /\ (Quiet => Quiet')
BY DEF QInv, Workers, Quiet

LEMMA QuietRecord ==
  ASSUME QInv, NEW t \in Threads, rec' = rec, job' = "leased" => job = "leased"
  PROVE  QuietRec /\ Held(t)
BY DEF QInv, Hushed, Active, QuietRec, Held

LEMMA Cancelled ==
  ASSUME CancelJob, job' = "leased"
  PROVE  job = "leased"
BY DEF CancelJob

LEMMA QuietStop ==
  ASSUME QInv, NEW t \in Threads, rec' = UserStopped, job' = job
  PROVE  QuietRec /\ Held(t)
<1>1. /\ UserStopped.op = rec.op /\ UserStopped.drained = rec.drained
      /\ Active => UserStopped.phase = "CANCELLED"
      /\ ~Active => UserStopped = rec
  BY DEF UserStopped, QInv, Inv, Shape, Record
<1> QED
  BY <1>1 DEF QInv, Hushed, QuietRec, Held, Active, QuietPhases

(* A status call finds a lease drained only where it was, or is clean.        *)
LEMMA QuietStatus ==
  ASSUME QInv, NEW r \in Record, r.phase = rec.phase, r.op = rec.op, r.drained = rec.drained,
         NEW o \in Statuses(r)
  PROVE  /\ o[1].drained => Quiet /\ Active
         /\ o[1].phase \in QuietPhases => o[1].drained
         /\ rec.drained => o[1].drained
         /\ o[2] = "leased" => job = "leased"
<1>0. PICK w \in Watched(r) : \E j \in AfterCancel(w) :
        o = LET k == IF j \in {"ok", "bad"} THEN "none" ELSE j IN <<Settled(Exited(w, j), k), k>>
  BY DEF Statuses
<1>1. PICK j \in AfterCancel(w) :
        o = LET k == IF j \in {"ok", "bad"} THEN "none" ELSE j IN <<Settled(Exited(w, j), k), k>>
  BY <1>0
<1>2. PICK k : o = <<Settled(Exited(w, j), k), k>> /\ (k = "leased" => j = "leased")
  BY <1>1
<1>3. j = "leased" => job = "leased"
  BY DEF AfterCancel
<1>4. /\ w \in Record /\ w.drained = rec.drained
      /\ w.phase = rec.phase \/ w.phase = "FAILED"
  BY DEF Watched, Record, Phases
<1>5. /\ Exited(w, j) \in Record /\ Exited(w, j).drained = rec.drained
      /\ Exited(w, j).phase = w.phase \/ Exited(w, j).phase \in {"CANCELLED", "CHARTS_FINISHED", "FAILED"}
  BY <1>4 DEF Exited, Record, Phases
<1>6. ASSUME NEW x \in Record
      PROVE  \/ Settled(x, k) = x
             \/ /\ x.phase = "DRAINING" /\ Drained
                /\ Settled(x, k).drained
  BY DEF Settled, CleanIn, Record
<1>7. Drained => Quiet
  BY DEF Drained, Quiet
<1>8. o[1] = Settled(Exited(w, j), k) /\ o[2] = k
  BY <1>2
<1>9. /\ rec.drained => Quiet /\ Active
      /\ rec.phase \in QuietPhases => rec.drained
  BY DEF QInv, Hushed
<1>10. CASE o[1] = Exited(w, j)
  BY <1>2, <1>3, <1>4, <1>5, <1>8, <1>9, <1>10 DEF QuietPhases
<1>11. CASE Exited(w, j).phase = "DRAINING" /\ Drained /\ o[1].drained
  <2>1. rec.phase = "DRAINING"
    BY <1>4, <1>5, <1>11
  <2> QED
    BY <1>2, <1>3, <1>7, <1>8, <1>11, <2>1 DEF Active
<1> QED
  BY <1>5, <1>6, <1>8, <1>10, <1>11

LEMMA HushMoves ==
  ASSUME QInv, NEW t \in Threads, NEW place \in Places, Go(t, place),
         Workers', QuietKept, QuietRec, Held(t), place \in Working => rec'.drained
  PROVE  Hush
<1>1. OthersSame(t) /\ handler'[t].at = place
  BY Goes DEF QInv, Inv, Idle
<1> QED
  BY <1>1, HushStep

LEMMA HushStops ==
  ASSUME QInv, NEW t \in Threads, NEW place \in Backs, ThenStop(t, place),
         Workers', QuietKept, QuietRec, Held(t)
  PROVE  Hush
<1>1. OthersSame(t) /\ handler'[t].at \notin Working
  BY StopsNext DEF QInv, Inv, Working
<1> QED
  BY <1>1, HushStep

LEMMA HushStart ==
  ASSUME QInv, NEW t \in Threads,
         StartGuard(t) \/ StartChecks(t) \/ StartClears(t) \/ BrokerGuard(t) \/ BrokerChecks(t) \/ BrokerClears(t)
  PROVE  Hush
<1>1. rec' = rec /\ job' = job
  BY DEF StartGuard, StartChecks, StartClears, BrokerGuard, BrokerChecks, BrokerClears
<1>2. \E place \in {"start", "fail", "idle", "decide", "clear", "bguard", "bstart", "connect"} : Go(t, place)
  <2>0. ASSUME NEW fails \in BOOLEAN, Started(t, fails) PROVE Go(t, "decide") \/ Go(t, "idle")
    BY <2>0 DEF Started
  <2>1. CASE StartGuard(t)
    BY <2>1 DEF StartGuard
  <2>2. CASE StartChecks(t)
    BY <2>2 DEF StartChecks
  <2>3. CASE StartClears(t)
    BY <2>3 DEF StartClears
  <2>4. CASE BrokerGuard(t)
    BY <2>0, <2>4 DEF BrokerGuard
  <2>5. CASE BrokerChecks(t)
    BY <2>0, <2>5 DEF BrokerChecks
  <2>6. CASE BrokerClears(t)
    BY <2>0, <2>6 DEF BrokerClears
  <2> QED
    BY <2>1, <2>2, <2>3, <2>4, <2>5, <2>6
<1>3. worker' = worker \/ \E o \in Owners : worker' = [worker EXCEPT ![o] = "loop"]
  BY DEF StartGuard, StartChecks, StartClears, BrokerGuard, BrokerChecks, BrokerClears, Owners, owners
<1>4. Workers' /\ QuietKept
  BY <1>3, SameWorkers, OneStarted DEF QuietKept
<1>5. QuietRec /\ Held(t)
  BY <1>1, QuietRecord
<1> QED
  BY <1>2, <1>4, <1>5, HushMoves DEF Places, Working

LEMMA HushStop ==
  ASSUME QInv, NEW t \in Threads,
         SignalStop(t) \/ OverrideLease(t) \/ SignalBroker(t) \/ BrokerOverrides(t) \/ StopReturns(t)
           \/ LeaseStops(t) \/ LeaseStopsBroker(t) \/ LeaseStopped(t)
  PROVE  Hush
<1>1. worker' = worker
  BY DEF SignalStop, OverrideLease, SignalBroker, BrokerOverrides, StopReturns, LeaseStops, LeaseStopsBroker, LeaseStopped, owners
<1>2. \/ rec' = rec /\ (job' = job \/ CancelJob)
      \/ rec' = UserStopped /\ job' = job
  BY DEF SignalStop, OverrideLease, SignalBroker, BrokerOverrides, StopReturns, LeaseStops, LeaseStopsBroker, LeaseStopped
<1>3. handler[t].back \in Backs
  BY DEF QInv, Inv, Shape, Handlers
<1>4. \E place \in {"override", "bstop", "boverride", "bstopped", "idle", "lstop2", "lstop3"} \cup Backs : Go(t, place)
  BY <1>3 DEF SignalStop, OverrideLease, SignalBroker, BrokerOverrides, StopReturns, LeaseStops, LeaseStopsBroker, LeaseStopped
<1>5. QuietRec /\ Held(t)
  BY <1>2, Cancelled, QuietRecord, QuietStop
<1>6. Workers' /\ QuietKept
  BY <1>1, SameWorkers DEF QuietKept
<1> QED
  BY <1>4, <1>5, <1>6, HushMoves DEF Places, Backs, Working

LEMMA HushBegin ==
  ASSUME QInv, NEW t \in Threads,
         Begin(t) \/ Suspend(t) \/ CheckIdle(t) \/ BeginFails(t) \/ Drain(t) \/ Status(t)
  PROVE  Hush
<1>0. worker' = worker
  BY DEF Begin, Suspend, CheckIdle, BeginFails, Drain, Status, owners
<1>1. Workers' /\ QuietKept
  BY <1>0, SameWorkers DEF QuietKept
<1>2. CASE Begin(t)
  <2>1. CASE ~Active /\ rec' = [NoLease EXCEPT !.phase = "GUARDING", !.op = TRUE, !.restore = ~stop["cohort"]]
                     /\ Go(t, "suspend") /\ job' = job
    <3>1. rec'.phase = "GUARDING" /\ ~rec'.drained
      BY <2>1 DEF NoLease
    <3>2. ~rec.drained /\ job # "leased"
      BY <2>1 DEF QInv, Hushed
    <3>3. QuietRec /\ Held(t)
      BY <2>1, <3>1, <3>2 DEF QuietRec, Held, QuietPhases
    <3> QED
      BY <1>1, <2>1, <3>3, HushMoves DEF Places, Working
  <2>2. CASE rec' = rec /\ job' = job /\ (Go(t, "idle") \/ Go(t, "status"))
    BY <1>1, <2>2, QuietRecord, HushMoves DEF Places, Working
  <2> QED
    BY <1>2, <2>1, <2>2 DEF Begin
<1>3. CASE Suspend(t)
  BY <1>1, <1>3, QuietRecord, HushMoves DEF Suspend, Places, Working
<1>4. CASE CheckIdle(t)
  <2>1. QuietRec /\ Held(t)
    BY <1>4, QuietRecord DEF CheckIdle
  <2>2. CASE ThenStop(t, "drain")
    BY <1>1, <2>1, <2>2, HushStops DEF Backs
  <2>3. CASE Go(t, "refuse")
    BY <1>1, <2>1, <2>3, HushMoves DEF Places, Working
  <2> QED
    BY <1>4, <2>2, <2>3 DEF CheckIdle
<1>5. CASE BeginFails(t) \/ Drain(t)
  <2>1. rec.op /\ job' = job
    BY <1>5 DEF BeginFails, Drain, QInv, Inv, Exclusive, InOperation, At
  <2>2. rec'.phase \in {"FAILED", "DRAINING"} /\ rec'.drained = rec.drained /\ job' # "leased"
    BY <1>5, <2>1 DEF BeginFails, Drain, Draining, QInv, Hushed, Inv, Shape, Record
  <2>3. QuietRec /\ Held(t)
    BY <2>2 DEF QuietRec, Held, QuietPhases, QInv, Hushed, Active
  <2>4. CASE BeginFails(t)
    BY <1>1, <2>3, <2>4, HushStops DEF BeginFails, Backs
  <2>5. CASE Drain(t)
    BY <1>1, <2>3, <2>5, HushMoves DEF Drain, Places, Working
  <2> QED
    BY <1>5, <2>4, <2>5
<1>7. CASE Status(t)
  <2>1. CASE rec' = rec /\ job' = job
    BY <1>1, <1>7, <2>1, QuietRecord, HushMoves DEF Status, Places, Working
  <2>2. CASE \E o \in Statuses(rec) : rec' = o[1] /\ job' = o[2]
    <3>1. PICK o \in Statuses(rec) : rec' = o[1] /\ job' = o[2]
      BY <2>2
    <3>2. /\ o[1].drained => Quiet /\ Active
          /\ o[1].phase \in QuietPhases => o[1].drained
          /\ rec.drained => o[1].drained
          /\ o[2] = "leased" => job = "leased"
          /\ o[1].op = rec.op
          /\ Active => o[1].phase \notin {"NONE", "FINISHED"}
      BY QuietStatus, StatusKeeps DEF QInv, Inv, Shape, Active
    <3>3. QuietRec /\ Held(t)
      BY <3>1, <3>2 DEF QuietRec, Held, QInv, Hushed, Active
    <3> QED
      BY <1>1, <1>7, <3>3, HushMoves DEF Status, Places, Working
  <2> QED
    BY <1>7, <2>1, <2>2 DEF Status
<1> QED
  BY <1>2, <1>3, <1>4, <1>5, <1>7

LEMMA CleanIsQuiet ==
  ASSUME Clean
  PROVE  Quiet /\ ~rec.op /\ job = "none"
BY DEF Clean, CleanIn, Drained, Quiet

LEMMA HushWork ==
  ASSUME QInv, NEW t \in Threads,
         Prepare(t) \/ PrepareRuns(t) \/ Prepared(t) \/ Charts(t) \/ ChartsAdmitted(t)
           \/ Request(t) \/ Register(t)
  PROVE  Hush
<1>0. worker' = worker
  BY DEF Prepare, PrepareRuns, Prepared, Charts, ChartsAdmitted, Request, Register, owners
<1>1. Workers' /\ QuietKept
  BY <1>0, SameWorkers DEF QuietKept
<1>2. ASSUME handler[t].at \in Working
      PROVE  rec.drained /\ Quiet /\ Active /\ job # "leased"
  BY <1>2, WorkingInside DEF QInv, Hushed
<1>3. CASE Prepare(t) \/ Charts(t)
  <2>1. ASSUME rec.phase = "PAUSED", Clean,
               NEW phase \in {"PREPARING", "CHARTS_PREFLIGHT"},
               rec' = [rec EXCEPT !.phase = phase, !.op = TRUE],
               Go(t, "prepare2") \/ Go(t, "charts2"), job' = job
        PROVE  Hush
    <3>1. Quiet /\ Active /\ job' = "none" /\ rec.drained
      BY <2>1, CleanIsQuiet DEF Active, QInv, Hushed, QuietPhases
    <3>2. rec'.drained /\ Active'
      BY <2>1, <3>1 DEF QInv, Inv, Shape, Record, Active
    <3>3. QuietRec /\ Held(t)
      BY <3>1, <3>2 DEF QuietRec, Held
    <3> QED
      BY <1>1, <2>1, <3>2, <3>3, HushMoves DEF Places
  <2>2. CASE rec' = rec /\ Go(t, "idle") /\ job' = job
    BY <1>1, <2>2, QuietRecord, HushMoves DEF Places, Working
  <2> QED
    BY <1>3, <2>1, <2>2 DEF Prepare, Charts
<1>4. CASE PrepareRuns(t)
  <2>1. rec'.drained
    BY <1>2, <1>4 DEF PrepareRuns, At, Working
  <2> QED
    BY <1>1, <1>4, <2>1, QuietRecord, HushMoves DEF PrepareRuns, Places
<1>5. CASE Prepared(t) \/ ChartsAdmitted(t)
  <2>1. rec.drained /\ Quiet /\ Active /\ job # "leased"
    BY <1>2, <1>5 DEF Prepared, ChartsAdmitted, At, Working
  <2>2. ~rec'.op /\ rec'.phase \notin {"NONE", "FINISHED"} /\ rec'.drained
    BY <1>5, <2>1 DEF Prepared, ChartsAdmitted, QInv, Inv, Shape, Record
  <2>3. QuietRec /\ Held(t)
    BY <2>1, <2>2 DEF QuietRec, Held, Active
  <2> QED
    BY <1>1, <1>5, <2>3, HushMoves DEF Prepared, ChartsAdmitted, Places, Working
<1>6. CASE Request(t) \/ Register(t)
  <2>1. rec' = rec /\ (job' = "leased" => job = "leased")
    BY <1>6 DEF Request, Register
  <2>2. Go(t, "register") \/ Go(t, "idle")
    BY <1>6 DEF Request, Register
  <2> QED
    BY <1>1, <2>1, <2>2, QuietRecord, HushMoves DEF Places, Working
<1> QED
  BY <1>3, <1>4, <1>5, <1>6

LEMMA HushEnd ==
  ASSUME QInv, NEW t \in Threads,
         End(t) \/ Qualify(t) \/ Resume(t) \/ Decide(t) \/ Finish(t) \/ EndFails(t) \/ EndFailed(t)
  PROVE  Hush
<1>0. worker' = worker
  BY DEF End, Qualify, Resume, Decide, Finish, EndFails, EndFailed, owners
<1>1. Workers' /\ QuietKept
  BY <1>0, SameWorkers DEF QuietKept
<1>2. CASE End(t)
  <2> DEFINE r == IF handler[t].call = "abort" THEN [rec EXCEPT !.restore = FALSE, !.cancel = TRUE]
                  ELSE rec
  <2>1. CASE rec' = rec /\ job' = job /\ (Go(t, "idle") \/ Go(t, "status"))
    BY <1>1, <2>1, QuietRecord, HushMoves DEF Places, Working
  <2>2. ASSUME Active, NEW o \in Statuses(r), job' = o[2],
               rec' = [o[1] EXCEPT !.op = o[1].op \/ CleanIn(o[1], o[2])],
               Go(t, IF CleanIn(o[1], o[2]) THEN "qualify" ELSE "idle")
        PROVE  Hush
    <3>1. r \in Record /\ r.op = rec.op /\ r.phase = rec.phase /\ r.drained = rec.drained
      BY DEF Record, QInv, Inv, Shape
    <3>2. /\ o[1] \in Record /\ o[1].op = rec.op /\ o[1].phase \notin {"NONE", "FINISHED"}
          /\ o[1].drained => Quiet /\ Active
          /\ o[1].phase \in QuietPhases => o[1].drained
          /\ rec.drained => o[1].drained
          /\ o[2] = "leased" => job = "leased"
      <4> HIDE DEF r
      <4> QED
        BY <2>2, <3>1, StatusKeeps, QuietStatus DEF Active
    <3>3. CleanIn(o[1], o[2]) \in BOOLEAN /\ (CleanIn(o[1], o[2]) => o[2] = "none")
      BY DEF CleanIn, Drained
    <3>4. /\ rec'.phase = o[1].phase /\ rec'.drained = o[1].drained
          /\ rec'.op = (o[1].op \/ CleanIn(o[1], o[2]))
      BY <2>2, <3>2, <3>3 DEF Record
    <3>5. QuietRec /\ Held(t)
      BY <2>2, <3>2, <3>3, <3>4 DEF QuietRec, Held, QInv, Hushed, Active
    <3> QED
      BY <1>1, <2>2, <3>5, HushMoves DEF Places, Working
  <2> QED
    BY <1>2, <2>1, <2>2 DEF End
<1>3. CASE Qualify(t) \/ Resume(t)
  <2>1. QuietRec /\ Held(t)
    BY <1>3, QuietRecord DEF Qualify, Resume
  <2> QED
    BY <1>1, <1>3, <2>1, HushMoves DEF Qualify, Resume, Places, Working
<1>4. CASE Decide(t)
  <2>1. QuietRec /\ Held(t)
    BY <1>4, QuietRecord DEF Decide
  <2>2. CASE ThenStop(t, "finish")
    BY <1>1, <2>1, <2>2, HushStops DEF Backs
  <2>3. CASE Go(t, "finish") \/ Go(t, "fail")
    BY <1>1, <2>1, <2>3, HushMoves DEF Places, Working
  <2> QED
    BY <1>4, <2>2, <2>3 DEF Decide
<1>5. ASSUME Finish(t) \/ EndFails(t) \/ EndFailed(t)
      PROVE  job' # "leased" /\ InOperation(t) /\ Active
  BY <1>5 DEF Finish, EndFails, EndFailed, QInv, Inv, Exclusive, Hushed, InOperation, At
<1>6. CASE Finish(t)
  <2>1. rec'.phase = "FINISHED" /\ ~rec'.drained
    BY <1>6 DEF Finish, QInv, Inv, Shape, Record
  <2>2. QuietRec /\ Held(t)
    BY <1>5, <1>6, <2>1 DEF QuietRec, Held, QuietPhases
  <2> QED
    BY <1>1, <1>6, <2>2, HushMoves DEF Finish, Places, Working
<1>7. CASE EndFails(t) \/ EndFailed(t)
  <2>1. rec'.phase \in {"FAILED", rec.phase} /\ rec'.drained = rec.drained
    BY <1>7 DEF EndFails, EndFailed, QInv, Inv, Shape, Record
  <2>2. QuietRec /\ Held(t)
    BY <1>5, <1>7, <2>1 DEF QuietRec, Held, QuietPhases, QInv, Hushed, Active
  <2>3. CASE EndFails(t)
    BY <1>1, <2>2, <2>3, HushStops DEF EndFails, AfterFailure, Backs
  <2>4. CASE EndFailed(t)
    BY <1>1, <2>2, <2>4, HushMoves DEF EndFailed, Places, Working
  <2> QED
    BY <1>7, <2>3, <2>4
<1> QED
  BY <1>2, <1>3, <1>4, <1>6, <1>7

(* A call arrives.                                                            *)
LEMMA HushInvoke ==
  ASSUME QInv, NEW t \in Threads, Invoke(t)
  PROVE  Hush
<1>1. PICK c \in Calls : handler' = [handler EXCEPT ![t] = [Idle EXCEPT !.at = Entry[c], !.call = c]]
  BY DEF Invoke
<1>2. handler' = [handler EXCEPT ![t] = Arriving(Entry[c], c)]
  BY <1>1 DEF Arriving
<1>3. c \in DOMAIN Entry
  BY CallsAssumption
<1>4. Entry[c] \in Places \ Working /\ c \in CallNames
  BY <1>3 DEF Entry, Places, CallNames, Working
<1>5. OthersSame(t) /\ handler'[t].at \notin Working
  BY <1>2, <1>4, Arrived DEF OthersSame, QInv, Inv, Shape
<1>6. Workers' /\ QuietKept
  BY SameWorkers DEF Invoke, owners, QuietKept
<1>7. QuietRec /\ Held(t)
  BY QuietRecord DEF Invoke
<1> QED
  BY <1>5, <1>6, <1>7, HushStep

(* The workers: a gate is passed only without an active lease.                *)
LEMMA HushOwner ==
  ASSUME QInv, NEW o \in Owners, Work(o)
  PROVE  Hush
<1>1. rec' = rec /\ handler' = handler
  BY DEF Work, Gate, TickBegins, TickEnds, WorkerExits
<1>2. Workers'
  BY DEF Work, Gate, TickBegins, TickEnds, WorkerExits, QInv, Workers
<1>3. Quiet /\ Active => Quiet'
  BY DEF Work, Gate, GateOpen, TickBegins, TickEnds, WorkerExits, QInv, Workers, Quiet
<1>4. job' = "leased" => job = "leased"
  BY DEF Work, Gate, TickBegins, TickEnds, WorkerExits, CancelJob
<1> QED
  BY <1>1, <1>2, <1>3, <1>4 DEF QInv, Hush, Hushed, Active

LEMMA HushElsewhere ==
  ASSUME QInv, JobEnds \/ UNCHANGED vars
  PROVE  Hush
<1>1. /\ UNCHANGED <<worker, rec, handler>>
      /\ job' = "leased" => job = "leased"
  BY DEF JobEnds, vars, owners
<1> QED
  BY <1>1 DEF QInv, Hush, Workers, Hushed, Active, Quiet

LEMMA QInvInit == Init => QInv
BY InvInit DEF Init, QInv, Workers, Hushed, Idle, NoLease, QuietPhases, Working, Owners

LEMMA QInvStep == QInv /\ [Next]_vars => QInv'
<1> SUFFICES ASSUME QInv, [Next]_vars PROVE QInv'
  OBVIOUS
<1>1. Inv'
  BY InvStep DEF QInv
<1>2. ASSUME NEW t \in Threads, Invoke(t) \/ Handle(t) PROVE Hush
  BY <1>2, HushInvoke, HushStart, HushStop, HushBegin, HushWork, HushEnd DEF Handle
<1>3. Hush
  BY <1>2, HushOwner, HushElsewhere DEF Next
<1> QED
  BY <1>1, <1>3 DEF Hush, QInv

(* From the moment a lease is found drained until it is finished, and while   *)
(* its chart job may run, no tick of cohort.py or best_broker.py is past its  *)
(* gate, whatever clients call, chart requests without a lease included.      *)
THEOREM QuietLease == Spec => []QuietInMaintenance
<1>1. QInv => QuietInMaintenance
  BY DEF QInv, Hushed, QuietInMaintenance, Quiet
<1> QED
  BY <1>1, QInvInit, QInvStep, PTL DEF Spec

----------------------------------------------------------------------------
(* A failed end leaves both owners stopped.  An event is cleared only by a    *)
(* thread inside a start: a user's start, which over records, or the restore, *)
(* which is an operation of the lease and excludes the thread that failed.    *)
Clearing == {"guard", "start", "clear", "bguard", "bstart", "connect"}
Starters == \A t \in Threads : handler[t].at \in Clearing => handler[t].call \in {"start", "bstart", "end"}
Alone == \A t \in Threads : over[t] = "alone" => \A u \in Threads : ~Starting(u)
Events == stop \in [Owners -> BOOLEAN] /\ over \in [Threads -> {"none", "alone", "started", "issued"}]

\* What the nested stop of a failed end has reached.
Reached(t) ==
    /\ At(t, "lstop2") /\ handler[t].back = "failed" => stop["cohort"]
    /\ (At(t, "lstop3") /\ handler[t].back = "failed") \/ At(t, "failed") => \A o \in Owners : stop[o]
Failures == \A t \in Threads : over[t] = "alone" => Reached(t)

FInv == Inv /\ Events /\ Starters /\ Alone /\ Failures

StopGrows == \A o \in Owners : stop[o] => stop'[o]
OverFalls == \A t \in Threads : over'[t] = "alone" => over[t] = "alone"

(* Nobody but the restore or a user's start clears an event.                  *)
LEMMA AtStopsNow ==
  ASSUME FInv, NEW u \in Threads, handler[u].at \in Clearing,
         NEW t \in Threads, over[t] = "alone"
  PROVE  ~At(t, "failed") /\ ~(handler[t].at \in {"lstop2", "lstop3"} /\ handler[t].back = "failed")
<1>1. handler[u].call = "end"
  BY DEF FInv, Starters, Alone, Starting, At, Clearing
<1>2. InOperation(u)
  BY <1>1 DEF InOperation, Clearing
<1>3. InOperation(t) => t = u
  BY <1>2 DEF FInv, Inv, Exclusive
<1> QED
  BY <1>3 DEF InOperation, At, Clearing

(* A step of a handler that enters no stop of a failed end.                   *)
LEMMA FailMoves ==
  ASSUME FInv, NEW t \in Threads, ~At(t, "idle"), NEW place \in Places, Go(t, place),
         place \in Clearing => handler[t].call \in {"start", "bstart", "end"},
         place \notin {"lstop2", "lstop3", "failed"},
         Events', OverFalls,
         StopGrows \/ handler[t].at \in Clearing
  PROVE  Events' /\ Starters' /\ Alone' /\ Failures'
<1>1. /\ OthersSame(t)
      /\ place = "idle" => handler'[t] = Idle
      /\ place # "idle" => handler'[t].at = place /\ handler'[t].call = handler[t].call
  BY Goes DEF FInv, Inv
<1>2. handler'[t].at = place /\ handler'[t].call \in {handler[t].call, "none"}
  BY <1>1 DEF Idle
<1>3. Starters'
  BY <1>1, <1>2 DEF FInv, Starters, OthersSame, Idle, Clearing
<1>4. Alone'
  <2>1. ASSUME NEW u \in Threads, Starting(u)' PROVE Starting(u)
    BY <1>1, <1>2, <2>1 DEF Starting, At, OthersSame
  <2> QED
    BY <2>1 DEF FInv, Alone, OverFalls
<1>5. ASSUME NEW u \in Threads, over'[u] = "alone" PROVE Reached(u)'
  BY <1>1, <1>2, <1>5, AtStopsNow DEF FInv, Failures, Reached, At, OthersSame, OverFalls, StopGrows, Owners
<1> QED
  BY <1>3, <1>4, <1>5 DEF Failures

LEMMA FailStops ==
  ASSUME FInv, NEW t \in Threads, ~At(t, "idle"), NEW place \in Backs, ThenStop(t, place),
         stop' = stop, over' = over
  PROVE  Events' /\ Starters' /\ Alone' /\ Failures'
<1>1. /\ OthersSame(t)
      /\ handler'[t].at = "lstop" /\ handler'[t].call = handler[t].call
  BY StopsNext DEF FInv, Inv
<1>2. Events' /\ Starters'
  BY <1>1 DEF FInv, Events, Starters, OthersSame, Clearing
<1>3. Alone'
  BY <1>1 DEF FInv, Alone, Starting, At, OthersSame
<1>4. Failures'
  BY <1>1 DEF FInv, Failures, Reached, At, OthersSame
<1> QED
  BY <1>2, <1>3, <1>4

Fail == Events' /\ Starters' /\ Alone' /\ Failures'

LEMMA SameEvents ==
  ASSUME FInv, stop' = stop, over' = over
  PROVE  Events' /\ OverFalls /\ StopGrows
BY DEF FInv, Events, OverFalls, StopGrows

LEMMA FailStart ==
  ASSUME FInv, NEW t \in Threads,
         StartGuard(t) \/ StartChecks(t) \/ StartClears(t) \/ BrokerGuard(t) \/ BrokerChecks(t) \/ BrokerClears(t)
  PROVE  Fail
<1> USE DEF Fail
<1>0. ASSUME NEW fails \in BOOLEAN, Started(t, fails) PROVE Go(t, "decide") \/ Go(t, "idle")
  BY <1>0 DEF Started
<1>1. handler[t].at \in Clearing /\ over' = over
  BY DEF StartGuard, StartChecks, StartClears, BrokerGuard, BrokerChecks, BrokerClears, At, Clearing, ghosts
<1>2. handler[t].call \in {"start", "bstart", "end"} /\ ~At(t, "idle")
  BY <1>1 DEF FInv, Starters, At, Clearing
<1>3. stop' = stop \/ \E o \in Owners : stop' = [stop EXCEPT ![o] = FALSE]
  BY DEF StartGuard, StartChecks, StartClears, BrokerGuard, BrokerChecks, BrokerClears, Owners, owners
<1>4. \E place \in {"start", "fail", "idle", "decide", "clear", "bguard", "bstart", "connect"} : Go(t, place)
  <2>1. CASE StartGuard(t)
    BY <2>1 DEF StartGuard
  <2>2. CASE StartChecks(t)
    BY <2>2 DEF StartChecks
  <2>3. CASE StartClears(t)
    BY <2>3 DEF StartClears
  <2>4. CASE BrokerGuard(t)
    BY <1>0, <2>4 DEF BrokerGuard
  <2>5. CASE BrokerChecks(t)
    BY <1>0, <2>5 DEF BrokerChecks
  <2>6. CASE BrokerClears(t)
    BY <1>0, <2>6 DEF BrokerClears
  <2> QED
    BY <2>1, <2>2, <2>3, <2>4, <2>5, <2>6
<1>5. Events' /\ OverFalls
  BY <1>1, <1>3 DEF FInv, Events, OverFalls
<1> QED
  BY <1>1, <1>2, <1>4, <1>5, FailMoves DEF Places

LEMMA FailStop ==
  ASSUME FInv, NEW t \in Threads,
         SignalStop(t) \/ OverrideLease(t) \/ SignalBroker(t) \/ BrokerOverrides(t) \/ StopReturns(t)
  PROVE  Fail
<1> USE DEF Fail
<1>1. \E place \in {"override", "bstop", "boverride", "bstopped", "idle"} : Go(t, place)
  BY DEF SignalStop, OverrideLease, SignalBroker, BrokerOverrides, StopReturns
<1>2. ~At(t, "idle")
  BY DEF SignalStop, OverrideLease, SignalBroker, BrokerOverrides, StopReturns, At
<1>3. over' = over \/ over' = [over EXCEPT ![t] = "none"]
  BY DEF SignalStop, OverrideLease, SignalBroker, BrokerOverrides, StopReturns, ghosts
<1>4. \/ stop' = stop
      \/ \E o \in Owners : stop' = [stop EXCEPT ![o] = TRUE]
      \/ stop' = [o \in Owners |-> stop[o] \/ o = "broker" \/ handler[t].call # "bstop"]
  BY DEF SignalStop, OverrideLease, SignalBroker, BrokerOverrides, StopReturns, Owners, owners
<1>5. stop' \in [Owners -> BOOLEAN] /\ StopGrows
  BY <1>4 DEF FInv, Events, StopGrows
<1>6. Events' /\ OverFalls
  BY <1>3, <1>5 DEF FInv, Events, OverFalls
<1> QED
  BY <1>1, <1>2, <1>5, <1>6, FailMoves DEF Places, Clearing

(* The nested stop of a failed end.                                           *)
LEMMA FailLeaseStop ==
  ASSUME FInv, NEW t \in Threads, LeaseStops(t) \/ LeaseStopsBroker(t) \/ LeaseStopped(t)
  PROVE  Fail
<1> USE DEF Fail
<1>1. over' = over
  BY DEF LeaseStops, LeaseStopsBroker, LeaseStopped, ghosts
<1>2. /\ stop' \in [Owners -> BOOLEAN] /\ StopGrows
      /\ LeaseStops(t) => stop'["cohort"]
      /\ LeaseStopsBroker(t) => stop'["broker"]
      /\ LeaseStopped(t) => stop' = stop
  BY DEF LeaseStops, LeaseStopsBroker, LeaseStopped, FInv, Events, StopGrows, Owners, owners
<1>3. \/ LeaseStops(t) /\ At(t, "lstop") /\ Go(t, "lstop2")
      \/ LeaseStopsBroker(t) /\ At(t, "lstop2") /\ Go(t, "lstop3")
      \/ LeaseStopped(t) /\ At(t, "lstop3") /\ Go(t, handler[t].back)
  BY DEF LeaseStops, LeaseStopsBroker, LeaseStopped
<1>4. PICK place \in {"lstop2", "lstop3"} \cup Backs : Go(t, place)
  BY <1>3 DEF FInv, Inv, Shape, Handlers
<1>5. /\ OthersSame(t)
      /\ place = "idle" => handler'[t] = Idle
      /\ place # "idle" => /\ handler'[t].at = place /\ handler'[t].call = handler[t].call
                           /\ handler'[t].back = handler[t].back
  BY <1>4, Goes DEF FInv, Inv, Backs, Places
<1>6. handler'[t].at = place /\ handler'[t].call \in {handler[t].call, "none"}
  BY <1>5 DEF Idle
<1>7. Events' /\ Starters'
  BY <1>1, <1>2, <1>5, <1>6 DEF FInv, Events, Starters, OthersSame, Clearing, Backs
<1>8. Alone'
  <2>1. ~At(t, "idle")
    BY <1>3 DEF At
  <2>2. ASSUME NEW u \in Threads, Starting(u)' PROVE Starting(u)
    BY <1>5, <1>6, <2>1, <2>2 DEF Starting, At, OthersSame
  <2> QED
    BY <1>1, <2>2 DEF FInv, Alone
<1>9. ASSUME NEW u \in Threads, over'[u] = "alone" PROVE Reached(u)'
  <2>1. Reached(u)
    BY <1>1, <1>9 DEF FInv, Failures
  <2>2. CASE u # t
    BY <1>2, <1>5, <2>1, <2>2 DEF Reached, At, OthersSame, StopGrows, Owners
  <2>3. CASE u = t
    <3>1. CASE LeaseStops(t)
      <4>1. handler'[t].at = "lstop2"
        BY <3>1, Goes DEF LeaseStops, FInv, Inv, Places
      <4> QED
        BY <1>2, <2>3, <3>1, <4>1 DEF Reached, At
    <3>2. CASE LeaseStopsBroker(t)
      <4>1. handler[t].at = "lstop2" /\ handler'[t].at = "lstop3" /\ handler'[t].back = handler[t].back
        BY <3>2, Goes DEF LeaseStopsBroker, At, FInv, Inv, Places
      <4> QED
        BY <1>2, <2>1, <2>3, <3>2, <4>1 DEF Reached, At, StopGrows, Owners
    <3>3. CASE LeaseStopped(t)
      <4>1. handler[t].at = "lstop3" /\ handler[t].back \in Backs /\ Go(t, handler[t].back)
        BY <3>3 DEF LeaseStopped, At, FInv, Inv, Shape, Handlers
      <4>2. handler'[t].at = handler[t].back
        BY <4>1, Goes DEF FInv, Inv, Backs, Places, Idle
      <4> QED
        BY <1>2, <2>1, <2>3, <3>3, <4>1, <4>2 DEF Reached, At, Backs
    <3> QED
      BY <1>3, <3>1, <3>2, <3>3
  <2> QED
    BY <2>2, <2>3
<1> QED
  BY <1>7, <1>8, <1>9 DEF Failures

Overs == {"none", "alone", "started", "issued"}

LEMMA OverOvertaken ==
  ASSUME FInv, over' = Overtaken
  PROVE  over' \in [Threads -> Overs] /\ OverFalls
BY DEF FInv, Events, Overtaken, OverFalls, Overs

LEMMA FailBegin ==
  ASSUME FInv, NEW t \in Threads,
         Begin(t) \/ Suspend(t) \/ CheckIdle(t) \/ BeginFails(t) \/ Drain(t) \/ Status(t)
  PROVE  Fail
<1> USE DEF Fail
<1>1. ~At(t, "idle")
  BY DEF Begin, Suspend, CheckIdle, BeginFails, Drain, Status, At
<1>2. CASE Begin(t)
  <2>1. stop' = stop /\ (over' = over \/ over' = Overtaken)
    BY <1>2 DEF Begin, owners
  <2>2. Events' /\ OverFalls /\ StopGrows
    BY <2>1, SameEvents, OverOvertaken DEF FInv, Events, StopGrows, Overs
  <2> QED
    BY <1>1, <1>2, <2>2, FailMoves DEF Begin, Places, Clearing
<1>3. CASE Suspend(t)
  <2>1. Events' /\ OverFalls /\ StopGrows
    BY <1>3 DEF Suspend, FInv, Events, OverFalls, StopGrows, ghosts
  <2> QED
    BY <1>1, <1>3, <2>1, FailMoves DEF Suspend, Places, Clearing
<1>4. CASE CheckIdle(t) \/ BeginFails(t)
  <2>1. stop' = stop /\ over' = over
    BY <1>4 DEF CheckIdle, BeginFails, owners, ghosts
  <2>2. CASE \E place \in Backs : ThenStop(t, place)
    BY <1>1, <2>1, <2>2, FailStops
  <2>3. CASE Go(t, "refuse")
    BY <1>1, <2>1, <2>3, SameEvents, FailMoves DEF Places, Clearing
  <2> QED
    BY <1>4, <2>2, <2>3 DEF CheckIdle, BeginFails, Backs
<1>5. CASE Drain(t) \/ Status(t)
  <2>1. stop' = stop /\ (over' = over \/ over' = Overtaken)
    BY <1>5 DEF Drain, Status, owners, ghosts
  <2>2. Events' /\ OverFalls /\ StopGrows
    BY <2>1, SameEvents, OverOvertaken DEF FInv, Events, StopGrows, Overs
  <2> QED
    BY <1>1, <1>5, <2>2, FailMoves DEF Drain, Status, Places, Clearing
<1> QED
  BY <1>2, <1>3, <1>4, <1>5

LEMMA FailWork ==
  ASSUME FInv, NEW t \in Threads,
         Prepare(t) \/ PrepareRuns(t) \/ Prepared(t) \/ Charts(t) \/ ChartsAdmitted(t)
           \/ Request(t) \/ Register(t)
  PROVE  Fail
<1> USE DEF Fail
<1>1. ~At(t, "idle")
  BY DEF Prepare, PrepareRuns, Prepared, Charts, ChartsAdmitted, Request, Register, At
<1>2. stop' = stop /\ over' = over
  BY DEF Prepare, PrepareRuns, Prepared, Charts, ChartsAdmitted, Request, Register, owners, ghosts
<1>3. \E place \in {"prepare2", "prepare3", "charts2", "register", "idle"} : Go(t, place)
  BY DEF Prepare, PrepareRuns, Prepared, Charts, ChartsAdmitted, Request, Register
<1> QED
  BY <1>1, <1>2, <1>3, SameEvents, FailMoves DEF Places, Clearing

(* A call begins to watch for starts where none is under way.                 *)
LEMMA FailWatches ==
  ASSUME FInv, NEW t \in Threads, OthersSame(t), stop' = stop,
         NEW x \in Overs, over' = [over EXCEPT ![t] = x],
         x = "alone" => \A u \in Threads : ~Starting(u),
         handler'[t].at \notin {"lstop2", "lstop3", "failed"} \cup Clearing,
         Starting(t)' => Starting(t)
  PROVE  Fail
<1>1. Events' /\ Starters'
  BY DEF FInv, Events, Starters, OthersSame, Overs
<1>2. \A u \in Threads : Starting(u)' => Starting(u)
  BY DEF Starting, At, OthersSame
<1>3. Alone'
  BY <1>2 DEF FInv, Events, Alone
<1>4. Failures'
  BY DEF FInv, Events, Failures, Reached, At, OthersSame
<1> QED
  BY <1>1, <1>3, <1>4 DEF Fail

LEMMA CompanyIs == Company \in Overs /\ (Company = "alone" => \A u \in Threads : ~Starting(u))
BY DEF Company, Overs

LEMMA FailEnd ==
  ASSUME FInv, NEW t \in Threads,
         End(t) \/ Qualify(t) \/ Resume(t) \/ Decide(t) \/ Finish(t) \/ EndFails(t) \/ EndFailed(t)
  PROVE  Fail
<1>1. stop' = stop /\ ~At(t, "idle")
  BY DEF End, Qualify, Resume, Decide, Finish, EndFails, EndFailed, owners, At
<1>2. CASE End(t)
  <2>1. CASE over' = over /\ \E place \in {"idle", "status"} : Go(t, place)
    BY <1>1, <2>1, SameEvents, FailMoves DEF Fail, Places, Clearing
  <2>2. CASE \E x \in {"none", Company} : \E place \in {"qualify", "idle"} :
               over' = [over EXCEPT ![t] = x] /\ Go(t, place)
    <3>1. PICK x \in {"none", Company}, place \in {"qualify", "idle"} :
            over' = [over EXCEPT ![t] = x] /\ Go(t, place)
      BY <2>2
    <3>2. /\ OthersSame(t) /\ handler'[t].at = place
          /\ handler'[t].call \in {handler[t].call, "none"}
      BY <3>1, Goes DEF FInv, Inv, Places, Idle
    <3>3. Starting(t)' => Starting(t)
      BY <1>1, <3>2 DEF Starting, At
    <3>4. x \in Overs /\ (x = "alone" => \A u \in Threads : ~Starting(u))
      BY CompanyIs DEF Overs
    <3> QED
      BY <1>1, <3>1, <3>2, <3>3, <3>4, FailWatches DEF Clearing
  <2> QED
    BY <1>2, <2>1, <2>2 DEF End
<1>3. CASE Qualify(t) \/ Resume(t)
  <2>1. \E place \in {"fail", "resume", "finish"} : Go(t, place) \/ (Go(t, "guard") /\ handler[t].call = "end")
    BY <1>3 DEF Qualify, Resume
  <2>2. over' = over
    BY <1>3 DEF Qualify, Resume, ghosts
  <2> QED
    BY <1>1, <2>1, <2>2, SameEvents, FailMoves DEF Fail, Places, Clearing
<1>4. CASE Decide(t) \/ EndFails(t)
  <2>1. over' = over
    BY <1>4 DEF Decide, EndFails, ghosts
  <2>2. CASE \E place \in Backs : ThenStop(t, place)
    BY <1>1, <2>1, <2>2, FailStops DEF Fail
  <2>3. CASE \E place \in {"finish", "fail"} : Go(t, place)
    BY <1>1, <2>1, <2>3, SameEvents, FailMoves DEF Fail, Places, Clearing
  <2> QED
    BY <1>4, <2>2, <2>3 DEF Decide, EndFails, AfterFailure, Backs
<1>5. CASE Finish(t) \/ EndFailed(t)
  <2>1. over' = [over EXCEPT ![t] = "none"] /\ \E place \in {"status", "idle"} : Go(t, place)
    BY <1>5 DEF Finish, EndFailed
  <2>2. Events' /\ OverFalls /\ StopGrows
    BY <1>1, <2>1 DEF FInv, Events, OverFalls, StopGrows
  <2> QED
    BY <1>1, <2>1, <2>2, FailMoves DEF Fail, Places, Clearing
<1> QED
  BY <1>2, <1>3, <1>4, <1>5

LEMMA FailInvoke ==
  ASSUME FInv, NEW t \in Threads, Invoke(t)
  PROVE  Fail
<1>1. PICK c \in Calls :
        /\ handler' = [handler EXCEPT ![t] = [Idle EXCEPT !.at = Entry[c], !.call = c]]
        /\ over' = CASE c \in {"start", "bstart"} -> Overtaken
                     [] c \in {"stop", "halt", "bstop"} -> [over EXCEPT ![t] = Company]
                     [] OTHER -> over
  BY DEF Invoke
<1>2. c \in DOMAIN Entry
  BY CallsAssumption
<1>3. /\ Entry[c] \in Places /\ c \in CallNames
      /\ Entry[c] \notin {"lstop2", "lstop3", "failed"}
      /\ Entry[c] \in Clearing => c \in {"start", "bstart"}
  BY <1>2 DEF Entry, Places, CallNames, Clearing
<1>4. handler' = [handler EXCEPT ![t] = Arriving(Entry[c], c)]
  BY <1>1 DEF Arriving
<1>5. OthersSame(t) /\ handler'[t].at = Entry[c] /\ handler'[t].call = c
  BY <1>3, <1>4, Arrived DEF OthersSame, FInv, Inv, Shape
<1>6. stop' = stop
  BY DEF Invoke, owners
<1>7. CASE c \in {"start", "bstart"}
  <2>1. over' = Overtaken
    BY <1>1, <1>7
  <2>2. \A u \in Threads : over'[u] # "alone"
    BY <2>1 DEF Overtaken
  <2>3. Events'
    BY <1>6, <2>1, OverOvertaken DEF FInv, Events, Overs
  <2>4. Starters'
    BY <1>5, <1>7 DEF FInv, Starters, OthersSame
  <2> QED
    BY <2>2, <2>3, <2>4 DEF Fail, Alone, Failures
<1>8. CASE c \notin {"start", "bstart"}
  <2>1. \E x \in Overs : over' = [over EXCEPT ![t] = x] /\ (x = "alone" => \A u \in Threads : ~Starting(u))
    <3>1. CASE over' = [over EXCEPT ![t] = Company]
      BY <3>1, CompanyIs
    <3>2. CASE over' = over
      <4>1. over[t] \in Overs /\ over' = [over EXCEPT ![t] = over[t]]
        BY <3>2 DEF FInv, Events, Overs
      <4> QED
        BY <4>1 DEF FInv, Alone
    <3> QED
      BY <1>1, <1>8, <3>1, <3>2
  <2>2. ~Starting(t)'
    BY <1>5, <1>8 DEF Starting
  <2> QED
    BY <1>3, <1>5, <1>6, <1>8, <2>1, <2>2, FailWatches
<1> QED
  BY <1>7, <1>8

LEMMA FailElsewhere ==
  ASSUME FInv, UNCHANGED <<stop, over, handler>>
  PROVE  Fail
BY DEF FInv, Fail, Events, Starters, Alone, Starting, Failures, Reached, At

LEMMA FInvInit == Init => FInv
<1> SUFFICES ASSUME Init PROVE FInv
  OBVIOUS
<1>1. Events /\ Starters /\ Alone /\ Failures
  BY DEF Init, Events, Starters, Alone, Failures, Idle, Clearing
<1> QED
  BY <1>1, InvInit DEF FInv

LEMMA FInvStep == FInv /\ [Next]_vars => FInv'
<1> SUFFICES ASSUME FInv, [Next]_vars PROVE FInv'
  OBVIOUS
<1>1. Inv'
  BY InvStep DEF FInv
<1>2. ASSUME NEW t \in Threads, Invoke(t) \/ Handle(t) PROVE Fail
  BY <1>2, FailInvoke, FailStart, FailStop, FailLeaseStop, FailBegin, FailWork, FailEnd DEF Handle
<1>3. ASSUME NEW o \in Owners, Work(o) PROVE Fail
  BY <1>3, FailElsewhere DEF Work, Gate, TickBegins, TickEnds, WorkerExits, ghosts
<1>4. ASSUME JobEnds \/ UNCHANGED vars PROVE Fail
  BY <1>4, FailElsewhere DEF JobEnds, vars, owners, ghosts
<1>5. Fail
  BY <1>2, <1>3, <1>4 DEF Next
<1> QED
  BY <1>1, <1>5 DEF Fail, FInv

(* "Failure stays paused; never recover old intent implicitly."               *)
(* (cohort.py:2030): an end that failed gives the lease up only with both     *)
(* owners stopped, unless a user's start was under way when it began.         *)
THEOREM FailuresStayPaused == Spec => []FailureStaysPaused
<1>1. FInv => FailureStaysPaused
  BY DEF FInv, Failures, Reached, FailureStaysPaused
<1> QED
  BY <1>1, FInvInit, FInvStep, PTL DEF Spec

----------------------------------------------------------------------------
(* A user's stop wins over a lease.  From the moment it has taken away the    *)
(* lease's right to restore, the owners are stopped or a restore is under way *)
(* that will find itself revoked, and stop them again.                        *)
EndPlaces == {"end", "qualify", "resume", "decide", "finish", "fail", "failed", "status",
              "lstop", "lstop2", "lstop3"} \cup Clearing
Nested == {"lstop", "lstop2", "lstop3"}
StopPlaces == {"stop", "override", "bstop", "boverride", "bstopped"}
EndAt(h) ==
    /\ h.call = "end" => h.at \in EndPlaces
    /\ h.call = "end" /\ h.at \in Nested => h.back \in {"finish", "failed"}
    /\ h.at \in StopPlaces => h.call \in {"stop", "halt", "bstop"}
Ends == \A t \in Threads : EndAt(handler[t])

RestorePlaces == {"bguard", "bstart", "connect", "decide", "fail", "lstop", "lstop2"}
Restores(t) == handler[t].call = "end" /\ handler[t].at \in RestorePlaces
Revoke == Active => rec.cancel \/ ~rec.restore
Won(S) == /\ Revoke
          /\ Restoring \/ \A o \in S : stop[o]
          /\ \A t \in Threads : handler[t].call = "end" /\ At(t, "lstop2") => ("cohort" \in S => stop["cohort"])
Scopes == {Owners, {"broker"}}

NoStart == \A u \in Threads : ~Starting(u)
StopMade(t) ==
    /\ handler[t].call \in {"stop", "halt"} /\ handler[t].at \in {"bstop", "boverride", "bstopped"} => Revoke
    /\ handler[t].call \in {"stop", "halt"} /\ handler[t].at \in {"boverride", "bstopped"} => Won(Owners)
    /\ handler[t].call = "bstop" /\ At(t, "bstopped") => Won({"broker"})
Winning ==
    /\ lastStop \in {"alone", "broker"} => NoStart
    /\ lastStop = "alone" => Won(Owners)
    /\ lastStop = "broker" => Won({"broker"})
    /\ \A t \in Threads : over[t] = "alone" => StopMade(t)

UInv == FInv /\ Ends /\ Winning

LEMMA RestoringIs == Restoring <=> \E t \in Threads : Restores(t)
BY DEF Restoring, Restores, RestorePlaces

LEMMA RestoringNext == Restoring' <=> \E t \in Threads : Restores(t)'
BY DEF Restoring, Restores, RestorePlaces

LEMMA RestoresInside ==
  ASSUME UInv, NEW t \in Threads, Restores(t) \/ (handler[t].call = "end" /\ handler[t].at \in Clearing)
  PROVE  InOperation(t)
<1>1. EndAt(handler[t])
  BY DEF UInv, Ends
<1> QED
  BY <1>1 DEF EndAt, Restores, RestorePlaces, InOperation, Nested, Clearing

(* The record may lose its right to restore, never gain it.                   *)
Weakens == \/ /\ rec.cancel => rec'.cancel
              /\ rec'.restore => rec.restore
              /\ Active' => Active
           \/ Revoke'

LEMMA RevokeKept ==
  ASSUME Revoke, Weakens
  PROVE  Revoke'
BY DEF Revoke, Weakens

LEMMA StatusWeakens ==
  ASSUME NEW r \in Record, NEW o \in Statuses(r)
  PROVE  /\ r.cancel => o[1].cancel
         /\ o[1].restore => r.restore
<1>0. PICK w \in Watched(r) : \E j \in AfterCancel(w) :
        o = LET k == IF j \in {"ok", "bad"} THEN "none" ELSE j IN <<Settled(Exited(w, j), k), k>>
  BY DEF Statuses
<1>1. PICK j \in AfterCancel(w) :
        o = LET k == IF j \in {"ok", "bad"} THEN "none" ELSE j IN <<Settled(Exited(w, j), k), k>>
  BY <1>0
<1>2. PICK k : o = <<Settled(Exited(w, j), k), k>>
  BY <1>1
<1>3. /\ w \in Record
      /\ r.cancel => w.cancel
      /\ w.restore => r.restore
  BY DEF Watched, Record, Phases
<1>5. /\ Exited(w, j) \in Record
      /\ Exited(w, j).cancel = w.cancel
      /\ Exited(w, j).restore => w.restore
  BY <1>3 DEF Exited, Record, Phases
<1>6. ASSUME NEW x \in Record
      PROVE  Settled(x, k).cancel = x.cancel /\ Settled(x, k).restore = x.restore
  BY DEF Settled, Record
<1>7. o[1] = Settled(Exited(w, j), k)
  BY <1>2
<1> QED
  BY <1>3, <1>5, <1>6, <1>7

WonNext == \A S \in Scopes : NoStart /\ Won(S) => Won(S)'
Stopping == {"bstop", "boverride", "bstopped"}
OthersFall(t) == \A u \in Threads \ {t} : over'[u] = "alone" => over[u] = "alone"
LastKept == lastStop' \in {"alone", "broker"} => lastStop' = lastStop
NoneBegins(t) == Starting(t)' => Starting(t)
NoneAlone == \A u \in Threads : over'[u] # "alone"

(* A handler that is not at the end of a restore, nor clears an event.        *)
LEMMA WonMoves ==
  ASSUME UInv, NEW t \in Threads, OthersSame(t), NEW S \in Scopes, Won(S), Revoke', StopGrows,
         Restores(t) => Restores(t)',
         handler'[t].call = "end" /\ handler'[t].at = "lstop2" => stop'["cohort"]
  PROVE  Won(S)'
<1>1. \A u \in Threads \ {t} : Restores(u)' = Restores(u)
  BY DEF Restores, OthersSame
<1>2. Restoring' \/ \A o \in S : stop'[o]
  <2>1. CASE Restoring
    BY <1>1, <2>1, RestoringIs, RestoringNext
  <2>2. CASE \A o \in S : stop[o]
    BY <2>2 DEF StopGrows, Scopes, Owners
  <2> QED
    BY <2>1, <2>2 DEF Won
<1>3. ASSUME NEW u \in Threads, handler'[u].call = "end", handler'[u].at = "lstop2", "cohort" \in S
      PROVE  stop'["cohort"]
  <2>1. CASE u = t
    BY <1>3, <2>1
  <2>2. CASE u # t
    BY <1>3, <2>2 DEF Won, At, OthersSame, StopGrows, Owners
  <2> QED
    BY <2>1, <2>2
<1> QED
  BY <1>2, <1>3 DEF Won, At

(* What a step of a handler has to keep.                                      *)
LEMMA WinStep ==
  ASSUME UInv, NEW t \in Threads, OthersSame(t), WonNext, NoneBegins(t), LastKept, OthersFall(t),
         Weakens \/ NoneAlone, over'[t] = "alone" => StopMade(t)'
  PROVE  Winning'
<1>1. \A u \in Threads : Starting(u)' => Starting(u)
  BY DEF NoneBegins, Starting, At, OthersSame
<1>2. lastStop' \in {"alone", "broker"} => NoStart'
  BY <1>1 DEF LastKept, UInv, Winning, NoStart
<1>3. /\ lastStop' = "alone" => Won(Owners)'
      /\ lastStop' = "broker" => Won({"broker"})'
  BY DEF LastKept, UInv, Winning, WonNext, Scopes
<1>4. ASSUME NEW u \in Threads, over'[u] = "alone", u # t PROVE StopMade(u)'
  <2>1. NoStart /\ StopMade(u)
    BY <1>4 DEF OthersFall, UInv, FInv, Alone, Winning, NoStart
  <2>2. Revoke => Revoke'
    BY <1>4, RevokeKept DEF NoneAlone
  <2>3. /\ Won(Owners) => Won(Owners)'
        /\ Won({"broker"}) => Won({"broker"})'
    BY <2>1 DEF WonNext, Scopes
  <2>4. handler'[u] = handler[u]
    BY <1>4 DEF OthersSame
  <2> QED
    BY <2>1, <2>2, <2>3, <2>4 DEF StopMade, At
<1> QED
  BY <1>2, <1>3, <1>4 DEF Winning

LEMMA EndsStep ==
  ASSUME UInv, NEW t \in Threads, OthersSame(t), EndAt(handler'[t])
  PROVE  Ends'
BY DEF UInv, Ends, OthersSame

Win == Ends' /\ Winning'

(* A handler that moves on, stops nobody and ends no restore.                 *)
LEMMA WinMoves ==
  ASSUME UInv, NEW t \in Threads, ~At(t, "idle"), NEW place \in Places, Go(t, place),
         handler[t].call = "end" => place \in (EndPlaces \ Nested) \cup {"idle"},
         handler[t].call = "end" /\ handler[t].at \in RestorePlaces => place \in RestorePlaces,
         place \notin Stopping \cup Nested, place \in StopPlaces => handler[t].at \in StopPlaces,
         Weakens, StopGrows, lastStop' = lastStop, OthersFall(t)
  PROVE  Win
<1>1. /\ OthersSame(t) /\ handler'[t].at = place
      /\ place # "idle" => handler'[t].call = handler[t].call
      /\ place = "idle" => handler'[t].call = "none"
  BY Goes DEF UInv, FInv, Inv, Idle
<1>2. Ends'
  <2>1. EndAt(handler[t])
    BY DEF UInv, Ends
  <2> QED
    BY <1>1, <2>1, EndsStep DEF EndAt, StopPlaces
<1>3. NoneBegins(t)
  BY <1>1 DEF NoneBegins, Starting, At
<1>4. ASSUME Restores(t) PROVE Restores(t)'
  BY <1>1, <1>4 DEF Restores, RestorePlaces
<1>5. WonNext
  BY <1>1, <1>4, RevokeKept, WonMoves DEF WonNext, Won, Nested
<1>6. StopMade(t)'
  BY <1>1 DEF StopMade, At, Stopping
<1> QED
  BY <1>1, <1>2, <1>3, <1>5, <1>6, WinStep DEF Win, LastKept

(* The nested stop begins.                                                    *)
LEMMA WinStops ==
  ASSUME UInv, NEW t \in Threads, ~At(t, "idle"), NEW place \in Backs, ThenStop(t, place),
         handler[t].call = "end" => place \in {"finish", "failed"},
         Weakens, StopGrows, lastStop' = lastStop, over' = over
  PROVE  Win
<1>1. /\ OthersSame(t) /\ handler'[t].at = "lstop"
      /\ handler'[t].call = handler[t].call /\ handler'[t].back = place
  BY StopsNext DEF UInv, FInv, Inv
<1>2. Ends'
  BY <1>1, EndsStep DEF EndAt, EndPlaces, StopPlaces
<1>3. NoneBegins(t)
  BY <1>1 DEF NoneBegins, Starting, At
<1>4. ASSUME Restores(t) PROVE Restores(t)'
  BY <1>1, <1>4 DEF Restores, RestorePlaces
<1>5. WonNext
  BY <1>1, <1>4, RevokeKept, WonMoves DEF WonNext, Won
<1>6. StopMade(t)'
  BY <1>1 DEF StopMade, At
<1> QED
  BY <1>1, <1>2, <1>3, <1>5, <1>6, WinStep DEF Win, LastKept, OthersFall

(* Steps that leave the record, or part of it, to others.                     *)
LEMMA SameRights ==
  ASSUME rec' = rec
  PROVE  Weakens
BY DEF Weakens, Active

LEMMA StopWeakens ==
  ASSUME Shape, rec' = UserStopped
  PROVE  Weakens /\ Revoke'
BY DEF Shape, Record, UserStopped, Weakens, Revoke, Active

(* The restore clears an event: it is under way.                              *)
LEMMA WinClears ==
  ASSUME UInv, NEW t \in Threads, handler[t].at \in Clearing, NEW place \in Places, Go(t, place),
         handler[t].call = "end" => place \in {"bguard", "decide"},
         place \notin StopPlaces \cup Nested,
         rec' = rec, lastStop' = lastStop, over' = over
  PROVE  Win
<1>1. /\ OthersSame(t) /\ handler'[t].at = place
      /\ place # "idle" => handler'[t].call = handler[t].call
      /\ place = "idle" => handler'[t].call = "none"
  BY Goes DEF UInv, FInv, Inv, Idle
<1>2. Ends'
  BY <1>1, EndsStep DEF UInv, Ends, EndAt, EndPlaces, StopPlaces, Clearing, Nested
<1>3. NoneBegins(t)
  BY <1>1 DEF NoneBegins, Starting, At, Clearing
<1>4. ASSUME NEW S \in Scopes, NoStart, Won(S) PROVE Won(S)'
  <2>1. handler[t].call = "end"
    BY <1>4 DEF UInv, FInv, Starters, NoStart, Starting, At, Clearing
  <2>2. Restoring'
    BY <1>1, <2>1, RestoringNext DEF Restores, RestorePlaces
  <2>3. ASSUME NEW u \in Threads, handler'[u].call = "end", handler'[u].at = "lstop2" PROVE FALSE
    <3>1. u # t
      BY <1>1, <2>1, <2>3
    <3>2. Restores(u)
      BY <1>1, <2>3, <3>1 DEF OthersSame, Restores, RestorePlaces
    <3>3. InOperation(u) /\ InOperation(t)
      BY <2>1, <3>2, RestoresInside
    <3> QED
      BY <3>1, <3>3 DEF UInv, FInv, Inv, Exclusive
  <2>4. Revoke'
    BY <1>4, SameRights, RevokeKept DEF Won
  <2> QED
    BY <2>2, <2>3, <2>4 DEF Won, At
<1>5. StopMade(t)'
  BY <1>1 DEF StopMade, At, StopPlaces
<1> QED
  BY <1>1, <1>2, <1>3, <1>4, <1>5, SameRights, WinStep DEF Win, WonNext, LastKept, OthersFall

LEMMA WinStart ==
  ASSUME UInv, NEW t \in Threads,
         StartGuard(t) \/ StartChecks(t) \/ StartClears(t) \/ BrokerGuard(t) \/ BrokerChecks(t) \/ BrokerClears(t)
  PROVE  Win
<1>1. /\ rec' = rec /\ lastStop' = lastStop /\ over' = over
      /\ ~At(t, "idle") /\ handler[t].at \in Clearing
  BY DEF StartGuard, StartChecks, StartClears, BrokerGuard, BrokerChecks, BrokerClears, ghosts, At, Clearing
<1>2. Weakens /\ OthersFall(t)
  BY <1>1, SameRights DEF OthersFall
<1>3. ASSUME NEW fails \in BOOLEAN, Started(t, fails)
      PROVE  (handler[t].call = "end" /\ Go(t, "decide")) \/ (handler[t].call # "end" /\ Go(t, "idle"))
  BY <1>3 DEF Started
<1>4. CASE StartClears(t)
  BY <1>1, <1>4, WinClears DEF StartClears, Places, StopPlaces, Nested
<1>5. CASE BrokerClears(t)
  <2>1. (handler[t].call = "end" /\ Go(t, "decide")) \/ (handler[t].call # "end" /\ Go(t, "idle"))
    BY <1>3, <1>5 DEF BrokerClears
  <2> QED
    BY <1>1, <2>1, WinClears DEF Places, StopPlaces, Nested
<1>6. ASSUME StartGuard(t) \/ StartChecks(t) \/ BrokerGuard(t) \/ BrokerChecks(t)
      PROVE  StopGrows
  BY <1>6 DEF StartGuard, StartChecks, BrokerGuard, BrokerChecks, owners, StopGrows
<1>7. CASE StartGuard(t)
  <2>1. At(t, "guard") /\ (Go(t, "start") \/ Go(t, "fail") \/ (handler[t].call # "end" /\ Go(t, "idle")))
    BY <1>7 DEF StartGuard
  <2> QED
    BY <1>1, <1>2, <1>6, <1>7, <2>1, WinMoves DEF At, Places, EndPlaces, RestorePlaces, Clearing, Stopping, StopPlaces, Nested
<1>8. CASE StartChecks(t)
  <2>1. At(t, "start") /\ \E place \in {"fail", "idle", "decide", "clear"} : Go(t, place)
    BY <1>8 DEF StartChecks
  <2> QED
    BY <1>1, <1>2, <1>6, <1>8, <2>1, WinMoves DEF At, Places, EndPlaces, RestorePlaces, Clearing, Stopping, StopPlaces, Nested
<1>9. CASE BrokerGuard(t) \/ BrokerChecks(t)
  <2>1. \/ Go(t, "bstart") \/ Go(t, "connect")
        \/ (handler[t].call = "end" /\ Go(t, "decide")) \/ (handler[t].call # "end" /\ Go(t, "idle"))
    BY <1>3, <1>9 DEF BrokerGuard, BrokerChecks
  <2> QED
    BY <1>1, <1>2, <1>6, <1>9, <2>1, WinMoves DEF Places, EndPlaces, RestorePlaces, Clearing, Stopping, StopPlaces, Nested
<1> QED
  BY <1>4, <1>5, <1>7, <1>8, <1>9

(* What the call of a stop, which is no end, keeps.                           *)
LEMMA StopCall ==
  ASSUME UInv, NEW t \in Threads, handler[t].at \notin EndPlaces
  PROVE  handler[t].call # "end"
<1>1. EndAt(handler[t])
  BY DEF UInv, Ends
<1> QED
  BY <1>1 DEF EndAt

LEMMA WinStop ==
  ASSUME UInv, NEW t \in Threads,
         SignalStop(t) \/ OverrideLease(t) \/ SignalBroker(t) \/ BrokerOverrides(t) \/ StopReturns(t)
  PROVE  Win
<1>1. /\ ~At(t, "idle") /\ handler[t].call # "end" /\ Shape
      /\ handler[t].at \notin Clearing \cup RestorePlaces
  BY StopCall DEF SignalStop, OverrideLease, SignalBroker, BrokerOverrides, StopReturns, At, EndPlaces, Clearing,
       RestorePlaces, UInv, FInv, Inv
<1>2. StopGrows /\ ~Restores(t)
  BY <1>1 DEF SignalStop, OverrideLease, SignalBroker, BrokerOverrides, StopReturns, owners, StopGrows, UInv, FInv,
       Events, Owners, Restores
<1>3. Weakens
  BY <1>1, SameRights, StopWeakens DEF SignalStop, OverrideLease, SignalBroker, BrokerOverrides, StopReturns
<1>4. ASSUME NEW place \in Places, Go(t, place)
      PROVE  /\ OthersSame(t) /\ handler'[t].at = place
             /\ place # "idle" => handler'[t].call = handler[t].call
             /\ place = "idle" => handler'[t].call = "none"
  BY <1>4, Goes DEF UInv, FInv, Inv, Idle
<1>0. handler[t].call \in {"stop", "halt", "bstop"}
  BY DEF SignalStop, OverrideLease, SignalBroker, BrokerOverrides, StopReturns, At, UInv, Ends, EndAt, StopPlaces
<1>5. ASSUME NEW place \in Places, Go(t, place) PROVE Ends' /\ NoneBegins(t) /\ WonNext
  <2>1. Ends' /\ NoneBegins(t)
    BY <1>0, <1>1, <1>4, <1>5, EndsStep DEF UInv, Ends, EndAt, StopPlaces, NoneBegins, Starting, At
  <2>2. WonNext
    BY <1>1, <1>2, <1>3, <1>4, <1>5, RevokeKept, WonMoves DEF WonNext, Won
  <2> QED
    BY <2>1, <2>2
<1>6. CASE SignalStop(t)
  BY <1>1, <1>2, <1>3, <1>6, WinMoves DEF SignalStop, ghosts, OthersFall, Places, Stopping, StopPlaces, Nested, At
<1>7. CASE OverrideLease(t)
  <2>1. Go(t, "bstop") /\ over' = over /\ lastStop' = lastStop /\ Revoke'
    BY <1>1, <1>7, StopWeakens DEF OverrideLease, ghosts
  <2>2. OthersSame(t) /\ handler'[t].at = "bstop"
    BY <1>4, <2>1 DEF Places
  <2>3. StopMade(t)'
    BY <2>1, <2>2 DEF StopMade, At
  <2> QED
    BY <1>3, <1>5, <2>1, <2>2, <2>3, WinStep DEF Win, LastKept, OthersFall, Places
<1>8. CASE SignalBroker(t)
  <2>1. Go(t, "boverride") /\ over' = over /\ lastStop' = lastStop /\ At(t, "bstop") /\ rec' = rec
    BY <1>8 DEF SignalBroker, ghosts
  <2>2. OthersSame(t) /\ handler'[t].at = "boverride" /\ handler'[t].call = handler[t].call
    BY <1>4, <2>1 DEF Places
  <2>3. ASSUME over'[t] = "alone", handler[t].call \in {"stop", "halt"} PROVE Won(Owners)'
    <3>1. Revoke'
      BY <1>3, <2>1, <2>3, RevokeKept DEF UInv, Winning, StopMade, At
    <3>2. \A o \in Owners : stop'[o]
      BY <1>8, <2>3 DEF SignalBroker
    <3> QED
      BY <3>1, <3>2 DEF Won, Owners
  <2>4. over'[t] = "alone" => StopMade(t)'
    BY <2>2, <2>3 DEF StopMade, At, Won
  <2> QED
    BY <1>3, <1>5, <2>1, <2>2, <2>4, WinStep DEF Win, LastKept, OthersFall, Places
<1>9. CASE BrokerOverrides(t)
  <2>1. Go(t, "bstopped") /\ over' = over /\ lastStop' = lastStop /\ At(t, "boverride") /\ Revoke'
    BY <1>1, <1>9, StopWeakens DEF BrokerOverrides, ghosts
  <2>2. OthersSame(t) /\ handler'[t].at = "bstopped" /\ handler'[t].call = handler[t].call
    BY <1>4, <2>1 DEF Places
  <2>3. ASSUME over'[t] = "alone", handler[t].call \in {"stop", "halt"} PROVE Won(Owners)'
    BY <1>5, <2>1, <2>3 DEF UInv, FInv, Alone, Winning, StopMade, At, WonNext, NoStart, Scopes, Places
  <2>4. Won({"broker"})'
    BY <1>9, <2>1 DEF BrokerOverrides, Won, UInv, FInv, Events, Owners
  <2>5. over'[t] = "alone" => StopMade(t)'
    BY <2>1, <2>2, <2>3, <2>4 DEF StopMade, At
  <2> QED
    BY <1>3, <1>5, <2>1, <2>2, <2>5, WinStep DEF Win, LastKept, OthersFall, Places
<1>10. CASE StopReturns(t)
  <2>1. /\ Go(t, "idle") /\ At(t, "bstopped") /\ rec' = rec
        /\ over' = [over EXCEPT ![t] = "none"]
        /\ lastStop' = CASE handler[t].call # "bstop" -> over[t]
                         [] handler[t].call = "bstop" /\ over[t] = "alone" -> "broker"
                         [] OTHER -> "none"
    BY <1>10 DEF StopReturns
  <2>2. OthersSame(t) /\ handler'[t].call = "none" /\ WonNext /\ Ends' /\ NoneBegins(t)
    BY <1>4, <1>5, <2>1 DEF Places
  <2>3. ASSUME lastStop' \in {"alone", "broker"}
        PROVE  /\ over[t] = "alone" /\ NoStart /\ NoStart'
               /\ handler[t].call # "bstop" => lastStop' = "alone"
               /\ handler[t].call = "bstop" => lastStop' = "broker"
    <3>1. over[t] = "alone" /\ (handler[t].call # "bstop" => lastStop' = "alone")
          /\ (handler[t].call = "bstop" => lastStop' = "broker")
      BY <2>1, <2>3 DEF UInv, FInv, Events
    <3>2. NoStart
      BY <3>1 DEF UInv, FInv, Alone, NoStart
    <3>3. NoStart'
      BY <2>2, <3>2 DEF NoStart, NoneBegins, Starting, At, OthersSame
    <3> QED
      BY <3>1, <3>2, <3>3
  <2>4. ASSUME over[t] = "alone"
        PROVE  /\ handler[t].call # "bstop" => Won(Owners)
               /\ handler[t].call = "bstop" => Won({"broker"})
    BY <1>0, <2>1, <2>4 DEF UInv, Winning, StopMade, At
  <2>5. /\ lastStop' = "alone" => Won(Owners)'
        /\ lastStop' = "broker" => Won({"broker"})'
    BY <2>2, <2>3, <2>4 DEF WonNext, Scopes
  <2>6. ASSUME NEW u \in Threads, over'[u] = "alone" PROVE StopMade(u)'
    <3>1. u # t /\ over[u] = "alone"
      BY <2>1, <2>6 DEF UInv, FInv, Events
    <3>2. NoStart /\ StopMade(u) /\ handler'[u] = handler[u]
      BY <2>2, <3>1 DEF UInv, FInv, Alone, Winning, NoStart, OthersSame
    <3>3. Revoke => Revoke'
      BY <1>3, RevokeKept
    <3>4. /\ Won(Owners) => Won(Owners)'
          /\ Won({"broker"}) => Won({"broker"})'
      BY <2>2, <3>2 DEF WonNext, Scopes
    <3> QED
      BY <3>2, <3>3, <3>4 DEF StopMade, At
  <2>7. lastStop' \in {"alone", "broker"} => NoStart'
    BY <2>3
  <2> QED
    BY <2>2, <2>5, <2>6, <2>7 DEF Win, Winning
<1> QED
  BY <1>6, <1>7, <1>8, <1>9, <1>10

(* The nested stop of the lease: what a restore has cleared is set again.     *)
LEMMA WinLeaseStop ==
  ASSUME UInv, NEW t \in Threads, LeaseStops(t) \/ LeaseStopsBroker(t) \/ LeaseStopped(t)
  PROVE  Win
<1>1. over' = over /\ lastStop' = lastStop /\ ~At(t, "idle") /\ EndAt(handler[t]) /\ Shape
  BY DEF LeaseStops, LeaseStopsBroker, LeaseStopped, ghosts, At, UInv, Ends, FInv, Inv
<1>2. StopGrows
  BY DEF LeaseStops, LeaseStopsBroker, LeaseStopped, owners, StopGrows, UInv, FInv, Events, Owners
<1>3. Weakens
  BY <1>1, SameRights, StopWeakens DEF LeaseStops, LeaseStopsBroker, LeaseStopped
<1>4. CASE LeaseStopped(t)
  <2>1. At(t, "lstop3") /\ Go(t, handler[t].back) /\ handler[t].back \in Backs
    BY <1>4 DEF LeaseStopped, UInv, FInv, Inv, Shape, Handlers
  <2> QED
    BY <1>1, <1>2, <1>3, <2>1, WinMoves
       DEF At, EndAt, OthersFall, Backs, Places, EndPlaces, RestorePlaces, Stopping, StopPlaces, Nested
<1>5. ASSUME NEW place \in {"lstop2", "lstop3"}, Go(t, place), handler[t].at \in Nested
      PROVE  /\ OthersSame(t) /\ handler'[t].at = place /\ handler'[t].call = handler[t].call
             /\ Ends' /\ NoneBegins(t) /\ StopMade(t)'
  <2>1. /\ OthersSame(t) /\ handler'[t].at = place /\ handler'[t].call = handler[t].call
        /\ handler'[t].back = handler[t].back
    BY <1>5, Goes DEF UInv, FInv, Inv, Places
  <2>2. Ends'
    BY <1>1, <1>5, <2>1, EndsStep DEF EndAt, EndPlaces, StopPlaces, Nested
  <2>3. NoneBegins(t) /\ StopMade(t)'
    BY <1>1, <2>1 DEF NoneBegins, Starting, At, StopMade
  <2> QED
    BY <2>1, <2>2, <2>3
<1>6. CASE LeaseStops(t)
  <2>1. At(t, "lstop") /\ Go(t, "lstop2") /\ stop'["cohort"]
    BY <1>6 DEF LeaseStops, UInv, FInv, Events, Owners
  <2>2. /\ OthersSame(t) /\ handler'[t].at = "lstop2" /\ handler'[t].call = handler[t].call
        /\ Ends' /\ NoneBegins(t) /\ StopMade(t)'
    BY <1>5, <2>1 DEF At, Nested
  <2>3. Restores(t) => Restores(t)'
    BY <2>2 DEF Restores, RestorePlaces
  <2>4. WonNext
    BY <1>2, <1>3, <2>1, <2>2, <2>3, RevokeKept, WonMoves DEF WonNext, Won
  <2> QED
    BY <1>1, <1>3, <2>2, <2>4, WinStep DEF Win, LastKept, OthersFall
<1>7. CASE LeaseStopsBroker(t)
  <2>1. At(t, "lstop2") /\ Go(t, "lstop3") /\ stop'["broker"]
    BY <1>7 DEF LeaseStopsBroker, UInv, FInv, Events, Owners
  <2>2. /\ OthersSame(t) /\ handler'[t].at = "lstop3" /\ handler'[t].call = handler[t].call
        /\ Ends' /\ NoneBegins(t) /\ StopMade(t)'
    BY <1>5, <2>1 DEF At, Nested
  <2>3. ASSUME NEW S \in Scopes, Won(S), handler[t].call = "end" PROVE Won(S)'
    <3>1. \A o \in S : stop'[o]
      BY <1>2, <2>1, <2>3 DEF Won, At, StopGrows, Scopes, Owners
    <3>2. Revoke'
      BY <1>3, <2>3, RevokeKept DEF Won
    <3>3. ASSUME NEW u \in Threads, handler'[u].call = "end", handler'[u].at = "lstop2", "cohort" \in S
          PROVE  stop'["cohort"]
      BY <3>1, <3>3
    <3> QED
      BY <3>1, <3>2, <3>3 DEF Won, At
  <2>4. ASSUME NEW S \in Scopes, Won(S), handler[t].call # "end" PROVE Won(S)'
    BY <1>2, <1>3, <2>2, <2>4, RevokeKept, WonMoves DEF Won, Restores
  <2>5. WonNext
    BY <2>3, <2>4 DEF WonNext
  <2> QED
    BY <1>1, <1>3, <2>2, <2>5, WinStep DEF Win, LastKept, OthersFall
<1> QED
  BY <1>4, <1>6, <1>7

(* A new lease may restore only what nobody has stopped.                      *)
LEMMA WinReserves ==
  ASSUME UInv, NEW t \in Threads, At(t, "begin"), ~Active, stop["cohort"] = stop["broker"],
         rec' = [NoLease EXCEPT !.phase = "GUARDING", !.op = TRUE, !.restore = ~stop["cohort"]],
         over' = Overtaken, Go(t, "suspend"), stop' = stop, lastStop' = lastStop
  PROVE  Win
<1>0. handler[t].call # "end" /\ EndAt(handler[t])
  BY StopCall DEF At, EndPlaces, Clearing, UInv, Ends
<1>1. OthersSame(t) /\ handler'[t].at = "suspend" /\ handler'[t].call = handler[t].call
  BY Goes DEF UInv, FInv, Inv, Places
<1>2. Ends'
  BY <1>0, <1>1, EndsStep DEF EndAt, StopPlaces
<1>3. NoneBegins(t)
  BY <1>1 DEF NoneBegins, Starting, At
<1>4. ~Restoring
  BY NotActive, RestoresInside, RestoringIs DEF UInv, FInv, Inv
<1>5. ASSUME NEW S \in Scopes, Won(S) PROVE Won(S)'
  <2>1. stop["cohort"]
    BY <1>4, <1>5 DEF Won, Scopes, Owners
  <2>2. Revoke'
    BY <2>1 DEF Revoke, NoLease
  <2> QED
    BY <1>0, <1>1, <1>5, <2>2, WonMoves DEF StopGrows, Restores
<1>6. NoneAlone
  BY DEF NoneAlone, Overtaken
<1> QED
  BY <1>1, <1>2, <1>3, <1>5, <1>6, WinStep DEF Win, WonNext, LastKept, OthersFall, NoneAlone

(* Inside an operation the lease is active, so the record only loses rights.  *)
LEMMA InsideWeakens ==
  ASSUME Inv, NEW t \in Threads, InOperation(t),
         rec.cancel => rec'.cancel, rec'.restore => rec.restore
  PROVE  Weakens
BY DEF Inv, Exclusive, Weakens

LEMMA StatusRights ==
  ASSUME NEW r \in Record, rec.cancel => r.cancel, r.restore => rec.restore, Active' => Active,
         NEW o \in Statuses(r), rec'.cancel = o[1].cancel, rec'.restore = o[1].restore
  PROVE  Weakens
BY StatusWeakens DEF Weakens

(* A finished lease is active again and has its right to restore: every stop  *)
(* that returned or is under way counts as overtaken.                         *)
LEMMA WinReopens ==
  ASSUME UInv, NEW t \in Threads, Go(t, "idle"), over' = Overtaken, lastStop' = "none"
  PROVE  Win
<1>1. OthersSame(t) /\ handler'[t] = Idle
  BY Goes DEF UInv, FInv, Inv, Places
<1>2. Ends'
  BY <1>1, EndsStep DEF EndAt, Idle, StopPlaces
<1>3. \A u \in Threads : over'[u] # "alone"
  BY DEF Overtaken
<1> QED
  BY <1>2, <1>3 DEF Win, Winning

LEMMA WinBegin ==
  ASSUME UInv, NEW t \in Threads,
         Begin(t) \/ Suspend(t) \/ CheckIdle(t) \/ BeginFails(t) \/ Drain(t)
  PROVE  Win
<1>1. ~At(t, "idle") /\ lastStop' = lastStop /\ Inv /\ rec \in Record
  BY DEF Begin, Suspend, CheckIdle, BeginFails, Drain, At, ghosts, UInv, FInv, Inv, Shape
<1>2. StopGrows
  BY DEF Begin, Suspend, CheckIdle, BeginFails, Drain, owners, StopGrows
<1>3. EndAt(handler[t]) /\ handler[t].call # "end"
  BY StopCall DEF Begin, Suspend, CheckIdle, BeginFails, Drain, At, EndPlaces, Clearing, UInv, Ends
<1> USE DEF Stopping, StopPlaces, Nested, RestorePlaces, Places, OthersFall
<1>4. CASE Begin(t)
  <2>1. CASE /\ ~Active /\ stop["cohort"] = stop["broker"]
             /\ rec' = [NoLease EXCEPT !.phase = "GUARDING", !.op = TRUE, !.restore = ~stop["cohort"]]
             /\ over' = Overtaken /\ Go(t, "suspend")
    BY <1>1, <1>4, <2>1, WinReserves DEF Begin, owners
  <2>2. CASE rec' = rec /\ over' = over /\ (Go(t, "idle") \/ Go(t, "status"))
    <3>1. handler[t].call # "end"
      BY <1>4, StopCall DEF Begin, At, EndPlaces, Clearing
    <3> QED
      BY <1>1, <1>2, <2>2, <3>1, SameRights, WinMoves
  <2> QED
    BY <1>4, <2>1, <2>2 DEF Begin
<1>5. CASE Suspend(t)
  <2>1. handler[t].call # "end" /\ rec' = rec /\ over' = over /\ Go(t, "check")
    BY <1>5, StopCall DEF Suspend, At, EndPlaces, Clearing, ghosts
  <2> QED
    BY <1>1, <1>2, <2>1, SameRights, WinMoves
<1>6. CASE CheckIdle(t)
  <2>1. handler[t].call # "end" /\ rec' = rec /\ over' = over
    BY <1>6, StopCall DEF CheckIdle, At, EndPlaces, Clearing, ghosts
  <2>2. CASE ThenStop(t, "drain")
    BY <1>1, <1>2, <2>1, <2>2, SameRights, WinStops DEF Backs
  <2>3. CASE Go(t, "refuse")
    BY <1>1, <1>2, <2>1, <2>3, SameRights, WinMoves
  <2> QED
    BY <1>6, <2>2, <2>3 DEF CheckIdle
<1>7. CASE BeginFails(t)
  <2>1. handler[t].call # "end" /\ over' = over /\ ThenStop(t, "idle") /\ InOperation(t)
    BY <1>7, StopCall DEF BeginFails, At, EndPlaces, Clearing, ghosts, InOperation
  <2>2. Weakens
    BY <1>1, <1>7, <2>1, InsideWeakens DEF BeginFails, Record
  <2> QED
    BY <1>1, <1>2, <2>1, <2>2, WinStops DEF Backs
<1>8. CASE Drain(t)
  <2>1. handler[t].call # "end" /\ over' = over /\ Go(t, "status") /\ InOperation(t)
    BY <1>8, StopCall DEF Drain, At, EndPlaces, Clearing, ghosts, InOperation
  <2>2. Weakens
    BY <1>1, <1>8, <2>1, InsideWeakens DEF Drain, Draining, Record
  <2> QED
    BY <1>1, <1>2, <2>1, <2>2, WinMoves
<1> QED
  BY <1>4, <1>5, <1>6, <1>7, <1>8

LEMMA WinStatus ==
  ASSUME UInv, NEW t \in Threads, Status(t)
  PROVE  Win
<1>1. ~At(t, "idle") /\ Go(t, "idle") /\ At(t, "status") /\ rec \in Record
  BY DEF Status, At, UInv, FInv, Inv, Shape
<1>2. StopGrows
  BY DEF Status, owners, StopGrows
<1> USE DEF Stopping, StopPlaces, Nested, RestorePlaces, Places, OthersFall
<1>3. CASE UNCHANGED <<rec, ghosts>>
  BY <1>1, <1>2, <1>3, SameRights, WinMoves DEF At, ghosts
<1>4. ASSUME NEW o \in Statuses(rec), rec' = o[1], ~Reopens(o[1]), UNCHANGED ghosts PROVE Win
  <2>1. (Active' => Active) \/ Revoke'
    BY <1>4 DEF Reopens, Active, Revoke
  <2>2. Weakens
    BY <1>1, <1>4, <2>1, StatusRights DEF Weakens
  <2> QED
    BY <1>1, <1>2, <1>4, <2>2, WinMoves DEF At, ghosts
<1>5. ASSUME over' = Overtaken, lastStop' = "none" PROVE Win
  BY <1>1, <1>5, WinReopens
<1> QED
  BY <1>3, <1>4, <1>5 DEF Status, ghosts

LEMMA WinWork ==
  ASSUME UInv, NEW t \in Threads,
         Prepare(t) \/ PrepareRuns(t) \/ Prepared(t) \/ Charts(t) \/ ChartsAdmitted(t)
           \/ Request(t) \/ Register(t)
  PROVE  Win
<1>1. ~At(t, "idle") /\ lastStop' = lastStop /\ over' = over /\ Inv /\ rec \in Record
  BY DEF Prepare, PrepareRuns, Prepared, Charts, ChartsAdmitted, Request, Register, At, ghosts, UInv, FInv, Inv, Shape
<1>2. StopGrows
  BY DEF Prepare, PrepareRuns, Prepared, Charts, ChartsAdmitted, Request, Register, owners, StopGrows
<1>3. handler[t].call # "end"
  BY StopCall DEF Prepare, PrepareRuns, Prepared, Charts, ChartsAdmitted, Request, Register, At, EndPlaces, Clearing
<1>4. Weakens
  <2>1. CASE rec' = rec
    BY <2>1, SameRights
  <2>2. CASE (Prepare(t) \/ Charts(t)) /\ rec' # rec
    BY <1>1, <2>2 DEF Prepare, Charts, Weakens, Active, Record
  <2>3. CASE Prepared(t) \/ ChartsAdmitted(t)
    <3>1. InOperation(t)
      BY <2>3 DEF Prepared, ChartsAdmitted, InOperation, At
    <3> QED
      BY <1>1, <2>3, <3>1, InsideWeakens DEF Prepared, ChartsAdmitted, Record
  <2> QED
    BY <2>1, <2>2, <2>3 DEF PrepareRuns, Request, Register
<1>5. \E place \in {"prepare2", "prepare3", "charts2", "register", "idle"} : Go(t, place)
  BY DEF Prepare, PrepareRuns, Prepared, Charts, ChartsAdmitted, Request, Register
<1> QED
  BY <1>1, <1>2, <1>3, <1>4, <1>5, WinMoves DEF Places, Stopping, StopPlaces, Nested, OthersFall

(* An owner that was stopped meanwhile is not left running: the verdict of    *)
(* the restore finds its right taken away.                                    *)
LEMMA WinDecides ==
  ASSUME UInv, NEW t \in Threads, At(t, "decide"), ~Revoked, Go(t, "finish"),
         rec' = rec, over' = over, lastStop' = lastStop
  PROVE  Win
<1>1. /\ OthersSame(t) /\ handler'[t].at = "finish" /\ handler'[t].call = handler[t].call
  BY Goes DEF UInv, FInv, Inv, Places
<1>2. Active
  BY DEF InOperation, At, UInv, FInv, Inv, Exclusive
<1>3. ~Revoke
  BY <1>2 DEF Revoke, Revoked
<1>4. EndAt(handler[t])
  BY DEF UInv, Ends
<1>5. Ends'
  BY <1>1, <1>4, EndsStep DEF EndAt, EndPlaces, StopPlaces, Nested
<1>6. NoneBegins(t) /\ StopMade(t)'
  BY <1>1 DEF NoneBegins, Starting, At, StopMade
<1> QED
  BY <1>1, <1>3, <1>5, <1>6, SameRights, WinStep DEF Win, WonNext, Won, LastKept, OthersFall

LEMMA WinEnd ==
  ASSUME UInv, NEW t \in Threads,
         End(t) \/ Qualify(t) \/ Resume(t) \/ Decide(t) \/ Finish(t) \/ EndFails(t) \/ EndFailed(t)
  PROVE  Win
<1>1. ~At(t, "idle") /\ lastStop' = lastStop /\ Inv /\ rec \in Record
  BY DEF End, Qualify, Resume, Decide, Finish, EndFails, EndFailed, At, ghosts, UInv, FInv, Inv, Shape
<1>2. StopGrows
  BY DEF End, Qualify, Resume, Decide, Finish, EndFails, EndFailed, owners, StopGrows
<1> USE DEF Stopping, StopPlaces, Nested, RestorePlaces, EndPlaces, Clearing, Places
<1>3. CASE End(t)
  <2> DEFINE r == IF handler[t].call = "abort" THEN [rec EXCEPT !.restore = FALSE, !.cancel = TRUE]
                  ELSE rec
  <2>1. At(t, "end") /\ \E place \in {"idle", "status", "qualify"} : Go(t, place)
    BY <1>3 DEF End
  <2>2. OthersFall(t)
    BY <1>3 DEF End, OthersFall, UInv, FInv, Events
  <2>3. CASE rec' = rec
    BY <1>1, <1>2, <2>1, <2>2, <2>3, SameRights, WinMoves DEF At
  <2>4. CASE Active /\ \E o \in Statuses(r) : rec' = [o[1] EXCEPT !.op = o[1].op \/ CleanIn(o[1], o[2])]
    <3>1. PICK o \in Statuses(r) : rec' = [o[1] EXCEPT !.op = o[1].op \/ CleanIn(o[1], o[2])]
      BY <2>4
    <3>2. r \in Record /\ (rec.cancel => r.cancel) /\ (r.restore => rec.restore)
      BY <1>1 DEF Record
    <3> HIDE DEF r
    <3>3. o[1] \in Record
      BY <3>2, StatusKeeps
    <3>4. rec'.cancel = o[1].cancel /\ rec'.restore = o[1].restore
      BY <3>1, <3>3 DEF Record
    <3>5. Weakens
      BY <2>4, <3>2, <3>4, StatusRights
    <3> QED
      BY <1>1, <1>2, <2>1, <2>2, <3>5, WinMoves DEF At
  <2> QED
    BY <1>3, <2>3, <2>4 DEF End
<1>4. CASE Qualify(t) \/ Resume(t)
  <2>1. /\ handler[t].at \in {"qualify", "resume"} /\ rec' = rec /\ over' = over
        /\ \E place \in {"fail", "resume", "guard", "finish"} : Go(t, place)
    BY <1>4 DEF Qualify, Resume, At, ghosts
  <2> QED
    BY <1>1, <1>2, <2>1, SameRights, WinMoves DEF OthersFall
<1>5. CASE Decide(t)
  <2>1. At(t, "decide") /\ rec' = rec /\ over' = over
    BY <1>5 DEF Decide, ghosts
  <2>2. CASE ThenStop(t, "finish")
    BY <1>1, <1>2, <2>1, <2>2, SameRights, WinStops DEF Backs
  <2>3. CASE ~Revoked /\ Go(t, "finish")
    BY <1>1, <2>1, <2>3, WinDecides
  <2>4. CASE Go(t, "fail")
    BY <1>1, <1>2, <2>1, <2>4, SameRights, WinMoves DEF OthersFall
  <2> QED
    BY <1>5, <2>2, <2>3, <2>4 DEF Decide
<1>6. CASE Finish(t)
  <2>1. /\ handler[t].at = "finish" /\ Go(t, "status") /\ InOperation(t)
    BY <1>6 DEF Finish, At, InOperation
  <2>2. OthersFall(t)
    BY <1>6 DEF Finish, OthersFall, UInv, FInv, Events
  <2>3. Weakens
    BY <1>1, <1>6, <2>1, InsideWeakens DEF Finish, Record
  <2> QED
    BY <1>1, <1>2, <2>1, <2>2, <2>3, WinMoves
<1>7. CASE EndFails(t)
  <2>1. ThenStop(t, "failed") /\ InOperation(t) /\ over' = over
    BY <1>7 DEF EndFails, AfterFailure, At, InOperation, ghosts
  <2>2. Weakens
    BY <1>1, <1>7, <2>1, InsideWeakens DEF EndFails, Record
  <2> QED
    BY <1>1, <1>2, <2>1, <2>2, WinStops DEF Backs
<1>8. CASE EndFailed(t)
  <2>1. /\ handler[t].at = "failed" /\ Go(t, "idle") /\ InOperation(t)
    BY <1>8 DEF EndFailed, At, InOperation
  <2>2. OthersFall(t)
    BY <1>8 DEF EndFailed, OthersFall, UInv, FInv, Events
  <2>3. Weakens
    BY <1>1, <1>8, <2>1, InsideWeakens DEF EndFailed, Record
  <2> QED
    BY <1>1, <1>2, <2>1, <2>2, <2>3, WinMoves
<1> QED
  BY <1>3, <1>4, <1>5, <1>6, <1>7, <1>8

LEMMA WinInvoke ==
  ASSUME UInv, NEW t \in Threads, Invoke(t)
  PROVE  Win
<1>1. PICK c \in Calls :
        /\ handler' = [handler EXCEPT ![t] = [Idle EXCEPT !.at = Entry[c], !.call = c]]
        /\ over' = CASE c \in {"start", "bstart"} -> Overtaken
                     [] c \in {"stop", "halt", "bstop"} -> [over EXCEPT ![t] = Company]
                     [] OTHER -> over
        /\ lastStop' = IF c \in {"start", "bstart", "stop", "halt", "bstop"} THEN "none" ELSE lastStop
  BY DEF Invoke
<1>2. c \in DOMAIN Entry
  BY CallsAssumption
<1>3. /\ Entry[c] \in Places /\ c \in CallNames
      /\ Entry[c] \notin {"boverride", "bstopped"} \cup Nested
      /\ Entry[c] \in StopPlaces => c \in {"stop", "halt", "bstop"}
      /\ Entry[c] = "bstop" => c = "bstop"
      /\ c = "end" => Entry[c] = "end"
  BY <1>2 DEF Entry, Places, CallNames, StopPlaces, Nested
<1>4. handler' = [handler EXCEPT ![t] = Arriving(Entry[c], c)]
  BY <1>1 DEF Arriving
<1>5. OthersSame(t) /\ handler'[t].at = Entry[c] /\ handler'[t].call = c
  BY <1>3, <1>4, Arrived DEF OthersSame, UInv, FInv, Inv, Shape
<1>6. StopGrows /\ rec' = rec /\ At(t, "idle")
  BY DEF Invoke, owners, StopGrows
<1>7. Ends'
  BY <1>3, <1>5, EndsStep DEF EndAt, EndPlaces, Nested
<1>8. CASE c \in {"start", "bstart"}
  <2>1. over' = Overtaken /\ lastStop' = "none"
    BY <1>1, <1>8
  <2>2. \A u \in Threads : over'[u] # "alone"
    BY <2>1 DEF Overtaken
  <2> QED
    BY <1>7, <2>1, <2>2 DEF Win, Winning
<1>9. CASE c \notin {"start", "bstart"}
  <2>1. NoneBegins(t)
    BY <1>5, <1>9 DEF NoneBegins, Starting
  <2>2. StopMade(t)'
    BY <1>3, <1>5 DEF StopMade, At
  <2>3. WonNext
    BY <1>3, <1>5, <1>6, SameRights, RevokeKept, WonMoves DEF WonNext, Won, Restores, RestorePlaces, At, Nested
  <2>4. LastKept /\ OthersFall(t)
    BY <1>1, <1>9 DEF LastKept, OthersFall, UInv, FInv, Events
  <2> QED
    BY <1>5, <1>6, <1>7, <2>1, <2>2, <2>3, <2>4, SameRights, WinStep DEF Win
<1> QED
  BY <1>8, <1>9

LEMMA WinElsewhere ==
  ASSUME UInv, UNCHANGED <<stop, over, handler, rec, lastStop>>
  PROVE  Win
<1>1. Ends'
  BY DEF UInv, Ends
<1>2. /\ Revoke' = Revoke /\ Restoring' = Restoring
  BY DEF Revoke, Active, Restoring
<1>3. \A S \in Scopes : Won(S)' = Won(S)
  BY <1>2 DEF Won, At
<1>4. NoStart' = NoStart
  BY DEF NoStart, Starting, At
<1>5. \A t \in Threads : StopMade(t)' = StopMade(t)
  BY <1>2, <1>3 DEF StopMade, At, Scopes
<1> QED
  BY <1>1, <1>3, <1>4, <1>5 DEF Win, Winning, UInv, Scopes

LEMMA UInvInit == Init => UInv
<1> SUFFICES ASSUME Init PROVE UInv
  OBVIOUS
<1>1. Ends /\ Winning
  BY DEF Init, Ends, EndAt, StopPlaces, Winning, Idle
<1> QED
  BY <1>1, FInvInit DEF UInv

LEMMA UInvStep == UInv /\ [Next]_vars => UInv'
<1> SUFFICES ASSUME UInv, [Next]_vars PROVE UInv'
  OBVIOUS
<1>1. FInv'
  BY FInvStep DEF UInv
<1>2. ASSUME NEW t \in Threads, Invoke(t) \/ Handle(t) PROVE Win
  BY <1>2, WinInvoke, WinStart, WinStop, WinLeaseStop, WinBegin, WinStatus, WinWork, WinEnd DEF Handle
<1>3. ASSUME NEW o \in Owners, Work(o) PROVE Win
  BY <1>3, WinElsewhere DEF Work, Gate, TickBegins, TickEnds, WorkerExits, ghosts
<1>4. ASSUME JobEnds \/ UNCHANGED vars PROVE Win
  BY <1>4, WinElsewhere DEF JobEnds, vars, owners, ghosts
<1>5. Win
  BY <1>2, <1>3, <1>4 DEF Next
<1> QED
  BY <1>1, <1>5 DEF Win, UInv

(* USER_STOP_OVERRIDES_MAINTENANCE_RESUME (cohort.py:1894): a stop or halt    *)
(* that met no start leaves both owners stopped, and the broker's own stop    *)
(* the broker, whatever lease is ended meanwhile and whatever clients call,   *)
(* until a start is issued or the exit of a job requested without a lease     *)
(* gives a finished lease back its right to restore.                          *)
THEOREM UserStopsWin == Spec => []UserStopWins
<1>1. UInv => UserStopWins
  BY DEF UInv, Winning, Won, UserStopWins
<1> QED
  BY <1>1, UInvInit, UInvStep, PTL DEF Spec

----------------------------------------------------------------------------
(* No chart job outlives a stop unowned.  A leased job runs under an active   *)
(* lease (Ended: none when a lease is being ended), which is revoked only by  *)
(* a call that cancels the job before it returns (Owned).  A job requested    *)
(* without a lease is registered only while the cohort is not stopped.        *)
Ending(t) ==
    \/ handler[t].at \in {"qualify", "resume", "decide", "finish", "fail", "failed"}
    \/ handler[t].call = "end" /\ handler[t].at \in Clearing
    \/ handler[t].at \in Nested /\ handler[t].back \in {"finish", "failed"}
Halts == Nested \cup StopPlaces
Halting(t) == handler[t].at \in Halts
StopCalls == {"stop", "halt", "bstop"}

Sorted == \A t \in Threads : handler[t].at \in StopPlaces => handler[t].call \in StopCalls
Ended == \A t \in Threads : Ending(t) => job # "leased"
Owned == job = "leased" =>
    /\ Active
    /\ rec.cancel /\ lastStop = "alone" => \E t \in Threads : Halting(t)

JInv == FInv /\ Sorted /\ Ended /\ Owned
Job == Sorted' /\ Ended' /\ Owned'

\* What a step may do to a leased job and its lease.
Spares ==
    job' = "leased" => /\ job = "leased" /\ (Active => Active')
                       /\ rec'.cancel => rec.cancel
                       /\ lastStop' = "alone" => lastStop = "alone"

LEMMA EndingInside == ASSUME NEW t \in Threads, Ending(t) PROVE InOperation(t)
BY DEF Ending, InOperation, Clearing, Nested

LEMMA JobStep ==
  ASSUME JInv, NEW t \in Threads, OthersSame(t),
         handler'[t].at \in StopPlaces => handler'[t].call \in StopCalls,
         job' = "leased" => /\ job = "leased" /\ (Active => Active')
                            /\ rec'.cancel => rec.cancel \/ Halting(t)'
                            /\ lastStop' = "alone" => lastStop = "alone"
                            /\ Halting(t) => Halting(t)' \/ lastStop' # "alone"
                            /\ Ending(t)' => Ending(t)
  PROVE  Job
<1>1. Sorted'
  BY DEF JInv, Sorted, OthersSame
<1>2. \A u \in Threads \ {t} : Ending(u)' = Ending(u) /\ Halting(u)' = Halting(u)
  BY DEF OthersSame, Ending, Halting
<1>3. ASSUME NEW u \in Threads, Ending(u)', job' = "leased" PROVE FALSE
  BY <1>2, <1>3 DEF JInv, Ended
<1>4. ASSUME job' = "leased" PROVE Active' /\ (rec'.cancel /\ lastStop' = "alone" => \E u \in Threads : Halting(u)')
  <2>1. ASSUME rec'.cancel, lastStop' = "alone" PROVE \E u \in Threads : Halting(u)'
    <3>1. CASE Halting(t)'
      BY <3>1
    <3>2. CASE ~Halting(t)'
      <4>1. \E u \in Threads : Halting(u) /\ u # t
        BY <1>4, <2>1, <3>2 DEF JInv, Owned
      <4> QED
        BY <1>2, <4>1
    <3> QED
      BY <3>1, <3>2
  <2> QED
    BY <1>4, <2>1 DEF JInv, Owned
<1> QED
  BY <1>1, <1>3, <1>4 DEF Job, Ended, Owned

(* A handler goes to another place.                                           *)
LEMMA JobGoes ==
  ASSUME JInv, NEW t \in Threads, NEW place \in Places, Go(t, place), Spares,
         place \in StopPlaces => handler[t].at \in StopPlaces,
         job' = "leased" /\ lastStop' = "alone" /\ Halting(t) => place \in Halts,
         job' = "leased" => place \notin {"qualify", "resume", "decide", "finish", "fail", "failed"} \/ Ending(t),
         place \in Clearing => Ending(t) \/ handler[t].call # "end",
         place \in Nested => handler[t].at \in Nested
  PROVE  Job
<1>1. /\ OthersSame(t)
      /\ place = "idle" => handler'[t] = Idle
      /\ place # "idle" => /\ handler'[t].at = place /\ handler'[t].call = handler[t].call
                           /\ handler'[t].back = handler[t].back
  BY Goes DEF JInv, FInv, Inv
<1>2. handler'[t].at = place
  BY <1>1 DEF Idle
<1>3. place \in StopPlaces => handler'[t].call \in StopCalls
  BY <1>1 DEF JInv, Sorted, StopPlaces
<1>4. ASSUME job' = "leased", Ending(t)' PROVE Ending(t)
  BY <1>1, <1>2, <1>4 DEF Ending, Idle, Clearing, Nested
<1> QED
  BY <1>1, <1>2, <1>3, <1>4, JobStep DEF Spares, Halting

LEMMA JobStops ==
  ASSUME JInv, NEW t \in Threads, NEW place \in Backs, ThenStop(t, place), Spares,
         place \in {"finish", "failed"} => Ending(t)
  PROVE  Job
<1>1. /\ OthersSame(t) /\ handler'[t].at = "lstop" /\ handler'[t].call = handler[t].call
      /\ handler'[t].back = place
  BY StopsNext DEF JInv, FInv, Inv
<1>2. Halting(t)' /\ (Ending(t)' => Ending(t)) /\ handler'[t].at \notin StopPlaces
  BY <1>1 DEF Halting, Halts, Ending, Nested, StopPlaces, Clearing
<1> QED
  BY <1>1, <1>2, JobStep DEF Spares

LEMMA SpareSame == ASSUME UNCHANGED <<job, rec, lastStop>> PROVE Spares
BY DEF Spares, Active

LEMMA JobStart ==
  ASSUME JInv, NEW t \in Threads,
         StartGuard(t) \/ StartChecks(t) \/ StartClears(t) \/ BrokerGuard(t) \/ BrokerChecks(t) \/ BrokerClears(t)
  PROVE  Job
<1>0. ASSUME NEW fails \in BOOLEAN, Started(t, fails)
      PROVE  (handler[t].call = "end" /\ Go(t, "decide")) \/ Go(t, "idle")
  BY <1>0 DEF Started
<1>1. handler[t].at \in Clearing /\ Spares
  BY SpareSame DEF StartGuard, StartChecks, StartClears, BrokerGuard, BrokerChecks, BrokerClears, At,
     Clearing, ghosts
<1>2. ~Halting(t) /\ (handler[t].call = "end" => Ending(t))
  BY <1>1 DEF Halting, Halts, Nested, StopPlaces, Clearing, Ending
<1>3. \/ \E place \in {"start", "idle", "clear", "bguard", "bstart", "connect"} : Go(t, place)
      \/ handler[t].call = "end" /\ \E place \in {"fail", "decide"} : Go(t, place)
  <2>1. CASE StartGuard(t)
    BY <2>1 DEF StartGuard
  <2>2. CASE StartChecks(t)
    BY <2>2 DEF StartChecks
  <2>3. CASE StartClears(t)
    BY <2>3 DEF StartClears
  <2>4. CASE BrokerGuard(t)
    BY <1>0, <2>4 DEF BrokerGuard
  <2>5. CASE BrokerChecks(t)
    BY <1>0, <2>5 DEF BrokerChecks
  <2>6. CASE BrokerClears(t)
    BY <1>0, <2>6 DEF BrokerClears
  <2> QED
    BY <2>1, <2>2, <2>3, <2>4, <2>5, <2>6
<1> QED
  BY <1>1, <1>2, <1>3, JobGoes DEF Places, StopPlaces, Nested, Clearing

LEMMA JobStop ==
  ASSUME JInv, NEW t \in Threads,
         SignalStop(t) \/ OverrideLease(t) \/ SignalBroker(t) \/ BrokerOverrides(t) \/ StopReturns(t)
  PROVE  Job
<1>1. CASE SignalStop(t) \/ SignalBroker(t)
  <2>1. Spares /\ handler[t].at \in StopPlaces
    BY <1>1, SpareSame DEF SignalStop, SignalBroker, ghosts, At, StopPlaces
  <2>2. Go(t, "override") \/ Go(t, "boverride")
    BY <1>1 DEF SignalStop, SignalBroker
  <2> QED
    BY <2>1, <2>2, JobGoes DEF Places, StopPlaces, Halts, Nested, Clearing
<1>2. CASE OverrideLease(t) \/ BrokerOverrides(t)
  <2>1. PICK place \in {"bstop", "bstopped"} : Go(t, place)
    BY <1>2 DEF OverrideLease, BrokerOverrides
  <2>2. /\ OthersSame(t) /\ handler'[t].at = place /\ handler'[t].call = handler[t].call
    BY <2>1, Goes DEF JInv, FInv, Inv, Places
  <2>3. handler[t].at \in StopPlaces /\ job' = job /\ lastStop' = lastStop /\ rec' = UserStopped
    BY <1>2 DEF OverrideLease, BrokerOverrides, At, StopPlaces, ghosts
  <2>4. handler[t].call \in StopCalls
    BY <2>3 DEF JInv, Sorted
  <2>5. Active => Active'
    BY <2>3, UserStopKeeps DEF JInv, FInv, Inv, Active
  <2>6. Halting(t)' /\ ~Ending(t)'
    BY <2>1, <2>2 DEF Halting, Halts, StopPlaces, Ending, Clearing, Nested
  <2> QED
    BY <2>2, <2>3, <2>4, <2>5, <2>6, JobStep
<1>3. CASE StopReturns(t)
  <2>1. Go(t, "idle") /\ rec' = rec /\ At(t, "bstopped")
    BY <1>3 DEF StopReturns
  <2>2. job' = "leased" => job = "leased" /\ lastStop' # "alone"
    BY <1>3 DEF StopReturns, CancelJob
  <2> QED
    BY <2>1, <2>2, JobGoes DEF Spares, Active, Places, StopPlaces, Nested, Clearing
<1> QED
  BY <1>1, <1>2, <1>3

LEMMA JobLeaseStop ==
  ASSUME JInv, NEW t \in Threads, LeaseStops(t) \/ LeaseStopsBroker(t) \/ LeaseStopped(t)
  PROVE  Job
<1>1. CASE LeaseStops(t)
  BY <1>1, SpareSame, JobGoes DEF LeaseStops, ghosts, At, Places, StopPlaces, Halts, Nested, Clearing
<1>2. CASE LeaseStopsBroker(t)
  <2>1. Go(t, "lstop3") /\ handler[t].at = "lstop2"
    BY <1>2 DEF LeaseStopsBroker, At
  <2>2. /\ OthersSame(t) /\ handler'[t].at = "lstop3" /\ handler'[t].call = handler[t].call
        /\ handler'[t].back = handler[t].back
    BY <2>1, Goes DEF JInv, FInv, Inv, Places
  <2>3. job' = job /\ lastStop' = lastStop /\ (rec' = rec \/ rec' = UserStopped)
    BY <1>2 DEF LeaseStopsBroker, ghosts
  <2>4. Active => Active'
    BY <2>3, UserStopKeeps DEF JInv, FInv, Inv, Active
  <2>5. Halting(t)' /\ (Ending(t)' => Ending(t)) /\ handler'[t].at \notin StopPlaces
    BY <2>1, <2>2 DEF Halting, Halts, StopPlaces, Ending, Clearing, Nested
  <2> QED
    BY <2>2, <2>3, <2>4, <2>5, JobStep
<1>3. CASE LeaseStopped(t)
  <2>1. Go(t, handler[t].back) /\ handler[t].back \in Backs
    BY <1>3 DEF LeaseStopped, JInv, FInv, Inv, Shape, Handlers
  <2>2. job' # "leased"
    BY <1>3 DEF LeaseStopped, CancelJob
  <2> QED
    BY <2>1, <2>2, JobGoes DEF Spares, Backs, Places, StopPlaces, Nested, Clearing
<1> QED
  BY <1>1, <1>2, <1>3

(* A status call cancels the job of a lease that is revoked.                  *)
LEMMA StatusSpares ==
  ASSUME NEW r \in Record, NEW o \in Statuses(r), o[2] = "leased"
  PROVE  job = "leased" /\ ~o[1].cancel
<1>1. PICK w \in Watched(r) : \E j \in AfterCancel(w) :
        o = LET k == IF j \in {"ok", "bad"} THEN "none" ELSE j IN <<Settled(Exited(w, j), k), k>>
  BY DEF Statuses
<1>2. PICK j \in AfterCancel(w) :
        o = LET k == IF j \in {"ok", "bad"} THEN "none" ELSE j IN <<Settled(Exited(w, j), k), k>>
  BY <1>1
<1>3. w \in Record
  BY DEF Watched, Record, Phases
<1>4. j = "leased" /\ o[1] = Settled(Exited(w, j), j)
  BY <1>2
<1>5. job = "leased" /\ ~w.cancel
  BY <1>2, <1>4 DEF AfterCancel
<1>6. Exited(w, j) = w
  BY <1>4 DEF Exited
<1>7. Settled(w, j).cancel = w.cancel
  BY <1>3 DEF Settled, Record
<1> QED
  BY <1>4, <1>5, <1>6, <1>7

LEMMA JobBegin ==
  ASSUME JInv, NEW t \in Threads,
         Begin(t) \/ Suspend(t) \/ CheckIdle(t) \/ BeginFails(t) \/ Drain(t) \/ Status(t)
  PROVE  Job
<1>0. handler[t].at \notin Halts /\ rec \in Record
  BY DEF Begin, Suspend, CheckIdle, BeginFails, Drain, Status, At, Halts, Nested, StopPlaces,
     JInv, FInv, Inv, Shape
<1>1. CASE Begin(t)
  <2>1. \E place \in {"suspend", "idle", "status"} : Go(t, place)
    BY <1>1 DEF Begin
  <2>2. Spares
    BY <1>1 DEF Begin, JInv, Owned, Spares, Active
  <2> QED
    BY <1>0, <2>1, <2>2, JobGoes DEF Halting, Places, StopPlaces, Nested, Clearing
<1>2. CASE Suspend(t)
  <2>1. Spares
    BY <1>2, SpareSame DEF Suspend, ghosts
  <2> QED
    BY <1>0, <1>2, <2>1, JobGoes DEF Suspend, Halting, Places, StopPlaces, Nested, Clearing
<1>3. CASE CheckIdle(t)
  <2>1. Spares
    BY <1>3, SpareSame DEF CheckIdle, ghosts
  <2>2. CASE ThenStop(t, "drain")
    BY <2>1, <2>2, JobStops DEF Backs
  <2>3. CASE Go(t, "refuse")
    BY <1>0, <2>1, <2>3, JobGoes DEF Halting, Places, StopPlaces, Nested, Clearing
  <2> QED
    BY <1>3, <2>2, <2>3 DEF CheckIdle
<1>4. CASE BeginFails(t)
  <2>1. Spares
    BY <1>0, <1>4 DEF BeginFails, Spares, Active, Record, ghosts
  <2> QED
    BY <1>4, <2>1, JobStops DEF BeginFails, Backs
<1>5. CASE Drain(t)
  <2>1. Spares
    BY <1>0, <1>5 DEF Drain, Draining, Spares, Active, Record, ghosts
  <2> QED
    BY <1>0, <1>5, <2>1, JobGoes DEF Drain, Halting, Places, StopPlaces, Nested, Clearing
<1>6. CASE Status(t)
  <2>1. Go(t, "idle") /\ lastStop' \in {lastStop, "none"}
    BY <1>6 DEF Status, ghosts
  <2>2. Spares
    <3>1. CASE UNCHANGED <<rec, job>>
      BY <2>1, <3>1 DEF Spares, Active
    <3>2. CASE \E o \in Statuses(rec) : rec' = o[1] /\ job' = o[2]
      <4>1. PICK o \in Statuses(rec) : rec' = o[1] /\ job' = o[2]
        BY <3>2
      <4>2. Active => Active'
        BY <1>0, <4>1, StatusKeeps DEF Active
      <4> QED
        BY <1>0, <2>1, <4>1, <4>2, StatusSpares DEF Spares
    <3> QED
      BY <1>6, <3>1, <3>2 DEF Status
  <2> QED
    BY <1>0, <2>1, <2>2, JobGoes DEF Halting, Places, StopPlaces, Nested, Clearing
<1> QED
  BY <1>1, <1>2, <1>3, <1>4, <1>5, <1>6

LEMMA JobWork ==
  ASSUME JInv, NEW t \in Threads,
         Prepare(t) \/ PrepareRuns(t) \/ Prepared(t) \/ Charts(t) \/ ChartsAdmitted(t)
           \/ Request(t) \/ Register(t)
  PROVE  Job
<1>0. handler[t].at \notin Halts /\ rec \in Record
  BY DEF Prepare, PrepareRuns, Prepared, Charts, ChartsAdmitted, Request, Register, At, Halts,
     Nested, StopPlaces, JInv, FInv, Inv, Shape
<1>1. \E place \in {"prepare2", "prepare3", "charts2", "register", "idle"} : Go(t, place)
  BY DEF Prepare, PrepareRuns, Prepared, Charts, ChartsAdmitted, Request, Register
<1>2. ASSUME Spares PROVE Job
  BY <1>0, <1>1, <1>2, JobGoes DEF Halting, Places, StopPlaces, Nested, Clearing
<1>3. CASE Prepare(t) \/ Charts(t)
  <2>1. Spares
    BY <1>0, <1>3 DEF Prepare, Charts, Spares, Active, Record, ghosts
  <2> QED
    BY <1>2, <2>1
<1>4. CASE Prepared(t)
  <2>1. Spares
    BY <1>0, <1>4 DEF Prepared, Spares, Active, Record, ghosts
  <2> QED
    BY <1>2, <2>1
<1>5. CASE PrepareRuns(t) \/ Request(t)
  BY <1>2, <1>5, SpareSame DEF PrepareRuns, Request, ghosts
<1>6. CASE Register(t)
  <2>1. Spares
    BY <1>6 DEF Register, Spares, Active, ghosts
  <2> QED
    BY <1>2, <2>1
<1>7. CASE ChartsAdmitted(t)
  <2>1. CASE job' = job
    <3>1. Spares
      BY <1>0, <1>7, <2>1 DEF ChartsAdmitted, Spares, Active, Record, ghosts
    <3> QED
      BY <1>2, <3>1
  <2>2. CASE rec' = [rec EXCEPT !.phase = "CHARTS_RUNNING", !.op = FALSE, !.watch = TRUE] /\ StillWanted
    <3>1. Active' /\ ~rec'.cancel
      BY <1>0, <2>2 DEF Active, StillWanted, Record
    <3>2. Go(t, "idle") /\ InOperation(t)
      BY <1>7 DEF ChartsAdmitted, InOperation, At
    <3>3. OthersSame(t) /\ handler'[t] = Idle
      BY <3>2, Goes DEF JInv, FInv, Inv, Places
    <3>4. \A u \in Threads : ~Ending(u)'
      <4>1. ~Ending(t)'
        BY <3>3 DEF Ending, Idle, Clearing, Nested
      <4>2. ASSUME NEW u \in Threads \ {t} PROVE ~Ending(u)'
        <5>1. ~Ending(u)
          BY <3>2, EndingInside DEF JInv, FInv, Inv, Exclusive
        <5> QED
          BY <3>3, <5>1 DEF OthersSame, Ending
      <4> QED
        BY <4>1, <4>2
    <3>5. Sorted'
      BY <3>3 DEF JInv, Sorted, OthersSame, Idle, StopPlaces
    <3> QED
      BY <3>1, <3>4, <3>5 DEF Job, Ended, Owned
  <2> QED
    BY <1>7, <2>1, <2>2 DEF ChartsAdmitted
<1> QED
  BY <1>3, <1>4, <1>5, <1>6, <1>7

LEMMA JobEnd ==
  ASSUME JInv, NEW t \in Threads,
         End(t) \/ Qualify(t) \/ Resume(t) \/ Decide(t) \/ Finish(t) \/ EndFails(t) \/ EndFailed(t)
  PROVE  Job
<1>0. handler[t].at \notin Halts /\ rec \in Record
  BY DEF End, Qualify, Resume, Decide, Finish, EndFails, EndFailed, At, Halts,
     Nested, StopPlaces, JInv, FInv, Inv, Shape
<1>1. ASSUME Ending(t), job' = job PROVE Spares
  BY <1>1 DEF JInv, Ended, Spares
<1>2. CASE End(t)
  <2>1. CASE UNCHANGED <<rec, job>> /\ (Go(t, "idle") \/ Go(t, "status"))
    <3>1. Spares
      BY <1>2, <2>1, SpareSame DEF End
    <3> QED
      BY <1>0, <2>1, <3>1, JobGoes DEF Halting, Places, StopPlaces, Nested, Clearing
  <2>2. CASE ~(UNCHANGED <<rec, job>> /\ (Go(t, "idle") \/ Go(t, "status")))
    <3> DEFINE r == IF handler[t].call = "abort"
                    THEN [rec EXCEPT !.restore = FALSE, !.cancel = TRUE] ELSE rec
    <3>1. r \in Record /\ r.phase = rec.phase
      BY <1>0 DEF Record
    <3>2. PICK o \in Statuses(r) :
            LET clean == CleanIn(o[1], o[2])
            IN  /\ rec' = [o[1] EXCEPT !.op = o[1].op \/ clean]
                /\ job' = o[2]
                /\ Go(t, IF clean THEN "qualify" ELSE "idle")
      BY <1>2, <2>2 DEF End
    <3> HIDE DEF r
    <3>3. o[1] \in Record /\ (Active => o[1].phase \notin {"NONE", "FINISHED"})
      BY <3>1, StatusKeeps DEF Active
    <3>4. Active => Active'
      BY <3>2, <3>3 DEF Active, Record
    <3>5. job' = "leased" => job = "leased" /\ ~rec'.cancel /\ ~CleanIn(o[1], o[2])
      <4>1. rec'.cancel = o[1].cancel
        BY <3>2, <3>3 DEF Record
      <4>2. o[2] = "leased" => job = "leased" /\ ~o[1].cancel
        BY <3>1, StatusSpares
      <4> QED
        BY <3>2, <4>1, <4>2 DEF CleanIn
    <3>6. lastStop' = lastStop
      BY <1>2 DEF End
    <3>7. Spares
      BY <3>4, <3>5, <3>6 DEF Spares
    <3>8. CASE Go(t, "idle")
      BY <1>0, <3>7, <3>8, JobGoes DEF Halting, Places, StopPlaces, Nested, Clearing
    <3>9. CASE Go(t, "qualify") /\ job' # "leased"
      BY <1>0, <3>7, <3>9, JobGoes DEF Halting, Places, StopPlaces, Nested, Clearing
    <3>10. Go(t, "idle") \/ (Go(t, "qualify") /\ job' # "leased")
      BY <3>2, <3>5
    <3> QED
      BY <3>8, <3>9, <3>10
  <2> QED
    BY <2>1, <2>2
<1>3. CASE Qualify(t) \/ Resume(t)
  <2>1. Ending(t) /\ job' = job
    BY <1>3 DEF Qualify, Resume, Ending, At
  <2>2. \E place \in {"fail", "resume", "guard", "finish"} : Go(t, place)
    BY <1>3 DEF Qualify, Resume
  <2> QED
    BY <1>0, <1>1, <2>1, <2>2, JobGoes DEF Halting, Places, StopPlaces, Nested, Clearing
<1>4. CASE Decide(t)
  <2>1. Ending(t) /\ job' = job
    BY <1>4 DEF Decide, Ending, At
  <2>2. CASE ThenStop(t, "finish")
    BY <1>1, <2>1, <2>2, JobStops DEF Backs
  <2>3. CASE Go(t, "finish") \/ Go(t, "fail")
    BY <1>0, <1>1, <2>1, <2>3, JobGoes DEF Halting, Places, StopPlaces, Nested, Clearing
  <2> QED
    BY <1>4, <2>2, <2>3 DEF Decide
<1>5. CASE Finish(t) \/ EndFailed(t)
  <2>1. Ending(t) /\ job' = job
    BY <1>5 DEF Finish, EndFailed, Ending, At
  <2>2. Go(t, "status") \/ Go(t, "idle")
    BY <1>5 DEF Finish, EndFailed
  <2> QED
    BY <1>0, <1>1, <2>1, <2>2, JobGoes DEF Halting, Places, StopPlaces, Nested, Clearing
<1>6. CASE EndFails(t)
  <2>1. Ending(t) /\ job' = job
    BY <1>6 DEF EndFails, Ending, At
  <2> QED
    BY <1>1, <1>6, <2>1, JobStops DEF EndFails, AfterFailure, Backs
<1> QED
  BY <1>2, <1>3, <1>4, <1>5, <1>6

LEMMA JobInvoke ==
  ASSUME JInv, NEW t \in Threads, Invoke(t)
  PROVE  Job
<1>1. PICK c \in Calls :
        /\ handler' = [handler EXCEPT ![t] = [Idle EXCEPT !.at = Entry[c], !.call = c]]
        /\ lastStop' = IF c \in {"start", "bstart", "stop", "halt", "bstop"} THEN "none" ELSE lastStop
  BY DEF Invoke
<1>2. c \in DOMAIN Entry
  BY CallsAssumption
<1>3. /\ Entry[c] \in Places /\ c \in CallNames
      /\ Entry[c] \notin Nested \cup {"qualify", "resume", "decide", "finish", "fail", "failed"}
      /\ Entry[c] \in StopPlaces => c \in StopCalls
      /\ c = "end" => Entry[c] \notin Clearing
  BY <1>2 DEF Entry, Places, CallNames, StopPlaces, StopCalls, Nested, Clearing
<1>4. handler' = [handler EXCEPT ![t] = Arriving(Entry[c], c)]
  BY <1>1 DEF Arriving
<1>5. OthersSame(t) /\ handler'[t].at = Entry[c] /\ handler'[t].call = c
  BY <1>3, <1>4, Arrived DEF OthersSame, JInv, FInv, Inv, Shape
<1>6. UNCHANGED <<job, rec>> /\ ~Halting(t)
  BY DEF Invoke, owners, Halting, At, Halts, Nested, StopPlaces
<1>7. ~Ending(t)'
  BY <1>3, <1>5 DEF Ending
<1> QED
  BY <1>1, <1>3, <1>5, <1>6, <1>7, JobStep DEF Active

LEMMA JobElsewhere ==
  ASSUME JInv, UNCHANGED <<handler, rec, lastStop>>, job' = "leased" => job = "leased"
  PROVE  Job
BY DEF JInv, Job, Sorted, Ended, Ending, Owned, Active, Halting

LEMMA JInvInit == Init => JInv
<1> SUFFICES ASSUME Init PROVE JInv
  OBVIOUS
<1>1. Sorted /\ Ended /\ Owned
  BY DEF Init, Sorted, Ended, Owned, Idle, StopPlaces
<1> QED
  BY <1>1, FInvInit DEF JInv

LEMMA JInvStep == JInv /\ [Next]_vars => JInv'
<1> SUFFICES ASSUME JInv, [Next]_vars PROVE JInv'
  OBVIOUS
<1>1. FInv'
  BY FInvStep DEF JInv
<1>2. ASSUME NEW t \in Threads, Invoke(t) \/ Handle(t) PROVE Job
  BY <1>2, JobInvoke, JobStart, JobStop, JobLeaseStop, JobBegin, JobWork, JobEnd DEF Handle
<1>3. ASSUME NEW o \in Owners, Work(o) PROVE Job
  BY <1>3, JobElsewhere DEF Work, Gate, TickBegins, TickEnds, WorkerExits, CancelJob, ghosts
<1>4. ASSUME JobEnds \/ UNCHANGED vars PROVE Job
  BY <1>4, JobElsewhere DEF JobEnds, vars, owners, ghosts
<1>5. Job
  BY <1>2, <1>3, <1>4 DEF Next
<1> QED
  BY <1>1, <1>5 DEF Job, JInv

(* A status call makes no job one that was requested without a lease.         *)
LEMMA StatusPlain ==
  ASSUME NEW r \in Record, NEW o \in Statuses(r), o[2] = "plain"
  PROVE  job = "plain"
<1>1. PICK w \in Watched(r) : \E j \in AfterCancel(w) :
        o = LET k == IF j \in {"ok", "bad"} THEN "none" ELSE j IN <<Settled(Exited(w, j), k), k>>
  BY DEF Statuses
<1>2. PICK j \in AfterCancel(w) :
        o = LET k == IF j \in {"ok", "bad"} THEN "none" ELSE j IN <<Settled(Exited(w, j), k), k>>
  BY <1>1
<1>3. j = "plain"
  BY <1>2
<1> QED
  BY <1>2, <1>3 DEF AfterCancel

(* A job is requested without a lease under tick_lock (Locked), and never     *)
(* while a lease is being ended: the end waits until tick_lock is free, the   *)
(* request refuses an active lease (Apart).  So after a stop no such job is   *)
(* registered (Gone): the cohort is stopped, or a restore is under way, which *)
(* is inside an end.                                                          *)
Locked == /\ \A t \in Threads : At(t, "register") => tickLock = t
          /\ worker["cohort"] = "tick" => tickLock = "worker"
Apart == (\E t \in Threads : Ending(t)) => \A t \in Threads : ~At(t, "register")
Gone == lastStop = "alone" => job # "plain"

PInv == UInv /\ JInv /\ QInv /\ Locked /\ Apart /\ Gone

LEMMA RestoresEnding ==
  ASSUME UInv, NEW t \in Threads, Restores(t)
  PROVE  Ending(t)
BY DEF UInv, Ends, EndAt, Restores, RestorePlaces, Ending, Clearing, Nested

(* Only an end that finds the lease clean begins to end it.                   *)
LEMMA EndingBegins ==
  ASSUME Inv, NEW t \in Threads, Handle(t), Ending(t)', ~Ending(t)
  PROVE  End(t) /\ Drained /\ tickLock' = tickLock /\ \A u \in Threads \ {t} : handler'[u] = handler[u]
<1> USE DEF Places, Backs, Clearing, Nested
<1>1. ASSUME NEW place \in Places, Go(t, place),
             place \notin {"qualify", "resume", "decide", "finish", "fail", "failed"},
             place \in Clearing => handler[t].call # "end",
             place \in Nested => handler[t].at \in Nested
      PROVE  FALSE
  <2>1. /\ place = "idle" => handler'[t] = Idle
        /\ place # "idle" => /\ handler'[t].at = place /\ handler'[t].call = handler[t].call
                             /\ handler'[t].back = handler[t].back
    BY <1>1, Goes DEF Inv
  <2> QED
    BY <1>1, <2>1 DEF Ending, Idle
<1>2. ASSUME NEW place \in Backs \ {"finish", "failed"}, ThenStop(t, place) PROVE FALSE
  BY <1>2, StopsNext DEF Inv, Ending
<1>3. CASE StartGuard(t) \/ StartChecks(t) \/ StartClears(t) \/ BrokerGuard(t) \/ BrokerChecks(t) \/ BrokerClears(t)
  <2>1. handler[t].at \in Clearing /\ handler[t].call # "end"
    BY <1>3 DEF StartGuard, StartChecks, StartClears, BrokerGuard, BrokerChecks, BrokerClears, At, Ending
  <2>2. ASSUME NEW fails \in BOOLEAN, Started(t, fails) PROVE Go(t, "idle")
    BY <2>1, <2>2 DEF Started
  <2>3. \E place \in {"start", "idle", "clear", "bguard", "bstart", "connect"} : Go(t, place)
    <3>1. CASE StartGuard(t)
      BY <2>1, <3>1 DEF StartGuard
    <3>2. CASE StartChecks(t)
      BY <2>1, <3>2 DEF StartChecks
    <3>3. CASE StartClears(t)
      BY <3>3 DEF StartClears
    <3>4. CASE BrokerGuard(t)
      BY <2>2, <3>4 DEF BrokerGuard
    <3>5. CASE BrokerChecks(t)
      BY <2>2, <3>5 DEF BrokerChecks
    <3>6. CASE BrokerClears(t)
      BY <2>2, <3>6 DEF BrokerClears
    <3> QED
      BY <1>3, <3>1, <3>2, <3>3, <3>4, <3>5, <3>6
  <2> QED
    BY <1>1, <2>1, <2>3
<1>4. CASE SignalStop(t) \/ OverrideLease(t) \/ SignalBroker(t) \/ BrokerOverrides(t) \/ StopReturns(t)
  BY <1>1, <1>4 DEF SignalStop, OverrideLease, SignalBroker, BrokerOverrides, StopReturns
<1>5. CASE LeaseStops(t) \/ LeaseStopsBroker(t)
  BY <1>1, <1>5 DEF LeaseStops, LeaseStopsBroker, At
<1>6. CASE LeaseStopped(t)
  <2>1. handler[t].back \in Backs /\ handler[t].back \notin {"finish", "failed"} /\ Go(t, handler[t].back)
    BY <1>6 DEF LeaseStopped, At, Ending, Inv, Shape, Handlers
  <2> QED
    BY <1>1, <2>1
<1>7. CASE Begin(t) \/ Suspend(t) \/ CheckIdle(t) \/ BeginFails(t) \/ Drain(t) \/ Status(t)
  <2>1. \/ \E place \in {"suspend", "idle", "status", "check", "refuse"} : Go(t, place)
        \/ ThenStop(t, "drain") \/ ThenStop(t, "idle")
    BY <1>7 DEF Begin, Suspend, CheckIdle, BeginFails, Drain, Status
  <2> QED
    BY <1>1, <1>2, <2>1
<1>8. CASE Prepare(t) \/ PrepareRuns(t) \/ Prepared(t) \/ Charts(t) \/ ChartsAdmitted(t)
             \/ Request(t) \/ Register(t)
  <2>1. \E place \in {"prepare2", "prepare3", "charts2", "register", "idle"} : Go(t, place)
    BY <1>8 DEF Prepare, PrepareRuns, Prepared, Charts, ChartsAdmitted, Request, Register
  <2> QED
    BY <1>1, <2>1
<1>9. CASE End(t)
  <2>1. ~(Go(t, "idle") \/ Go(t, "status"))
    BY <1>1
  <2>2. PICK o : CleanIn(o[1], o[2]) /\ Go(t, "qualify")
    BY <1>9, <2>1 DEF End
  <2>3. Drained
    BY <2>2 DEF CleanIn
  <2>4. \A u \in Threads \ {t} : handler'[u] = handler[u]
    BY <2>2, Goes DEF Inv, OthersSame
  <2> QED
    BY <1>9, <2>3, <2>4 DEF End, owners
<1>10. CASE Qualify(t) \/ Resume(t) \/ Decide(t) \/ Finish(t) \/ EndFails(t) \/ EndFailed(t)
  BY <1>10 DEF Qualify, Resume, Decide, Finish, EndFails, EndFailed, At, Ending
<1> QED
  BY <1>3, <1>4, <1>5, <1>6, <1>7, <1>8, <1>9, <1>10 DEF Handle

(* Who may come to register, and what becomes of tick_lock.                   *)
LEMMA HandleLocks ==
  ASSUME PInv, NEW t \in Threads, Handle(t)
  PROVE  /\ OthersSame(t)
         /\ At(t, "register")' => Request(t) /\ ~Active /\ tickLock = NoThread /\ tickLock' = t
         /\ \/ tickLock' = tickLock
            \/ tickLock = NoThread /\ tickLock' = t
            \/ tickLock = t /\ tickLock' = NoThread
         /\ tickLock = t /\ tickLock' # t => ~At(t, "register")'
         /\ worker'["cohort"] = "tick" => worker["cohort"] = "tick"
<1> USE DEF Places, Backs
<1>0. Shape /\ worker \in [Owners -> {"off", "loop", "gate", "tick"}] /\ t # NoThread
  BY NoThreadIsNone DEF PInv, JInv, FInv, Inv, QInv, Workers
<1>1. ASSUME NEW place \in Places \ {"register"}, Go(t, place)
      PROVE  OthersSame(t) /\ ~At(t, "register")'
  BY <1>0, <1>1, Goes DEF At, Idle
<1>2. ASSUME NEW place \in Backs, ThenStop(t, place)
      PROVE  OthersSame(t) /\ ~At(t, "register")'
  BY <1>0, <1>2, StopsNext DEF At
<1>3. CASE StartGuard(t) \/ StartChecks(t) \/ StartClears(t) \/ BrokerGuard(t) \/ BrokerChecks(t) \/ BrokerClears(t)
  <2>1. ASSUME NEW fails \in BOOLEAN, Started(t, fails) PROVE Go(t, "idle") \/ Go(t, "decide")
    BY <2>1 DEF Started
  <2>2. \E place \in {"start", "idle", "fail", "clear", "bguard", "bstart", "connect", "decide"} : Go(t, place)
    <3>1. CASE StartGuard(t)
      BY <3>1 DEF StartGuard
    <3>2. CASE StartChecks(t)
      BY <3>2 DEF StartChecks
    <3>3. CASE StartClears(t)
      BY <3>3 DEF StartClears
    <3>4. CASE BrokerGuard(t)
      BY <2>1, <3>4 DEF BrokerGuard
    <3>5. CASE BrokerChecks(t)
      BY <2>1, <3>5 DEF BrokerChecks
    <3>6. CASE BrokerClears(t)
      BY <2>1, <3>6 DEF BrokerClears
    <3> QED
      BY <1>3, <3>1, <3>2, <3>3, <3>4, <3>5, <3>6
  <2>3. OthersSame(t) /\ ~At(t, "register")'
    BY <1>1, <2>2
  <2>4. tickLock' = tickLock
    BY <1>3 DEF StartGuard, StartChecks, StartClears, BrokerGuard, BrokerChecks, BrokerClears, owners
  <2>5. worker' = worker \/ \E o \in Owners : worker' = [worker EXCEPT ![o] = "loop"]
    BY <1>3 DEF StartGuard, StartChecks, StartClears, BrokerGuard, BrokerChecks, BrokerClears, owners, Owners
  <2> QED
    BY <1>0, <2>3, <2>4, <2>5 DEF Owners
<1>4. CASE SignalStop(t) \/ OverrideLease(t) \/ SignalBroker(t) \/ BrokerOverrides(t) \/ StopReturns(t)
  <2>1. \E place \in {"override", "bstop", "boverride", "bstopped", "idle"} : Go(t, place)
    BY <1>4 DEF SignalStop, OverrideLease, SignalBroker, BrokerOverrides, StopReturns
  <2>2. UNCHANGED <<tickLock, worker>>
    BY <1>4 DEF SignalStop, OverrideLease, SignalBroker, BrokerOverrides, StopReturns, owners
  <2> QED
    BY <1>1, <2>1, <2>2
<1>5. CASE LeaseStops(t) \/ LeaseStopsBroker(t) \/ LeaseStopped(t)
  <2>1. \E place \in {"lstop2", "lstop3"} \cup Backs : Go(t, place)
    BY <1>0, <1>5 DEF LeaseStops, LeaseStopsBroker, LeaseStopped, Shape, Handlers
  <2>2. UNCHANGED <<tickLock, worker>>
    BY <1>5 DEF LeaseStops, LeaseStopsBroker, LeaseStopped, owners
  <2> QED
    BY <1>1, <2>1, <2>2
<1>6. CASE Begin(t) \/ Suspend(t) \/ CheckIdle(t) \/ BeginFails(t) \/ Drain(t) \/ Status(t)
  <2>1. \/ \E place \in {"suspend", "idle", "status", "check", "refuse"} : Go(t, place)
        \/ ThenStop(t, "drain") \/ ThenStop(t, "idle")
    BY <1>6 DEF Begin, Suspend, CheckIdle, BeginFails, Drain, Status
  <2>2. UNCHANGED <<tickLock, worker>>
    BY <1>6 DEF Begin, Suspend, CheckIdle, BeginFails, Drain, Status, owners
  <2> QED
    BY <1>1, <1>2, <2>1, <2>2
<1>7. CASE Prepare(t) \/ PrepareRuns(t) \/ Prepared(t) \/ Charts(t) \/ ChartsAdmitted(t) \/ Register(t)
  <2>1. \E place \in {"prepare2", "prepare3", "charts2", "idle"} : Go(t, place)
    BY <1>7 DEF Prepare, PrepareRuns, Prepared, Charts, ChartsAdmitted, Register
  <2>2. /\ worker' = worker
        /\ \/ tickLock' = tickLock
           \/ tickLock = NoThread /\ tickLock' = t
           \/ tickLock = t /\ tickLock' = NoThread
    BY <1>7 DEF Prepare, PrepareRuns, Prepared, Charts, ChartsAdmitted, Register, LeaveTickLock, owners
  <2> QED
    BY <1>1, <2>1, <2>2
<1>8. CASE Request(t)
  <2>1. CASE ~Active /\ tickLock = NoThread /\ tickLock' = t /\ Go(t, "register")
    BY <1>0, <1>8, <2>1, Goes DEF Request
  <2>2. CASE Go(t, "idle") /\ tickLock' = tickLock
    BY <1>1, <1>8, <2>2 DEF Request
  <2> QED
    BY <1>8, <2>1, <2>2 DEF Request
<1>9. CASE End(t) \/ Qualify(t) \/ Resume(t) \/ Decide(t) \/ Finish(t) \/ EndFails(t) \/ EndFailed(t)
  <2>1. \/ \E place \in {"idle", "status", "qualify", "fail", "resume", "guard", "finish"} : Go(t, place)
        \/ ThenStop(t, "finish") \/ ThenStop(t, "failed")
    BY <1>9 DEF End, Qualify, Resume, Decide, Finish, EndFails, AfterFailure, EndFailed
  <2>2. UNCHANGED <<tickLock, worker>>
    BY <1>9 DEF End, Qualify, Resume, Decide, Finish, EndFails, EndFailed, owners
  <2> QED
    BY <1>1, <1>2, <2>1, <2>2
<1> QED
  BY <1>3, <1>4, <1>5, <1>6, <1>7, <1>8, <1>9 DEF Handle

LEMMA LocksHandle ==
  ASSUME PInv, NEW t \in Threads, Handle(t)
  PROVE  Locked' /\ Apart'
<1>1. /\ OthersSame(t)
      /\ At(t, "register")' => Request(t) /\ ~Active /\ tickLock = NoThread /\ tickLock' = t
      /\ \/ tickLock' = tickLock
         \/ tickLock = NoThread /\ tickLock' = t
         \/ tickLock = t /\ tickLock' = NoThread
      /\ worker'["cohort"] = "tick" => worker["cohort"] = "tick"
  BY HandleLocks
<1>2. \A u \in Threads \ {t} : At(u, "register")' = At(u, "register") /\ Ending(u)' = Ending(u)
  BY <1>1 DEF OthersSame, At, Ending
<1>3. Locked'
  <2>1. ASSUME NEW u \in Threads, At(u, "register")', u # t PROVE tickLock' = u
    BY <1>1, <1>2, <2>1, NoThreadIsNone DEF PInv, Locked
  <2>2. worker'["cohort"] = "tick" => tickLock' = "worker"
    BY <1>1, NoThreadIsNone DEF PInv, Locked
  <2> QED
    BY <1>1, <2>1, <2>2 DEF Locked
<1>4. ASSUME NEW u \in Threads, Ending(u)', NEW v \in Threads, At(v, "register")' PROVE FALSE
  <2>1. CASE v = t
    <3>1. ~Active
      BY <1>1, <1>4, <2>1
    <3>2. ~Ending(u)
      BY <3>1, EndingInside, NotActive DEF PInv, JInv, FInv, Inv
    <3>3. u = t
      BY <1>2, <1>4, <3>2
    <3> QED
      BY <1>4, <2>1, <3>3 DEF At, Ending, Clearing, Nested
  <2>2. CASE v # t
    <3>1. At(v, "register")
      BY <1>2, <1>4, <2>2
    <3>2. ~Ending(u)
      BY <3>1 DEF PInv, Apart
    <3>3. u = t
      BY <1>2, <1>4, <3>2
    <3>4. tickLock = NoThread
      BY <1>4, <3>2, <3>3, EndingBegins DEF PInv, JInv, FInv, Drained
    <3> QED
      BY <3>1, <3>4, NoThreadIsNone DEF PInv, Locked
  <2> QED
    BY <2>1, <2>2
<1> QED
  BY <1>3, <1>4 DEF Apart

LEMMA LocksElsewhere ==
  ASSUME PInv, (\E t \in Threads : Invoke(t)) \/ (\E o \in Owners : Work(o)) \/ JobEnds \/ UNCHANGED vars
  PROVE  Locked' /\ Apart'
<1>1. CASE \E t \in Threads : Invoke(t)
  <2>1. PICK t \in Threads, c \in Calls :
          /\ handler' = [handler EXCEPT ![t] = [Idle EXCEPT !.at = Entry[c], !.call = c]]
          /\ At(t, "idle") /\ UNCHANGED <<tickLock, worker>>
    BY <1>1 DEF Invoke, owners
  <2>2. c \in DOMAIN Entry
    BY CallsAssumption
  <2>3. /\ Entry[c] \in Places /\ c \in CallNames
        /\ Entry[c] \notin Nested \cup {"register", "qualify", "resume", "decide", "finish", "fail", "failed"}
        /\ c = "end" => Entry[c] \notin Clearing
    BY <2>2 DEF Entry, Places, CallNames, Nested, Clearing
  <2>4. handler' = [handler EXCEPT ![t] = Arriving(Entry[c], c)]
    BY <2>1 DEF Arriving
  <2>5. OthersSame(t) /\ handler'[t].at = Entry[c] /\ handler'[t].call = c
    BY <2>3, <2>4, Arrived DEF OthersSame, PInv, JInv, FInv, Inv, Shape
  <2>6. ~Ending(t)' /\ ~At(t, "register")'
    BY <2>3, <2>5 DEF Ending, At
  <2>7. \A u \in Threads \ {t} : At(u, "register")' = At(u, "register") /\ Ending(u)' = Ending(u)
    BY <2>5 DEF OthersSame, At, Ending
  <2> QED
    BY <2>1, <2>6, <2>7 DEF PInv, Locked, Apart
<1>2. ASSUME handler' = handler,
             \/ UNCHANGED <<tickLock, worker>>
             \/ tickLock \in {NoThread, "worker"} /\ tickLock' \in {NoThread, "worker"}
             \/ tickLock' = tickLock,
             worker'["cohort"] = "tick" => tickLock' = "worker"
      PROVE  Locked' /\ Apart'
  BY <1>2, NoThreadIsNone DEF PInv, Locked, Apart, At, Ending
<1>3. CASE \E o \in Owners : Work(o)
  <2>1. PICK o \in Owners : Work(o)
    BY <1>3
  <2>2. handler' = handler /\ worker \in [Owners -> {"off", "loop", "gate", "tick"}]
    BY <2>1 DEF Work, Gate, TickBegins, TickEnds, WorkerExits, PInv, QInv, Workers
  <2>3. worker["cohort"] = "tick" => tickLock = "worker"
    BY DEF PInv, Locked
  <2>4. CASE TickBegins(o) \/ TickEnds(o)
    BY <1>2, <2>2, <2>3, <2>4 DEF TickBegins, TickEnds, Owners
  <2>5. CASE Gate(o) \/ WorkerExits(o)
    BY <1>2, <2>2, <2>3, <2>5 DEF Gate, WorkerExits, Owners
  <2> QED
    BY <2>1, <2>4, <2>5 DEF Work
<1>4. CASE JobEnds \/ UNCHANGED vars
  BY <1>2, <1>4 DEF JobEnds, vars, owners, PInv, Locked
<1> QED
  BY <1>1, <1>3, <1>4

(* No job is registered without a lease after a stop.                         *)
LEMMA GoneKept ==
  ASSUME PInv, [Next]_vars
  PROVE  Gone'
<1> SUFFICES ASSUME lastStop' = "alone", job' = "plain" PROVE FALSE
  BY DEF Gone
<1>1. ASSUME lastStop = "alone" /\ job = "plain" PROVE FALSE
  BY <1>1 DEF PInv, Gone
<1>2. ASSUME NEW t \in Threads, Handle(t) PROVE FALSE
  <2>1. CASE Register(t)
    <3>1. lastStop = "alone" /\ ~stop["cohort"] /\ At(t, "register")
      BY <1>1, <2>1 DEF Register, OvertakenJob, ghosts
    <3>2. PICK u \in Threads : Restores(u)
      BY <3>1, RestoringIs DEF PInv, UInv, Winning, Won, Owners
    <3>3. Ending(u)
      BY <3>2, RestoresEnding DEF PInv
    <3> QED
      BY <3>1, <3>3 DEF PInv, Apart
  <2>2. CASE StopReturns(t)
    BY <1>1, <2>2 DEF StopReturns, CancelJob
  <2>3. CASE End(t) \/ Status(t)
    <3>1. \A r \in {rec, [rec EXCEPT !.restore = FALSE, !.cancel = TRUE]} : r \in Record
      BY DEF PInv, JInv, FInv, Inv, Shape, Record
    <3>2. lastStop = "alone"
      BY <2>3 DEF End, Status, ghosts
    <3>3. \/ job' = job
          \/ \E r \in {rec, [rec EXCEPT !.restore = FALSE, !.cancel = TRUE]} :
               \E o \in Statuses(r) : job' = o[2]
      BY <2>3 DEF End, Status
    <3> QED
      BY <1>1, <3>1, <3>2, <3>3, StatusPlain
  <2>4. CASE LeaseStopped(t) \/ ChartsAdmitted(t)
    BY <1>1, <2>4 DEF LeaseStopped, ChartsAdmitted, CancelJob, ghosts
  <2>5. CASE ~(Register(t) \/ StopReturns(t) \/ End(t) \/ Status(t) \/ LeaseStopped(t) \/ ChartsAdmitted(t))
    <3>1. UNCHANGED <<job, lastStop>>
      BY <1>2, <2>5 DEF Handle, StartGuard, StartChecks, StartClears, BrokerGuard, BrokerChecks,
         BrokerClears, SignalStop, OverrideLease, SignalBroker, BrokerOverrides, LeaseStops,
         LeaseStopsBroker, Begin, Suspend, CheckIdle, BeginFails, Drain, Prepare, PrepareRuns,
         Prepared, Charts, Request, Qualify, Resume, Decide, Finish, EndFails, EndFailed, ghosts
    <3> QED
      BY <1>1, <3>1
  <2> QED
    BY <2>1, <2>2, <2>3, <2>4, <2>5
<1>3. ASSUME NEW o \in Owners, Work(o) PROVE FALSE
  BY <1>1, <1>3 DEF Work, Gate, TickBegins, TickEnds, WorkerExits, CancelJob, ghosts
<1>4. ASSUME NEW t \in Threads, Invoke(t) PROVE FALSE
  <2>1. job' = job /\ lastStop' \in {lastStop, "none"}
    BY <1>4 DEF Invoke
  <2> QED
    BY <1>1, <2>1
<1>5. CASE JobEnds \/ UNCHANGED vars
  BY <1>1, <1>5 DEF JobEnds, vars, ghosts
<1> QED
  BY <1>2, <1>3, <1>4, <1>5 DEF Next

LEMMA PInvInit == Init => PInv
<1> SUFFICES ASSUME Init PROVE PInv
  OBVIOUS
<1>1. Locked /\ Apart /\ Gone
  BY DEF Init, Locked, Apart, Gone, Idle, At, Ending, Clearing, Nested, Owners
<1> QED
  BY <1>1, UInvInit, JInvInit, QInvInit DEF PInv

LEMMA PInvStep == PInv /\ [Next]_vars => PInv'
<1> SUFFICES ASSUME PInv, [Next]_vars PROVE PInv'
  OBVIOUS
<1>1. UInv' /\ JInv' /\ QInv'
  BY UInvStep, JInvStep, QInvStep DEF PInv
<1>2. Locked' /\ Apart'
  BY LocksHandle, LocksElsewhere DEF Next
<1> QED
  BY <1>1, <1>2, GoneKept DEF PInv

(* "stop/close cannot miss a job between creation and registration"           *)
(* (cohort.py:3444): after a stop that met no start no chart job runs without *)
(* a lease that wants it, whatever clients call, until a start is issued or a *)
(* finished lease is given back its right to restore.                         *)
THEOREM JobsNeverStray == Spec => []NoStrayJob
<1>1. PInv => NoStrayJob
  <2> SUFFICES ASSUME PInv, lastStop = "alone", job \in {"plain", "leased"},
                      \A t \in Threads : /\ handler[t].call \notin {"stop", "halt", "bstop"}
                                         /\ handler[t].at \notin {"lstop", "lstop2", "lstop3"}
               PROVE  Active /\ ~rec.cancel /\ job = "leased"
    BY DEF NoStrayJob
  <2>1. \A t \in Threads : ~Halting(t)
    BY DEF PInv, JInv, Sorted, StopCalls, Halting, Halts, Nested
  <2> QED
    BY <2>1 DEF PInv, Gone, JInv, Owned
<1> QED
  BY <1>1, PInvInit, PInvStep, PTL DEF Spec
=============================================================================
