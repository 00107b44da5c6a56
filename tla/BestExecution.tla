--------------------------- MODULE BestExecution ---------------------------
(***************************************************************************)
(* BestBroker's execution of one signal's plan after another on the         *)
(* simulated account (moomoo_component/best_broker.py): tick() with its     *)
(* three routes.                                                            *)
(*   "whole"    every quote is needed, one order per code and phase;        *)
(*   "partial"  codes with a qualified quote go ahead, SELLs without one    *)
(*              are deferred behind the BUYs and resumed in a detour;       *)
(*   "auto"     the partial route under the automatic-completion policy:    *)
(*              resolved SELL targets are frozen and finished before BUYs.  *)
(* OrderEngine has the life of the single order; here an order is sent and  *)
(* later settled.  A tick holds the lock, so nothing comes between its      *)
(* writes of best_execution but a crash or a stop, after which the next     *)
(* tick finds the last write.                                               *)
(*                                                                         *)
(* Left out: prices and money.  A snapshot says how many shares of a code   *)
(* the weight buys at the quoted price and how many the cash reaches.       *)
(* _accept_snapshot refuses positions that differ from the recorded fills,  *)
(* so a tick that goes on always sees the recorded shares.  Exact-hold      *)
(* units, reset, catch-up and first-execution permissions are not modelled. *)
(***************************************************************************)
EXTENDS Integers, FiniteSets, SequencesExt

CONSTANTS
  Codes,       \* security codes
  Routes,      \* the routes of this instance
  Start,       \* the holdings the account may have at the beginning
  MaxQty,      \* bound: shares of one code
  MaxDay,      \* bound: number of signals, for each route
  MaxSends,    \* bound: orders of one code in one phase of a signal
  MaxRetries,  \* MAX_TERMINAL_RETRIES_PER_CODE
  None         \* no quantity, no quote, no state, no order

Phases == {"SELL", "BUY"}
Qtys   == 0..MaxQty

\* best_execution as it is stored (its fields are explained at Fresh); a BUY state
\* that a detour keeps (Plain) keeps none itself.
Rows    == Codes \X {"wait", "cash", "tried"}
Amounts == [Codes -> Qtys \cup {None}]
Plain == [day : Nat, phase : Phases \cup {"DONE"},
          status : {"", "EXECUTED", "PARTIALLY_EXECUTED"}, qty : Amounts,
          done : SUBSET Codes, defer : SUBSET Rows, short : SUBSET Codes,
          frozen : Amounts, scope : SUBSET Codes, resume : {None}]
State == [day : Nat, phase : Phases \cup {"DONE"},
          status : {"", "EXECUTED", "PARTIALLY_EXECUTED"}, qty : Amounts,
          done : SUBSET Codes, defer : SUBSET Rows, short : SUBSET Codes,
          frozen : Amounts, scope : SUBSET Codes, resume : Plain \cup {None}]

ASSUME ConstantsAssumption ==
  /\ Routes \subseteq {"whole", "partial", "auto"}
  /\ MaxQty \in Nat
  /\ MaxDay \in [Routes -> Nat]
  /\ None \notin Qtys
  /\ None \notin State
  /\ \A rows \in SUBSET Rows : rows # None
  /\ None \notin Codes \X Phases
  /\ Start \subseteq [Codes -> Qtys]

VARIABLES
  route,    \* how the account is configured
  day,      \* the signal that is being executed
  weighted, \* the codes with a target weight in its plan
  shares,   \* recorded shares of each code
  exec,     \* settings.best_execution
  sent,     \* orders of the session that reached the broker
  pending,  \* the order that is not settled yet: <<code, phase>>
  todo,     \* targets of the manifest this tick is about to work on
  first,    \* history: the first BUY quantity resolved for the signal
  late      \* history: codes whose SELL was deferred behind the BUYs

vars == <<route, day, weighted, shares, exec, sent, pending, todo, first, late>>

Nothing == [c \in Codes |-> None]
Overlay(f, g) == [c \in Codes |-> IF g[c] # None THEN g[c] ELSE f[c]]
Least(a, b) == IF a < b THEN a ELSE b
Most(a, b)  == IF a > b THEN a ELSE b
Size(n)     == IF n < 0 THEN -n ELSE n

(***************************************************************************)
(* best_execution.  qty: target_quantities; done: processed_codes; defer:   *)
(* deferred_sells; short: the cash_limited rows of skipped; frozen:         *)
(* resolved_sell_targets; scope: sell_codes; resume: resume_buy_state.      *)
(* A row of skipped is a code with the reason it waits for: "wait" for a    *)
(* quote, a cooldown or another order, "cash" for money, "tried" for        *)
(* nothing any more.                                                        *)
(***************************************************************************)
Fresh(ph) == [day |-> day, phase |-> ph, status |-> "", qty |-> Nothing,
              done |-> {}, defer |-> {}, short |-> {}, frozen |-> Nothing,
              scope |-> Codes, resume |-> None]
NoExec == [Fresh("SELL") EXCEPT !.day = 0]

Sold(c, ph)   == sent[c][ph]
Failed(c, ph) == Sold(c, ph) # <<>> /\ Last(Sold(c, ph)).st = "failed"
Filled(c, ph) == SumFunction([k \in DOMAIN Sold(c, ph) |-> Sold(c, ph)[k].fill])

\* A snapshot: the shares wanted of each code (None: no qualified quote), the
\* further shares the cash reaches and the failed codes that still cool down.
\* A code without weight is wanted in no quantity, at any price.
Wants == {w \in [Codes -> Qtys \cup {None}] : \A c \in Codes \ weighted : w[c] \in {0, None}}
Lacks(w, c) == IF w[c] = None THEN 0 ELSE Most(0, w[c] - shares[c])
Reach(w) == {k \in [Codes -> Qtys] : \A c \in Codes : k[c] <= Lacks(w, c)}
Snapshots ==
  UNION {[want : {w}, cash : Reach(w),
          cool : SUBSET {c \in Codes : \E ph \in Phases : Failed(c, ph)}] : w \in Wants}

\* The resolved SELL targets a phase starts with: those of the stored state,
\* whatever its signal, and of the BUY state a detour was called with.
Frozen(ex, given) ==
  IF route # "auto" THEN Nothing
  ELSE IF given # None THEN Overlay(ex.frozen, given.frozen) ELSE ex.frozen

\* A retried BUY goes for the quantity resolved first, as far as the weight and
\* the cash still reach.
Retarget(c, qty, sn) ==
  Most(shares[c], Least(qty, Least(shares[c] + sn.cash[c], sn.want[c])))

\* Bug: only while the SELL is unfinished.
ReducedWhileOver(c, frozen) == frozen[c] # None /\ shares[c] > frozen[c]

\* A code with a resolved SELL target is not bought for the same signal.
Reduced(c, frozen) == frozen[c] # None

(***************************************************************************)
(* _partial_execution(phase) over the best_execution ex and the snapshot    *)
(* sn, in three steps.  given is the BUY state a detour was called with and *)
(* defer the deferred rows a BUY was called with (None: not given).         *)
(* First what the phase starts with ...                                     *)
(***************************************************************************)
Basis(ex, ph, given) ==
  LET prev   == IF ex.day = day /\ ex.phase = ph THEN ex ELSE Fresh(ph)
      frozen == Frozen(ex, given)
      scope  == IF given # None THEN {r[1] : r \in given.defer} ELSE prev.scope
  IN [prev   |-> prev,
      frozen |-> frozen,
      resume |-> IF ph = "BUY" THEN None ELSE IF given # None THEN given ELSE prev.resume,
      scope  |-> IF ph = "BUY" THEN Codes ELSE scope,
      qty    |-> IF route = "auto" /\ ph = "SELL" THEN Overlay(prev.qty, frozen) ELSE prev.qty,
      codes  |-> IF ph = "BUY" THEN weighted ELSE {c \in scope : shares[c] > 0}]

\* ... the codes of a failed order whose target is not reached, ...
Again(b, ph) ==
  {c \in b.codes : /\ Failed(c, ph) /\ b.qty[c] # None
                   /\ IF ph = "BUY" THEN shares[c] < b.qty[c]
                      ELSE route = "auto" /\ shares[c] > b.qty[c]}

\* ... then where each code stands (behind: a resolved decrease, which is
\* finished first and never bought back) ...
Standing(b, ph, sn, again) ==
  LET over   == {c \in again : route = "auto" /\ Size(b.qty[c] - shares[c])
                                                 > Sold(c, ph)[1].qty - Filled(c, ph)}
      spent  == {c \in again : route # "auto" /\ Len(Sold(c, ph)) > MaxRetries}
      cooling == (again \cap sn.cool) \ (over \cup spent)
      retry  == again \ (over \cup spent \cup cooling)
      cut    == {c \in b.codes : ph = "BUY" /\ Reduced(c, b.frozen)}
      behind == {c \in cut \ (over \cup cooling) : shares[c] > b.frozen[c]}
      base   == b.codes \ (over \cup cooling \cup behind)
      fin    == {c \in base : \/ c \in cut
                              \/ c \notin retry /\ (Sold(c, ph) # <<>> \/ c \in b.prev.done)}
      unquoted == {c \in base \ fin : sn.want[c] = None}
  IN [waiting |-> over \cup cooling \cup behind,
      unquoted |-> unquoted,
      behind |-> behind,
      retry |-> retry,
      fin |-> fin,
      open |-> base \ (fin \cup unquoted)]

\* ... and last the quantities of the open ones: the state that is stored,
\* the targets of the manifest and the skipped rows.
Outcome(b, ph, sn, rows, at) ==
  LET fixed  == [c \in Codes |->
                  IF c \notin at.open \/ b.qty[c] # None THEN b.qty[c]
                  ELSE IF ph = "SELL" THEN Least(sn.want[c], shares[c])
                  ELSE Most(shares[c], Least(sn.want[c], shares[c] + sn.cash[c]))]
      target == [c \in at.open |->
                  IF ph = "BUY" /\ c \in at.retry THEN Retarget(c, fixed[c], sn) ELSE fixed[c]]
      go     == {c \in at.open : target[c] # shares[c]}
      short  == b.prev.short \cup
                {c \in at.open : ph = "BUY" /\ b.qty[c] = None /\ sn.want[c] > fixed[c]}
      put    == {<<c, "wait">> : c \in {x \in at.behind : \A r \in rows : r[1] # x}}
  IN [state |-> [day |-> day, phase |-> ph, status |-> "", qty |-> fixed,
                 done |-> (b.prev.done \ (at.waiting \cup at.retry))
                          \cup at.fin \cup (at.open \ go),
                 defer |-> rows \cup put, short |-> short,
                 frozen |-> IF route # "auto" \/ ph = "BUY" THEN b.frozen
                            ELSE Overlay(b.frozen, [c \in Codes |->
                                   IF c \in at.open /\ target[c] < shares[c]
                                   THEN target[c] ELSE None]),
                 scope |-> b.scope, resume |-> b.resume],
      targets |-> [c \in go |-> target[c]],
      skipped |-> rows \cup {<<c, "cash">> : c \in short}
                  \cup {<<c, "wait">> : c \in at.waiting \cup at.unquoted}
                  \cup {<<c, "tried">> : c \in {x \in at.fin : Failed(x, ph)}}]

Resolved(ex, ph, sn, given, defer) ==
  LET b == Basis(ex, ph, given)
  IN  Outcome(b, ph, sn, IF defer # None THEN defer ELSE b.prev.defer,
              Standing(b, ph, sn, Again(b, ph)))

\* Bug: it does not wait.
WaitsNot(state) == FALSE

\* The automatic route waits for its resolved SELLs before it buys.
Waits(state) ==
  route = "auto" /\ \E c \in Codes : state.frozen[c] # None /\ shares[c] > state.frozen[c]

\* Bug: the BUY begins anew.
RestoredNot(state) == state

\* After a detour the BUY it interrupted is restored.
Restored(state) == IF state.resume # None THEN state.resume ELSE state

\* Bug: the BUY is called without them.
DeferredNone(sell) == {}

\* SELLs that found no quote are left behind for after the BUYs.
Deferred(sell) == {r \in sell.skipped : shares[r[1]] > 0}

Unresolved(end) ==
  {r \in end.skipped :
     /\ r[2] # "tried"
     /\ ~ /\ route = "auto" /\ r[2] = "cash"
          /\ end.state.qty[r[1]] # None
          /\ shares[r[1]] >= end.state.qty[r[1]]}

(***************************************************************************)
(* _tick_partial: what one tick stores, in order.  A BUY with deferred      *)
(* SELLs first makes a detour into SELL for them.  A SELL without targets   *)
(* goes on to BUY, in the state the detour left, unless the automatic       *)
(* route still waits for a resolved SELL.                                   *)
(***************************************************************************)
Opening(sn) ==
  IF exec.day = day /\ exec.phase = "BUY" /\ exec.defer # {}
  THEN Resolved(exec, "SELL", sn, exec, None)
  ELSE Resolved(exec, IF exec.day = day THEN exec.phase ELSE "SELL", sn, None, None)

Ending(end) ==
  [writes |-> <<end.state>> \o
     IF end.targets = <<>> /\ end.state.phase = "BUY" /\ Unresolved(end) = {}
     THEN <<[end.state EXCEPT !.phase = "DONE",
               !.status = IF end.skipped = {} THEN "EXECUTED" ELSE "PARTIALLY_EXECUTED"]>>
     ELSE <<>>,
   targets |-> end.targets]

Following(one, back, rest) ==
  [rest EXCEPT !.writes = <<one.state>> \o (IF back = one.state THEN <<>> ELSE <<back>>) \o @]

Continued(sn, one) ==
  IF one.targets # <<>> \/ one.state.phase = "BUY" \/ Waits(one.state)
  THEN Ending(one)
  ELSE LET back == Restored(one.state)
       IN  Following(one, back, Ending(Resolved(back, "BUY", sn, None, Deferred(one))))

Turn(sn) == Continued(sn, Opening(sn))

(***************************************************************************)
(* The whole route: _execution fixes the target of every code of the phase  *)
(* at once.                                                                 *)
(***************************************************************************)
Concerned == weighted \cup {c \in Codes : shares[c] > 0}
Whole(ph, sn) ==
  [Fresh(ph) EXCEPT !.qty = [c \in Codes |->
     IF c \notin Concerned THEN None
     ELSE IF ph = "SELL" THEN Least(sn.want[c], shares[c]) ELSE sn.want[c]]]
Missed == {c \in Codes : exec.qty[c] # None /\ shares[c] # exec.qty[c]}

Init ==
  /\ route \in Routes
  /\ day = 1
  /\ weighted \in SUBSET Codes
  /\ shares \in Start
  /\ exec = NoExec
  /\ sent = [c \in Codes |-> [ph \in Phases |-> <<>>]]
  /\ pending = None
  /\ todo = <<>>
  /\ first = Nothing
  /\ late = {}

Stored(e) ==
  /\ exec' = e
  /\ first' = IF e.phase = "SELL" THEN first ELSE Overlay(e.qty, first)
  /\ late' = late \cup (IF e.phase = "SELL" THEN {} ELSE {r[1] : r \in e.defer})

\* tick() gets as far as the execution window and its routes.
Ready ==
  /\ pending = None
  /\ todo = <<>>
  /\ ~(exec.day = day /\ exec.phase = "DONE")

\* The writes of a tick, and its manifest; or the process dies or is stopped
\* after one of the earlier writes.
Tick ==
  /\ Ready
  /\ route # "whole"
  /\ \E t \in {Turn(sn) : sn \in Snapshots} : \E k \in DOMAIN t.writes :
       /\ Stored(t.writes[k])
       /\ todo' = IF k = Len(t.writes) THEN t.targets ELSE <<>>
  /\ UNCHANGED <<route, day, weighted, shares, sent, pending>>

\* The tick that finds a new signal, or the SELLs reached, fixes a phase.
FixWhole ==
  /\ Ready
  /\ route = "whole"
  /\ Concerned # {}
  /\ exec.day = day => exec.phase = "SELL" /\ Missed = {}
  /\ \E sn \in Snapshots :
       /\ \A c \in Concerned : sn.want[c] # None
       /\ Stored(Whole(IF exec.day = day THEN "BUY" ELSE "SELL", sn))
  /\ UNCHANGED <<route, day, weighted, shares, sent, pending, todo>>

\* A code that was tried in the phase and missed its target blocks the rest.
WorkWhole ==
  /\ Ready
  /\ route = "whole"
  /\ exec.day = day
  /\ Missed # {}
  /\ \A c \in Missed : Sold(c, exec.phase) = <<>>
  /\ todo' = [c \in Missed |-> exec.qty[c]]
  /\ UNCHANGED <<route, day, weighted, shares, exec, sent, pending, first, late>>

EndWhole ==
  /\ Ready
  /\ route = "whole"
  /\ exec.day = day
  /\ exec.phase = "BUY"
  /\ Missed = {}
  /\ Stored([exec EXCEPT !.phase = "DONE", !.status = "EXECUTED"])
  /\ UNCHANGED <<route, day, weighted, shares, sent, pending, todo>>

(***************************************************************************)
(* step() of the engine sends one order of the manifest, or none: a fresh   *)
(* quote is missing, a limit refuses, the process stops or dies.            *)
(***************************************************************************)
Send(c) ==
  /\ c \in DOMAIN todo
  /\ route = "auto" => \A x \in DOMAIN todo :
       IF exec.phase = "SELL" THEN todo[x] <= shares[x] ELSE todo[x] >= shares[x]
  /\ Len(Sold(c, exec.phase)) < MaxSends
  /\ sent' = [sent EXCEPT ![c][exec.phase] =
                Append(@, [side |-> IF todo[c] > shares[c] THEN "BUY" ELSE "SELL",
                           qty |-> Size(todo[c] - shares[c]), fill |-> 0, st |-> "open"])]
  /\ pending' = <<c, exec.phase>>
  /\ todo' = <<>>
  /\ UNCHANGED <<route, day, weighted, shares, exec, first, late>>

SendNone ==
  /\ todo # <<>>
  /\ todo' = <<>>
  /\ UNCHANGED <<route, day, weighted, shares, exec, sent, pending, first, late>>

\* A later tick reconciles the order: "failed" is FAILED, CANCELLED_ALL and
\* CANCELLED_PART, "dropped" is DELETED and DISABLED.
Settle ==
  /\ pending # None
  /\ LET c == pending[1]
         ph == pending[2]
         n == Len(Sold(c, ph))
         o == Sold(c, ph)[n]
     IN \E f \in 0..o.qty, st \in {"filled", "failed", "dropped"} :
          /\ (st = "filled") = (f = o.qty)
          /\ sent' = [sent EXCEPT ![c][ph][n] = [o EXCEPT !.fill = f, !.st = st]]
          /\ shares' = [shares EXCEPT ![c] = IF o.side = "BUY" THEN @ + f ELSE @ - f]
  /\ pending' = None
  /\ UNCHANGED <<route, day, weighted, exec, todo, first, late>>

\* _prepare: the window is over and the next signal's plan is frozen.  Nothing
\* resets best_execution.
NewSignal ==
  /\ pending = None
  /\ todo = <<>>
  /\ day < MaxDay[route]
  /\ day' = day + 1
  /\ weighted' \in SUBSET Codes
  /\ sent' = [c \in Codes |-> [ph \in Phases |-> <<>>]]
  /\ first' = Nothing
  /\ late' = {}
  /\ UNCHANGED <<route, shares, exec, pending, todo>>

Next ==
  \/ Tick \/ FixWhole \/ WorkWhole \/ EndWhole
  \/ \E c \in Codes : Send(c)
  \/ SendNone \/ Settle \/ NewSignal

Spec == Init /\ [][Next]_vars

-----------------------------------------------------------------------------
Done(status) == exec.day = day /\ exec.phase = "DONE" /\ exec.status = status
Orders(c) == Sold(c, "SELL") \o Sold(c, "BUY")

\* The quantity a signal first resolves for a BUY binds it to its end, through
\* every retry, deferral, detour and crash: no later quote resizes it, and no
\* order buys past it.
QuantitiesAreFixed ==
  /\ exec.day = day /\ exec.phase # "SELL" => exec.qty = first
  /\ exec.day = day /\ exec.resume # None => exec.resume.qty = first
  /\ \A c \in Codes : LET o == Sold(c, "BUY") IN
       o # <<>> /\ Last(o).st = "open" /\ Last(o).side = "BUY" => shares[c] + Last(o).qty <= first[c]

\* On the automatic route no BUY is sent while a SELL order of the signal has
\* left a part of its target unsold.
SellsFinishFirst ==
  [][\A c \in Codes :
       route = "auto" /\ Len(sent'[c]["BUY"]) > Len(Sold(c, "BUY")) =>
         \A x \in Codes : Sold(x, "SELL") # <<>> =>
                            Filled(x, "SELL") = Sold(x, "SELL")[1].qty]_vars

\* On the automatic route a code that was sold for a signal is not bought back
\* for it, whatever the later quotes, unless its SELL had been deferred.
NoReversal ==
  route = "auto" => \A c \in Codes \ late : Sold(c, "SELL") = <<>> \/ Sold(c, "BUY") = <<>>

\* A signal reported as executed has decided every code of its plan, and what
\* it decided is held and what has no weight is sold, unless an order for it
\* was sent and ended short.
NothingForgotten ==
  Done("EXECUTED") =>
    /\ \A c \in weighted : \/ exec.qty[c] # None
                            \/ exec.frozen[c] # None
                            \/ Orders(c) # <<>>
    /\ \A c \in Codes :
         \/ exec.qty[c] # None /\ shares[c] # exec.qty[c]
         \/ route # "auto" /\ c \notin weighted /\ shares[c] > 0
         => route # "whole" /\ \E k \in DOMAIN Orders(c) : Orders(c)[k].st # "filled"

\* A signal reported as executed holds nothing outside its plan, unless the
\* broker dropped the order that was to sell it.
ExitsAreSold ==
  Done("EXECUTED") =>
    \A c \in Codes \ weighted :
      shares[c] = 0 \/ \E k \in DOMAIN Orders(c) : Orders(c)[k].st = "dropped"
=============================================================================
