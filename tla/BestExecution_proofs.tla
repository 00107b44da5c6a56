------------------------ MODULE BestExecution_proofs ------------------------
(***************************************************************************)
(* Proofs about BestExecution for every value of its constants: whatever    *)
(* number of codes, signals, orders and retries, on each route.             *)
(*   1. what a phase resolves: Basis, Standing, Outcome;                    *)
(*   2. what a tick writes: the states of Turn;                             *)
(*   3. the invariant, which every step keeps;                              *)
(*   4. what follows from it;                                               *)
(*   5. SELLs before BUYs: what is left to sell.                            *)
(*   6. nothing forgotten: what each stored state knows of the plan.         *)
(***************************************************************************)
EXTENDS BestExecution, Sums, TLAPS

\* An order of the session.
Order == [side : {"BUY", "SELL"}, qty : Qtys, fill : Qtys,
          st : {"open", "filled", "failed", "dropped"}]

\* The type invariant.
Typed ==
  /\ route \in Routes
  /\ day \in Nat
  /\ weighted \in SUBSET Codes
  /\ shares \in [Codes -> Qtys]
  /\ exec \in State
  /\ sent \in [Codes -> [Phases -> Seq(Order)]]
  /\ pending \in {None} \cup (Codes \X Phases)
  /\ \A c \in DOMAIN todo : c \in Codes /\ todo[c] \in Qtys
  /\ first \in Amounts
  /\ late \in SUBSET Codes

\* The codes of skipped or deferred rows.
RowCodes(rows) == {r[1] : r \in rows}

\* Every code sold for the signal has its resolved target in e.
Marked(e, l) == route = "auto" =>
  \A c \in Codes \ l : Sold(c, "SELL") # <<>> => e.frozen[c] # None

\* A BUY state that is worked on, done or kept during a detour.
SoundBuy(e, f, l) ==
  /\ e.day = day /\ e.phase # "SELL" /\ e.resume = None
  /\ Marked(e, l)
  /\ RowCodes(e.defer) \subseteq l
  /\ e.qty = f

\* A SELL state: the first one of a signal, when nothing was bought, or a detour,
\* which keeps the BUY it interrupted and sells deferred codes only.
SoundSell(e, f, l) ==
  /\ e.day = day /\ e.phase = "SELL"
  /\ Marked(e, l)
  /\ IF e.resume = None
     THEN f = Nothing /\ \A c \in Codes : Sold(c, "BUY") = <<>>
     ELSE /\ SoundBuy(e.resume, f, l) /\ e.resume.phase = "BUY"
          /\ e.scope \subseteq l

Sound(e, f, l) == SoundBuy(e, f, l) \/ SoundSell(e, f, l)

\* What the manifest of a tick goes for.
Aims(e, targets, f, l) ==
  \A c \in DOMAIN targets :
    /\ c \in Codes /\ targets[c] \in Qtys /\ targets[c] # shares[c]
    /\ e.phase = "BUY" => /\ f[c] # None /\ targets[c] <= f[c]
                          /\ route = "auto" => e.frozen[c] = None
    /\ e.phase = "SELL" => /\ e.resume # None => c \in l
                           /\ route = "auto" /\ targets[c] < shares[c] => e.frozen[c] # None

\* Only the pending order is open, and what it may still fill is in bounds.
OpenOrders ==
  /\ \A c \in Codes : \A ph \in Phases :
       Sold(c, ph) # <<>> /\ Last(Sold(c, ph)).st = "open" => pending = <<c, ph>>
  /\ \A c \in Codes : \A ph \in Phases : pending = <<c, ph>> =>
       /\ Sold(c, ph) # <<>>
       /\ LET o == Last(Sold(c, ph)) IN
            /\ o.side = "BUY" => /\ shares[c] + o.qty \in Qtys
                                 /\ ph = "BUY" => first[c] # None /\ shares[c] + o.qty <= first[c]
            /\ o.side = "SELL" => shares[c] - o.qty \in Qtys

\* Inductive.  The stored state of the present signal is sound; one of an older
\* signal leaves no trace but its resolved SELL targets.
Inv ==
  /\ Typed
  /\ exec.day <= day
  /\ route = "whole" => exec.resume = None
  /\ exec.day = day => Sound(exec, first, late)
  /\ exec.day # day => /\ first = Nothing /\ todo = <<>>
                       /\ \A c \in Codes : \A ph \in Phases : Sold(c, ph) = <<>>
  /\ todo # <<>> => exec.phase \in Phases /\ Aims(exec, todo, first, late)
  /\ pending # None => todo = <<>>
  /\ OpenOrders
  /\ NoReversal

-----------------------------------------------------------------------------
\* 1. What a phase resolves.

\* None is no quantity, no state, no row set and no order.
LEMMA NoneIs ==
  /\ None \notin Qtys /\ None \notin State /\ None \notin Plain
  /\ \A c \in Codes : \A ph \in Phases : <<c, ph>> # None
  /\ Plain \subseteq State
  /\ \A rows \in SUBSET Rows : rows # None
<1>1. Plain \subseteq State
  BY DEF Plain, State
<1> QED BY <1>1, ConstantsAssumption

\* A snapshot says of every code what is wanted of it, if it has a quote, and what
\* the cash reaches.
LEMMA SnapshotIs ==
  ASSUME Typed, NEW sn \in Snapshots
  PROVE  sn.want \in [Codes -> Qtys \cup {None}] /\ sn.cash \in [Codes -> Qtys]
<1>1. PICK w \in Wants : sn \in [want : {w}, cash : Reach(w),
          cool : SUBSET {c \in Codes : \E ph \in Phases : Failed(c, ph)}]
  BY DEF Snapshots
<1>2. sn.want = w /\ sn.cash \in Reach(w)
  BY <1>1
<1> QED BY <1>2 DEF Wants, Reach

\* A phase that begins has resolved nothing.
LEMMA FreshIs ==
  ASSUME Typed, NEW ph \in Phases
  PROVE  /\ Fresh(ph) \in Plain /\ Nothing \in Amounts
         /\ Fresh(ph).day = day /\ Fresh(ph).phase = ph /\ Fresh(ph).qty = Nothing
         /\ Fresh(ph).resume = None /\ Fresh(ph).frozen = Nothing
<1>1. Nothing \in Amounts
  BY DEF Nothing, Amounts
<1>2. Fresh(ph) \in Plain
  BY <1>1 DEF Fresh, Plain, Typed
<1> QED BY <1>1, <1>2 DEF Fresh

\* The second amounts cover the first.
LEMMA OverlayIs ==
  ASSUME NEW f \in Amounts, NEW g \in Amounts
  PROVE  /\ Overlay(f, g) \in Amounts
         /\ \A c \in Codes : Overlay(f, g)[c] = IF g[c] # None THEN g[c] ELSE f[c]
BY DEF Overlay, Amounts

\* No resolved SELL target is lost on the way into a phase.
LEMMA FrozenIs ==
  ASSUME NEW ex \in State, NEW given \in Plain \cup {None}
  PROVE  /\ Frozen(ex, given) \in Amounts
         /\ route = "auto" => \A c \in Codes : ex.frozen[c] # None => Frozen(ex, given)[c] # None
<1>1. ex.frozen \in Amounts /\ Nothing \in Amounts
  BY DEF State, Nothing, Amounts
<1>2. CASE given = None
  BY <1>1, <1>2 DEF Frozen
<1>3. CASE given # None
  <2>1. given.frozen \in Amounts
    BY <1>3 DEF Plain
  <2> QED BY <1>1, <1>3, <2>1, OverlayIs DEF Frozen
<1> QED BY <1>2, <1>3

\* What a phase starts with is well formed.
Ground(b) ==
  /\ b.prev \in State /\ b.frozen \in Amounts /\ b.qty \in Amounts
  /\ b.resume \in Plain \cup {None} /\ b.scope \in SUBSET Codes /\ b.codes \in SUBSET Codes

\* A phase goes on from its stored state or from a fresh one; a detour takes the
\* interrupted BUY with it and the codes whose SELL was deferred.
LEMMA BasisIs ==
  ASSUME Typed, NEW ex \in State, NEW ph \in Phases, NEW given \in Plain \cup {None}
  PROVE  LET b == Basis(ex, ph, given) IN
         /\ Ground(b)
         /\ b.prev = IF ex.day = day /\ ex.phase = ph THEN ex ELSE Fresh(ph)
         /\ b.frozen = Frozen(ex, given)
         /\ ph = "BUY" => b.resume = None /\ b.qty = b.prev.qty
         /\ ph = "SELL" => /\ b.resume = IF given # None THEN given ELSE b.prev.resume
                           /\ b.codes \subseteq b.scope
         /\ ph = "SELL" /\ given # None => b.scope = RowCodes(given.defer)
         /\ ph = "SELL" /\ given = None => b.scope = b.prev.scope
<1> DEFINE b == Basis(ex, ph, given)
           prev == IF ex.day = day /\ ex.phase = ph THEN ex ELSE Fresh(ph)
<1>1. prev \in State
  BY FreshIs, NoneIs
<1>2. prev.qty \in Amounts /\ prev.scope \in SUBSET Codes /\ prev.resume \in Plain \cup {None}
  <2> HIDE DEF prev
  <2> QED BY <1>1 DEF State
<1>3. Frozen(ex, given) \in Amounts
  BY FrozenIs
<1>4. given # None => given.defer \in SUBSET Rows
  BY DEF Plain
<1>5. given # None => RowCodes(given.defer) \in SUBSET Codes
  BY <1>4 DEF RowCodes, Rows
<1>6. weighted \in SUBSET Codes
  BY DEF Typed
<1>7. /\ b.prev = prev /\ b.frozen = Frozen(ex, given)
      /\ b.resume = IF ph = "BUY" THEN None ELSE IF given # None THEN given ELSE prev.resume
      /\ b.scope = IF ph = "BUY" THEN Codes
                   ELSE IF given # None THEN RowCodes(given.defer) ELSE prev.scope
      /\ b.qty = IF route = "auto" /\ ph = "SELL" THEN Overlay(prev.qty, Frozen(ex, given)) ELSE prev.qty
      /\ b.codes = IF ph = "BUY" THEN weighted
                   ELSE {c \in (IF given # None THEN RowCodes(given.defer) ELSE prev.scope) : shares[c] > 0}
  <2> HIDE DEF prev
  <2> QED BY DEF Basis, RowCodes, prev
<1> HIDE DEF b, prev
<1>8. b.qty \in Amounts
  BY <1>2, <1>3, <1>7, OverlayIs
<1>9. b.codes \in SUBSET Codes /\ b.scope \in SUBSET Codes
  BY <1>2, <1>5, <1>6, <1>7
<1>10. Ground(b)
  BY <1>1, <1>2, <1>3, <1>7, <1>8, <1>9 DEF Ground
<1>11. ph = "SELL" => b.codes \subseteq b.scope
  BY <1>7
<1> QED BY <1>7, <1>10, <1>11 DEF b, prev, Phases

\* An open code is one of the phase, has a quote and, in a BUY, no resolved SELL
\* target.
LEMMA StandingIs ==
  ASSUME Typed, NEW b, Ground(b), NEW ph \in Phases, NEW sn, NEW again \in SUBSET b.codes
  PROVE  LET at == Standing(b, ph, sn, again) IN
         /\ at.waiting \in SUBSET Codes /\ at.unquoted \in SUBSET Codes
         /\ at.behind \in SUBSET Codes /\ at.retry \in SUBSET Codes /\ at.fin \in SUBSET Codes
         /\ at.open \in SUBSET b.codes
         /\ \A c \in at.open : sn.want[c] # None /\ (ph = "BUY" => b.frozen[c] = None)
<1> DEFINE at == Standing(b, ph, sn, again)
<1>1. b.codes \in SUBSET Codes
  BY DEF Ground
<1>2. /\ at.waiting \subseteq b.codes /\ at.unquoted \subseteq b.codes /\ at.behind \subseteq b.codes
      /\ at.retry \subseteq b.codes /\ at.fin \subseteq b.codes /\ at.open \subseteq b.codes
  BY DEF Standing
<1>3. \A c \in at.open : sn.want[c] # None
  BY DEF Standing
<1>4. \A c \in at.open : ph = "BUY" => b.frozen[c] = None
  BY DEF Standing, Reduced
<1> HIDE DEF at
<1>5. at.open \subseteq Codes
  BY <1>1, <1>2
<1> QED BY <1>1, <1>2, <1>3, <1>4 DEF at

\* A retry never goes for more than the quantity resolved first.
LEMMA RetargetIs ==
  ASSUME Typed, NEW c \in Codes, NEW q \in Qtys, NEW sn \in Snapshots, sn.want[c] # None
  PROVE  Retarget(c, q, sn) \in Qtys
         /\ (Retarget(c, q, sn) # shares[c] => Retarget(c, q, sn) <= q)
<1>1. sn.want[c] \in Qtys /\ sn.cash[c] \in Qtys /\ shares[c] \in Qtys
  BY SnapshotIs DEF Typed
<1> QED BY <1>1, ConstantsAssumption DEF Retarget, Most, Least, Qtys

\* What the state, the targets and the skipped rows of a phase are.
Decides(r, b, ph, open) ==
  /\ r.state \in State /\ r.state.day = day /\ r.state.phase = ph
  /\ r.state.scope = b.scope /\ r.state.resume = b.resume
  /\ r.skipped \in SUBSET Rows
  /\ \A c \in Codes : b.qty[c] # None => r.state.qty[c] = b.qty[c]
  /\ \A c \in Codes : route = "auto" /\ b.frozen[c] # None => r.state.frozen[c] # None
  /\ ph = "BUY" => r.state.frozen = b.frozen
  /\ \A c \in DOMAIN r.targets :
       /\ c \in open /\ r.targets[c] \in Qtys /\ r.targets[c] # shares[c]
       /\ ph = "BUY" => r.state.qty[c] # None /\ r.targets[c] <= r.state.qty[c]
       /\ ph = "SELL" /\ route = "auto" /\ r.targets[c] < shares[c] =>
            r.state.frozen[c] # None

\* What was resolved stays, and every target of the manifest is an open code's.
LEMMA OutcomeIs ==
  ASSUME Typed, NEW b, Ground(b), NEW ph \in Phases, NEW sn \in Snapshots,
         NEW rows \in SUBSET Rows, NEW at,
         at.waiting \in SUBSET Codes, at.unquoted \in SUBSET Codes,
         at.behind \in SUBSET Codes, at.retry \in SUBSET Codes, at.fin \in SUBSET Codes,
         at.open \in SUBSET b.codes, \A c \in at.open : sn.want[c] # None
  PROVE  Decides(Outcome(b, ph, sn, rows, at), b, ph, at.open)
<1> DEFINE fixed  == [c \in Codes |->
                  IF c \notin at.open \/ b.qty[c] # None THEN b.qty[c]
                  ELSE IF ph = "SELL" THEN Least(sn.want[c], shares[c])
                  ELSE Most(shares[c], Least(sn.want[c], shares[c] + sn.cash[c]))]
           target == [c \in at.open |->
                  IF ph = "BUY" /\ c \in at.retry THEN Retarget(c, fixed[c], sn) ELSE fixed[c]]
           go     == {c \in at.open : target[c] # shares[c]}
           short  == b.prev.short \cup
                {c \in at.open : ph = "BUY" /\ b.qty[c] = None /\ sn.want[c] > fixed[c]}
           put    == {<<c, "wait">> : c \in {x \in at.behind : \A r \in rows : r[1] # x}}
           done   == (b.prev.done \ (at.waiting \cup at.retry)) \cup at.fin \cup (at.open \ go)
           marked == IF route # "auto" \/ ph = "BUY" THEN b.frozen
                     ELSE Overlay(b.frozen, [c \in Codes |->
                            IF c \in at.open /\ target[c] < shares[c] THEN target[c] ELSE None])
           skipped == rows \cup {<<c, "cash">> : c \in short}
                  \cup {<<c, "wait">> : c \in at.waiting \cup at.unquoted}
                  \cup {<<c, "tried">> : c \in {x \in at.fin : Failed(x, ph)}}
           r == Outcome(b, ph, sn, rows, at)
<1>1. /\ r.state = [day |-> day, phase |-> ph, status |-> "", qty |-> fixed, done |-> done,
                    defer |-> rows \cup put, short |-> short, frozen |-> marked,
                    scope |-> b.scope, resume |-> b.resume]
      /\ r.targets = [c \in go |-> target[c]]
      /\ r.skipped = skipped
  BY DEF Outcome
<1> DEFINE e == r.state
<1>1a. e = [day |-> day, phase |-> ph, status |-> "", qty |-> fixed, done |-> done,
            defer |-> rows \cup put, short |-> short, frozen |-> marked,
            scope |-> b.scope, resume |-> b.resume]
  BY <1>1
<1>1b. r.targets = [c \in go |-> target[c]] /\ r.skipped = skipped
  BY <1>1
<1> HIDE DEF r, e
<1>1c. /\ e.day = day /\ e.phase = ph /\ e.qty = fixed /\ e.frozen = marked
       /\ e.scope = b.scope /\ e.resume = b.resume
  <2> HIDE DEF fixed, target, go, short, put, done, marked, skipped
  <2> QED BY <1>1a
<1>2. at.open \in SUBSET Codes /\ b.qty \in Amounts /\ b.frozen \in Amounts
  BY DEF Ground
<1>3. ASSUME NEW c \in Codes PROVE fixed[c] \in Qtys \cup {None} /\ (c \in at.open => fixed[c] \in Qtys)
  <2>1. b.qty[c] \in Qtys \cup {None}
    BY <1>2 DEF Amounts
  <2>2. c \in at.open => sn.want[c] \in Qtys /\ sn.cash[c] \in Qtys /\ shares[c] \in Qtys
    BY SnapshotIs DEF Typed
  <2>3. c \in at.open => /\ Least(sn.want[c], shares[c]) \in Qtys
                         /\ Most(shares[c], Least(sn.want[c], shares[c] + sn.cash[c])) \in Qtys
    BY <2>2, ConstantsAssumption DEF Most, Least, Qtys
  <2> QED BY <2>1, <2>3
<1>4. \A c \in Codes : b.qty[c] # None => fixed[c] = b.qty[c]
  OBVIOUS
<1>5. fixed \in Amounts
  BY <1>3 DEF Amounts
<1> HIDE DEF fixed
<1>6. ASSUME NEW c \in at.open
      PROVE  target[c] \in Qtys /\ fixed[c] \in Qtys
             /\ (target[c] # shares[c] => target[c] <= fixed[c])
  <2>1. c \in Codes /\ fixed[c] \in Qtys /\ sn.want[c] # None
    BY <1>2, <1>3
  <2>2. fixed[c] <= fixed[c]
    BY <2>1, ConstantsAssumption DEF Qtys
  <2> QED BY <2>1, <2>2, RetargetIs
<1> HIDE DEF target
<1>7. go \subseteq at.open
  OBVIOUS
<1>8. done \in SUBSET Codes /\ short \in SUBSET Codes /\ rows \cup put \in SUBSET Rows
  <2>1. b.prev.done \in SUBSET Codes /\ b.prev.short \in SUBSET Codes
    BY DEF Ground, State
  <2>2. put \in SUBSET Rows
    BY DEF Rows
  <2> HIDE DEF put
  <2> QED BY <1>2, <2>1, <2>2
<1>9. skipped \in SUBSET Rows
  <2>1. /\ {<<c, "cash">> : c \in short} \subseteq Rows
        /\ {<<c, "wait">> : c \in at.waiting \cup at.unquoted} \subseteq Rows
        /\ {<<c, "tried">> : c \in {x \in at.fin : Failed(x, ph)}} \subseteq Rows
    BY <1>8 DEF Rows
  <2> QED BY <2>1
<1>10. /\ marked \in Amounts
       /\ \A c \in Codes : route = "auto" /\ b.frozen[c] # None => marked[c] # None
       /\ ph = "BUY" => marked = b.frozen
       /\ \A c \in at.open : ph = "SELL" /\ route = "auto" /\ target[c] < shares[c] => marked[c] # None
  <2> DEFINE g == [c \in Codes |-> IF c \in at.open /\ target[c] < shares[c] THEN target[c] ELSE None]
  <2>1. g \in Amounts
    BY <1>6 DEF Amounts
  <2>2. \A c \in Codes : g[c] # None => g[c] = target[c] /\ c \in at.open
    OBVIOUS
  <2>3. \A c \in at.open : target[c] < shares[c] => g[c] = target[c] /\ g[c] # None
    BY <1>2, <1>6, NoneIs
  <2> HIDE DEF g
  <2>4. /\ Overlay(b.frozen, g) \in Amounts
        /\ \A c \in Codes : Overlay(b.frozen, g)[c] = IF g[c] # None THEN g[c] ELSE b.frozen[c]
    BY <1>2, <2>1, OverlayIs
  <2>5. marked = IF route # "auto" \/ ph = "BUY" THEN b.frozen ELSE Overlay(b.frozen, g)
    BY DEF g
  <2> HIDE DEF marked
  <2> QED BY <1>2, <2>3, <2>4, <2>5 DEF Phases
<1> HIDE DEF go, short, put, done, marked, skipped
<1>11. e \in State
  <2>1. day \in Nat /\ ph \in Phases /\ b.scope \in SUBSET Codes /\ b.resume \in Plain \cup {None}
    BY DEF Typed, Ground
  <2> QED BY <1>1a, <1>5, <1>8, <1>10, <2>1 DEF State
<1>12. ASSUME NEW c \in DOMAIN r.targets
       PROVE  /\ c \in at.open /\ r.targets[c] \in Qtys /\ r.targets[c] # shares[c]
              /\ ph = "BUY" => e.qty[c] # None /\ r.targets[c] <= e.qty[c]
              /\ ph = "SELL" /\ route = "auto" /\ r.targets[c] < shares[c] =>
                   e.frozen[c] # None
  <2>1. c \in go /\ r.targets[c] = target[c]
    BY <1>1b, <1>12
  <2>2. c \in at.open /\ target[c] # shares[c]
    BY <2>1 DEF go
  <2>3. target[c] \in Qtys /\ fixed[c] \in Qtys /\ target[c] <= fixed[c]
    BY <1>6, <2>2
  <2> QED BY <1>1c, <1>10, <2>1, <2>2, <2>3, NoneIs
<1> QED BY <1>1b, <1>1c, <1>4, <1>9, <1>10, <1>11, <1>12 DEF Decides, e, r

\* first and late after a write.
Bought(e) == IF e.phase = "SELL" THEN first ELSE Overlay(e.qty, first)
Waited(e) == IF e.phase = "SELL" THEN late ELSE late \cup RowCodes(e.defer)
\* A sound state of the present signal.
Written(e) == e \in State /\ e.day = day /\ Sound(e, Bought(e), Waited(e))

\* The three steps together.
LEMMA ResolvedIs ==
  ASSUME Typed, NEW ex \in State, NEW ph \in Phases, NEW sn \in Snapshots,
         NEW given \in Plain \cup {None}, NEW defer \in (SUBSET Rows) \cup {None}
  PROVE  LET r == Resolved(ex, ph, sn, given, defer)
             b == Basis(ex, ph, given)
         IN
         /\ r.state \in State /\ r.state.day = day /\ r.state.phase = ph
         /\ r.state.scope = b.scope /\ r.state.resume = b.resume
         /\ r.skipped \in SUBSET Rows
         /\ \A c \in Codes : b.qty[c] # None => r.state.qty[c] = b.qty[c]
         /\ \A c \in Codes : route = "auto" /\ ex.frozen[c] # None => r.state.frozen[c] # None
         /\ \A c \in DOMAIN r.targets :
              /\ c \in b.codes /\ r.targets[c] \in Qtys /\ r.targets[c] # shares[c]
              /\ ph = "BUY" => /\ r.state.qty[c] # None /\ r.targets[c] <= r.state.qty[c]
                               /\ r.state.frozen[c] = None
              /\ ph = "SELL" /\ route = "auto" /\ r.targets[c] < shares[c] =>
                   r.state.frozen[c] # None
<1> DEFINE b == Basis(ex, ph, given)
           rows == IF defer # None THEN defer ELSE b.prev.defer
           again == Again(b, ph)
           at == Standing(b, ph, sn, again)
           r == Outcome(b, ph, sn, rows, at)
<1>1. Resolved(ex, ph, sn, given, defer) = r
  BY DEF Resolved
<1>2. Ground(b) /\ b.frozen = Frozen(ex, given)
  BY BasisIs
<1>3. again \in SUBSET b.codes
  <2> HIDE DEF b
  <2> QED BY DEF Again
<1> HIDE DEF b, again
<1>4. rows \in SUBSET Rows
  BY <1>2 DEF Ground, State
<1>5. /\ at.waiting \in SUBSET Codes /\ at.unquoted \in SUBSET Codes
      /\ at.behind \in SUBSET Codes /\ at.retry \in SUBSET Codes /\ at.fin \in SUBSET Codes
      /\ at.open \in SUBSET b.codes
      /\ \A c \in at.open : sn.want[c] # None /\ (ph = "BUY" => b.frozen[c] = None)
  BY <1>2, <1>3, StandingIs
<1>5a. \A c \in at.open : sn.want[c] # None
  BY <1>5
<1> HIDE DEF at, rows
<1>6. Decides(r, b, ph, at.open)
  BY <1>2, <1>4, <1>5, <1>5a, OutcomeIs
<1> HIDE DEF r
<1>7. \A c \in Codes : route = "auto" /\ ex.frozen[c] # None => r.state.frozen[c] # None
  BY <1>2, <1>6, FrozenIs DEF Decides
<1> QED BY <1>1, <1>2, <1>5, <1>6, <1>7 DEF Decides, b

\* Amounts that already agree with what covers them stay.
LEMMA OverlaySame ==
  ASSUME NEW f \in Amounts, NEW g \in Amounts, \A c \in Codes : g[c] # None => f[c] = g[c]
  PROVE  Overlay(f, g) = f
<1>1. \A c \in Codes : Overlay(f, g)[c] = f[c]
  BY OverlayIs
<1>2. Overlay(f, g) \in Amounts
  BY OverlayIs
<1> QED BY <1>1, <1>2 DEF Amounts

\* What a BUY leaves.
LEMMA BuyWritten ==
  ASSUME Typed, NEW ex \in State, NEW sn \in Snapshots, NEW defer \in (SUBSET Rows) \cup {None},
         Marked(ex, late),
         first = IF ex.day = day /\ ex.phase = "BUY" THEN ex.qty ELSE Nothing
  PROVE  LET r == Resolved(ex, "BUY", sn, None, defer) IN
         /\ Written(r.state) /\ r.state.phase = "BUY" /\ r.state.resume = None
         /\ r.skipped \in SUBSET Rows
         /\ Aims(r.state, r.targets, Bought(r.state), Waited(r.state))
<1> DEFINE r == Resolved(ex, "BUY", sn, None, defer)
           b == Basis(ex, "BUY", None)
           e == r.state
<1>0. "BUY" \in Phases /\ None \in Plain \cup {None}
  BY DEF Phases
<1>1. /\ b.prev = (IF ex.day = day /\ ex.phase = "BUY" THEN ex ELSE Fresh("BUY"))
      /\ b.resume = None /\ b.qty = b.prev.qty /\ Ground(b)
  BY <1>0, BasisIs
<1>2. b.qty = first
  BY <1>0, <1>1, FreshIs
<1>3. b.codes \in SUBSET Codes
  BY <1>1 DEF Ground
<1>4. /\ e \in State /\ e.day = day /\ e.phase = "BUY" /\ e.resume = b.resume
      /\ r.skipped \in SUBSET Rows
      /\ \A c \in Codes : b.qty[c] # None => e.qty[c] = b.qty[c]
      /\ \A c \in Codes : route = "auto" /\ ex.frozen[c] # None => e.frozen[c] # None
      /\ \A c \in DOMAIN r.targets :
           /\ c \in b.codes /\ r.targets[c] \in Qtys /\ r.targets[c] # shares[c]
           /\ e.qty[c] # None /\ r.targets[c] <= e.qty[c]
           /\ e.frozen[c] = None
  BY <1>0, ResolvedIs
<1> HIDE DEF r, b
<1>4a. \A c \in DOMAIN r.targets :
           /\ c \in b.codes /\ r.targets[c] \in Qtys /\ r.targets[c] # shares[c]
           /\ e.qty[c] # None /\ r.targets[c] <= e.qty[c]
           /\ e.frozen[c] = None
  BY <1>4
<1>4b. r.skipped \in SUBSET Rows
  BY <1>4
<1> HIDE DEF e
<1>5. e.qty \in Amounts /\ first \in Amounts
  BY <1>4 DEF State, Typed
<1>6. Bought(e) = e.qty
  BY <1>2, <1>4, <1>5, OverlaySame DEF Bought
<1>7. Marked(e, late) /\ Marked(e, Waited(e))
  BY <1>4 DEF Marked, Waited
<1>8. RowCodes(e.defer) \subseteq Waited(e)
  BY <1>4 DEF Waited
<1>9. SoundBuy(e, Bought(e), Waited(e))
  BY <1>1, <1>4, <1>6, <1>7, <1>8 DEF SoundBuy
<1>10. Written(e)
  BY <1>4, <1>9 DEF Written, Sound
<1>11. Aims(e, r.targets, Bought(e), Waited(e))
  BY <1>3, <1>4, <1>4a, <1>6 DEF Aims
<1> QED BY <1>1, <1>4, <1>4b, <1>10, <1>11 DEF e, r

\* With which BUY state a SELL is resolved.
Sells(given) ==
  \/ given = None /\ exec.day = day /\ exec.phase = "SELL" /\ SoundSell(exec, first, late)
  \/ given = None /\ exec.day # day /\ first = Nothing
     /\ \A c \in Codes : \A ph \in Phases : Sold(c, ph) = <<>>
  \/ given = exec /\ exec.phase = "BUY" /\ SoundBuy(exec, first, late)

\* What a SELL leaves.
LEMMA SellWritten ==
  ASSUME Typed, NEW sn \in Snapshots, NEW given \in Plain \cup {None}, Sells(given)
  PROVE  LET r == Resolved(exec, "SELL", sn, given, None) IN
         /\ r.state \in State /\ r.state.day = day /\ r.state.phase = "SELL"
         /\ SoundSell(r.state, first, late)
         /\ r.skipped \in SUBSET Rows
         /\ Aims(r.state, r.targets, first, late)
<1> DEFINE r == Resolved(exec, "SELL", sn, given, None)
           b == Basis(exec, "SELL", given)
           e == r.state
<1>0. "SELL" \in Phases /\ None \in (SUBSET Rows) \cup {None} /\ exec \in State
  BY DEF Phases, Typed
<1>1. /\ b.prev = (IF exec.day = day /\ exec.phase = "SELL" THEN exec ELSE Fresh("SELL"))
      /\ b.resume = (IF given # None THEN given ELSE b.prev.resume) /\ Ground(b)
      /\ b.codes \subseteq b.scope
      /\ given # None => b.scope = RowCodes(given.defer)
      /\ given = None => b.scope = b.prev.scope
  BY <1>0, BasisIs
<1>2. b.codes \in SUBSET Codes
  BY <1>1 DEF Ground
<1>3. /\ e \in State /\ e.day = day /\ e.phase = "SELL" /\ e.resume = b.resume
      /\ e.scope = b.scope
      /\ r.skipped \in SUBSET Rows
      /\ \A c \in Codes : route = "auto" /\ exec.frozen[c] # None => e.frozen[c] # None
      /\ \A c \in DOMAIN r.targets :
           /\ c \in b.codes /\ r.targets[c] \in Qtys /\ r.targets[c] # shares[c]
           /\ route = "auto" /\ r.targets[c] < shares[c] => e.frozen[c] # None
  BY <1>0, ResolvedIs
<1>3a. \A c \in DOMAIN r.targets :
           /\ c \in b.codes /\ r.targets[c] \in Qtys /\ r.targets[c] # shares[c]
           /\ route = "auto" /\ r.targets[c] < shares[c] => e.frozen[c] # None
  BY <1>3
<1>3b. r.skipped \in SUBSET Rows
  BY <1>3
<1> HIDE DEF r, b, e
<1>4. Marked(exec, late)
  <2>1. CASE SoundSell(exec, first, late)
    BY <2>1 DEF SoundSell
  <2>2. CASE SoundBuy(exec, first, late)
    BY <2>2 DEF SoundBuy
  <2>3. CASE \A c \in Codes : \A ph \in Phases : Sold(c, ph) = <<>>
    BY <2>3, <1>0 DEF Marked
  <2> QED BY <2>1, <2>2, <2>3 DEF Sells
<1>5. Marked(e, late)
  BY <1>3, <1>4 DEF Marked
<1>6. IF e.resume = None
      THEN first = Nothing /\ \A c \in Codes : Sold(c, "BUY") = <<>>
      ELSE /\ SoundBuy(e.resume, first, late) /\ e.resume.phase = "BUY"
           /\ e.scope \subseteq late
  <2>1. CASE given = None /\ exec.day = day /\ exec.phase = "SELL" /\ SoundSell(exec, first, late)
    <3>1. e.resume = exec.resume /\ e.scope = exec.scope
      BY <2>1, <1>1, <1>3
    <3> QED BY <2>1, <3>1 DEF SoundSell
  <2>2. CASE given = None /\ exec.day # day /\ first = Nothing
             /\ \A c \in Codes : \A ph \in Phases : Sold(c, ph) = <<>>
    <3>1. e.resume = None
      BY <2>2, <1>0, <1>1, <1>3, FreshIs
    <3> QED BY <2>2, <3>1 DEF Phases
  <2>3. CASE given = exec /\ exec.phase = "BUY" /\ SoundBuy(exec, first, late)
    <3>1. exec # None
      BY <1>0, NoneIs
    <3>2. e.resume = exec /\ e.scope = RowCodes(exec.defer)
      BY <2>3, <3>1, <1>1, <1>3
    <3> QED BY <2>3, <3>1, <3>2 DEF SoundBuy
  <2> QED BY <2>1, <2>2, <2>3 DEF Sells
<1>7. SoundSell(e, first, late)
  BY <1>3, <1>5, <1>6 DEF SoundSell
<1>8. \A c \in DOMAIN r.targets : e.resume # None => c \in late
  BY <1>1, <1>3, <1>3a, <1>6
<1>9. Aims(e, r.targets, first, late)
  BY <1>2, <1>3, <1>3a, <1>8 DEF Aims
<1> QED BY <1>3, <1>3b, <1>7, <1>9 DEF r, e

-----------------------------------------------------------------------------
\* 2. What a tick writes.

\* The states a tick may write.
Writable == {e \in State : Written(e)}

\* What a tick writes, and the manifest it works on.
Good(t) ==
  /\ t.writes \in Seq(Writable) /\ Len(t.writes) > 0
  /\ \/ t.targets = <<>>
     \/ LET e == t.writes[Len(t.writes)] IN
          e.phase \in Phases /\ Aims(e, t.targets, Bought(e), Waited(e))

\* Marking a BUY as done is sound.
LEMMA DoneIs ==
  ASSUME NEW e \in Writable, e.phase = "BUY", NEW st \in {"EXECUTED", "PARTIALLY_EXECUTED"}
  PROVE  [e EXCEPT !.phase = "DONE", !.status = st] \in Writable
<1> DEFINE d == [e EXCEPT !.phase = "DONE", !.status = st]
<1>0. e \in State /\ Written(e)
  BY DEF Writable
<1>1. d \in State
  BY <1>0 DEF State
<1>2. /\ d.day = e.day /\ d.phase = "DONE" /\ d.qty = e.qty /\ d.defer = e.defer
      /\ d.frozen = e.frozen /\ d.resume = e.resume
  BY <1>0 DEF State
<1> HIDE DEF d
<1>3. SoundBuy(e, Bought(e), Waited(e)) /\ e.day = day
  BY <1>0 DEF Written, Sound, SoundSell
<1>4. Bought(d) = Bought(e) /\ Waited(d) = Waited(e)
  BY <1>2 DEF Bought, Waited
<1>5. Marked(d, Waited(d))
  BY <1>2, <1>3, <1>4 DEF SoundBuy, Marked
<1>6. SoundBuy(d, Bought(d), Waited(d))
  BY <1>2, <1>3, <1>4, <1>5 DEF SoundBuy
<1>7. Written(d)
  BY <1>1, <1>2, <1>3, <1>6 DEF Written, Sound
<1> QED BY <1>1, <1>7 DEF Writable, d

\* A tick that ends with a sound state writes it, and DONE after it or nothing.
LEMMA EndingIs ==
  ASSUME NEW end, Written(end.state), end.state.phase \in Phases,
         Aims(end.state, end.targets, Bought(end.state), Waited(end.state))
  PROVE  Good(Ending(end))
<1> DEFINE e == end.state
           d == [e EXCEPT !.phase = "DONE", !.status = IF end.skipped = {} THEN "EXECUTED" ELSE "PARTIALLY_EXECUTED"]
           t == Ending(end)
<1>1. e \in Writable
  BY DEF Writable, Written
<1>2. CASE end.targets = <<>> /\ e.phase = "BUY" /\ Unresolved(end) = {}
  <2>1. t.writes = <<e>> \o <<d>> /\ t.targets = <<>>
    BY <1>2 DEF Ending
  <2>2. d \in Writable
    BY <1>1, <1>2, DoneIs
  <2> HIDE DEF e, d, t
  <2>3. t.writes \in Seq(Writable) /\ Len(t.writes) = 2
    BY <1>1, <2>1, <2>2
  <2> QED BY <2>1, <2>3 DEF Good, t
<1>3. CASE ~(end.targets = <<>> /\ e.phase = "BUY" /\ Unresolved(end) = {})
  <2>1. t.writes = <<e>> \o <<>> /\ t.targets = end.targets
    BY <1>3 DEF Ending
  <2>2. e.phase \in Phases /\ Aims(e, end.targets, Bought(e), Waited(e))
    OBVIOUS
  <2> HIDE DEF e, t
  <2>3. t.writes \in Seq(Writable) /\ Len(t.writes) = 1 /\ t.writes[1] = e
    BY <1>1, <2>1
  <2> QED BY <2>1, <2>2, <2>3 DEF Good, t
<1> QED BY <1>2, <1>3

\* A tick that goes on from SELL to BUY writes the SELL and the restored BUY first.
LEMMA FollowingIs ==
  ASSUME NEW one, one.state \in Writable, NEW back \in Writable, NEW rest,
         rest = [writes |-> rest.writes, targets |-> rest.targets], Good(rest)
  PROVE  Good(Following(one, back, rest))
<1> DEFINE t == Following(one, back, rest)
           head == <<one.state>> \o (IF back = one.state THEN <<>> ELSE <<back>>)
<1>1. t.writes = head \o rest.writes /\ t.targets = rest.targets
  <2> HIDE DEF head
  <2>1. t = [rest EXCEPT !.writes = head \o @]
    BY DEF Following, head
  <2> HIDE DEF t
  <2> QED BY <2>1
<1>2. head \in Seq(Writable) /\ Len(head) \in 1..2
  OBVIOUS
<1> HIDE DEF head, t
<1>3. rest.writes \in Seq(Writable) /\ Len(rest.writes) > 0
  BY DEF Good
<1>4. /\ head \o rest.writes \in Seq(Writable)
      /\ Len(head \o rest.writes) = Len(head) + Len(rest.writes)
      /\ (head \o rest.writes)[Len(head) + Len(rest.writes)] = rest.writes[Len(rest.writes)]
  BY <1>2, <1>3
<1>5. t.writes \in Seq(Writable) /\ Len(t.writes) > 0
      /\ t.writes[Len(t.writes)] = rest.writes[Len(rest.writes)]
  BY <1>1, <1>2, <1>3, <1>4
<1>6. Good(t)
  BY <1>1, <1>5 DEF Good
<1> QED BY <1>6 DEF t

\* Whatever the snapshot, each write of a tick is sound, and the manifest is that
\* of the last one.
LEMMA TurnIs ==
  ASSUME Inv, Ready, NEW sn \in Snapshots
  PROVE  Good(Turn(sn))
<1>0. /\ Typed /\ exec \in State /\ None \in Plain \cup {None} /\ None \in (SUBSET Rows) \cup {None}
      /\ "BUY" \in Phases /\ "SELL" \in Phases
  BY DEF Inv, Typed, Phases
<1>1. exec.day = day => exec.phase \in Phases
  BY <1>0 DEF Ready, State
<1>2. exec.day = day /\ exec.phase = "BUY" => SoundBuy(exec, first, late)
  BY DEF Inv, Sound, SoundSell
<1>3. exec.day = day /\ exec.phase = "SELL" => SoundSell(exec, first, late)
  BY DEF Inv, Sound, SoundBuy
<1>4. exec.day # day => first = Nothing /\ \A c \in Codes : \A ph \in Phases : Sold(c, ph) = <<>>
  BY DEF Inv
<1>5. CASE exec.day = day /\ exec.phase = "BUY" /\ exec.defer = {}
  <2> DEFINE one == Resolved(exec, "BUY", sn, None, None)
  <2>1. Turn(sn) = Continued(sn, one)
    BY <1>5 DEF Turn, Opening
  <2>2. /\ Written(one.state) /\ one.state.phase = "BUY"
        /\ Aims(one.state, one.targets, Bought(one.state), Waited(one.state))
    BY <1>0, <1>2, <1>5, BuyWritten DEF SoundBuy
  <2> HIDE DEF one
  <2>3. Continued(sn, one) = Ending(one)
    BY <2>2 DEF Continued
  <2> QED BY <1>0, <2>1, <2>2, <2>3, EndingIs
<1>6. CASE ~(exec.day = day /\ exec.phase = "BUY" /\ exec.defer = {})
  <2>1. PICK given \in Plain \cup {None} :
           /\ Opening(sn) = Resolved(exec, "SELL", sn, given, None)
           /\ Sells(given)
    <3>1. CASE exec.day = day /\ exec.phase = "BUY"
      <4>1. exec.resume = None
        BY <1>2, <3>1 DEF SoundBuy
      <4>2. exec \in Plain
        BY <1>0, <4>1 DEF State, Plain
      <4>3. Opening(sn) = Resolved(exec, "SELL", sn, exec, None)
        BY <1>6, <3>1 DEF Opening
      <4> QED BY <1>2, <3>1, <4>2, <4>3 DEF Sells
    <3>2. CASE exec.day = day /\ exec.phase = "SELL"
      <4>1. Opening(sn) = Resolved(exec, "SELL", sn, None, None)
        BY <3>2 DEF Opening
      <4> QED BY <1>3, <3>2, <4>1 DEF Sells
    <3>3. CASE exec.day # day
      <4>1. Opening(sn) = Resolved(exec, "SELL", sn, None, None)
        BY <3>3 DEF Opening
      <4> QED BY <1>4, <3>3, <4>1 DEF Sells
    <3> QED BY <1>1, <3>1, <3>2, <3>3 DEF Phases
  <2> DEFINE one == Opening(sn)
             e == one.state
  <2>2. /\ e \in State /\ e.day = day /\ e.phase = "SELL"
        /\ SoundSell(e, first, late)
        /\ one.skipped \in SUBSET Rows
        /\ Aims(e, one.targets, first, late)
    BY <1>0, <2>1, SellWritten
  <2> HIDE DEF one, e
  <2>3. Bought(e) = first /\ Waited(e) = late
    BY <2>2 DEF Bought, Waited
  <2>4. Written(e)
    BY <2>2, <2>3 DEF Written, Sound
  <2>4a. e \in Writable
    BY <2>2, <2>4 DEF Writable
  <2>5. CASE Continued(sn, one) = Ending(one)
    <3>1. Good(Ending(one))
      BY <1>0, <2>2, <2>3, <2>4, EndingIs DEF e
    <3> QED BY <3>1, <2>5 DEF Turn, one
  <2>6. CASE Continued(sn, one) # Ending(one)
    <3> DEFINE back == Restored(e)
               end == Resolved(back, "BUY", sn, None, Deferred(one))
    <3>1. Continued(sn, one) = Following(one, back, Ending(end))
      BY <2>6 DEF Continued, e
    <3>2. back \in State /\ Marked(back, late) /\ Written(back)
          /\ first = IF back.day = day /\ back.phase = "BUY" THEN back.qty ELSE Nothing
      <4>1. CASE e.resume = None
        <5>1. back = e
          BY <4>1 DEF Restored
        <5> QED BY <2>2, <2>4, <4>1, <5>1 DEF SoundSell
      <4>2. CASE e.resume # None
        <5>1. back = e.resume
          BY <4>2 DEF Restored
        <5>2. SoundBuy(back, first, late) /\ back.phase = "BUY"
          BY <2>2, <4>2, <5>1 DEF SoundSell
        <5>3. back \in State
          BY <2>2, <4>2, <5>1, NoneIs DEF State
        <5> HIDE DEF back
        <5>4. first \in Amounts /\ back.qty = first /\ back.day = day
          BY <1>0, <5>2 DEF Typed, SoundBuy
        <5>5. Bought(back) = first
          <6>1. Overlay(first, first) = first
            BY <5>4, OverlaySame
          <6> QED BY <5>2, <5>4, <6>1 DEF Bought
        <5>6. Marked(back, late) /\ Marked(back, Waited(back)) /\ RowCodes(back.defer) \subseteq Waited(back)
          BY <5>2 DEF SoundBuy, Marked, Waited
        <5>7. SoundBuy(back, Bought(back), Waited(back))
          BY <5>2, <5>4, <5>5, <5>6 DEF SoundBuy
        <5> QED BY <5>2, <5>3, <5>4, <5>6, <5>7 DEF Written, Sound
      <4> QED BY <4>1, <4>2
    <3>3. Deferred(one) \in (SUBSET Rows) \cup {None}
      BY <2>2 DEF Deferred
    <3> HIDE DEF back
    <3>4. /\ Written(end.state) /\ end.state.phase = "BUY"
          /\ Aims(end.state, end.targets, Bought(end.state), Waited(end.state))
      BY <1>0, <3>2, <3>3, BuyWritten
    <3>5. back \in Writable
      BY <3>2 DEF Writable
    <3> HIDE DEF end
    <3>6. Good(Ending(end))
      BY <1>0, <3>4, EndingIs
    <3>7. Ending(end) = [writes |-> Ending(end).writes, targets |-> Ending(end).targets]
      BY DEF Ending
    <3>8. Good(Following(one, back, Ending(end)))
      BY <2>4a, <3>5, <3>6, <3>7, FollowingIs DEF e
    <3> QED BY <3>1, <3>8 DEF Turn, one
  <2> QED BY <2>5, <2>6
<1> QED BY <1>5, <1>6

-----------------------------------------------------------------------------
\* 3. The invariant holds at the beginning and is kept by every step.

\* Nothing is resolved or sent at the beginning.
LEMMA InvInit == Init => Inv
<1> SUFFICES ASSUME Init PROVE Inv
  OBVIOUS
<1>1. /\ route \in Routes /\ day = 1 /\ weighted \in SUBSET Codes /\ shares \in Start
      /\ exec = NoExec /\ sent = [c \in Codes |-> [ph \in Phases |-> <<>>]]
      /\ pending = None /\ todo = <<>> /\ first = Nothing /\ late = {}
  BY DEF Init
<1>2. shares \in [Codes -> Qtys]
  BY <1>1, ConstantsAssumption
<1>3. \A c \in Codes : \A ph \in Phases : Sold(c, ph) = <<>>
  BY <1>1 DEF Sold
<1>4. Nothing \in Amounts
  BY DEF Nothing, Amounts
<1>5. exec \in State /\ exec.day = 0 /\ exec.resume = None
  <2> DEFINE g == [day |-> day, phase |-> "SELL", status |-> "", qty |-> Nothing,
              done |-> {}, defer |-> {}, short |-> {}, frozen |-> Nothing,
              scope |-> Codes, resume |-> None]
  <2>1. NoExec = [g EXCEPT !.day = 0]
    BY DEF NoExec, Fresh
  <2>2. g \in State /\ g.resume = None
    BY <1>1, <1>4 DEF State, Phases
  <2> HIDE DEF g
  <2>3. [g EXCEPT !.day = 0] \in State
    BY <2>2 DEF State
  <2>4. [g EXCEPT !.day = 0].day = 0 /\ [g EXCEPT !.day = 0].resume = None
    BY <2>2 DEF State
  <2> QED BY <1>1, <2>1, <2>3, <2>4
<1>6. sent \in [Codes -> [Phases -> Seq(Order)]]
  BY <1>1
<1>7. Typed
  BY <1>1, <1>2, <1>4, <1>5, <1>6 DEF Typed
<1>8. OpenOrders
  BY <1>1, <1>3, NoneIs DEF OpenOrders
<1>9. NoReversal
  BY <1>3 DEF NoReversal, Phases
<1> QED BY <1>1, <1>3, <1>5, <1>7, <1>8, <1>9 DEF Inv

\* A write of best_execution by a tick.
LEMMA StoredKeeps ==
  ASSUME Inv, NEW e \in State, Written(e), Stored(e),
         UNCHANGED <<route, day, weighted, shares, sent, pending>>,
         pending = None, route = "whole" => e.resume = None,
         \A c \in DOMAIN todo' : c \in Codes /\ todo'[c] \in Qtys,
         todo' # <<>> => e.phase \in Phases /\ Aims(e, todo', Bought(e), Waited(e))
  PROVE  Inv'
<1>1. /\ Typed /\ exec' = e /\ first' = Bought(e) /\ e.day = day
      /\ Sound(e, Bought(e), Waited(e))
  BY DEF Inv, Stored, Bought, Written
<1>2. late' = Waited(e)
  BY DEF Stored, Waited, RowCodes
<1>3. Bought(e) \in Amounts
  BY <1>1, OverlayIs DEF Bought, Typed, State
<1>4. Waited(e) \in SUBSET Codes /\ late \subseteq Waited(e)
  <2>1. RowCodes(e.defer) \subseteq Codes
    BY DEF State, Rows, RowCodes
  <2> QED BY <1>1, <2>1 DEF Waited, Typed
<1>5. Typed'
  BY <1>1, <1>2, <1>3, <1>4 DEF Typed
<1>6. Sound(exec, first, late)'
  BY <1>1, <1>2 DEF Sound, SoundBuy, SoundSell, Marked, Sold
<1>7. todo' # <<>> => exec'.phase \in Phases /\ Aims(exec, todo, first, late)'
  BY <1>1, <1>2 DEF Aims
<1>8. OpenOrders'
  <2>1. OpenOrders
    BY DEF Inv
  <2> QED BY <2>1, NoneIs DEF OpenOrders, Sold
<1>9. NoReversal'
  <2>1. NoReversal
    BY DEF Inv
  <2> QED BY <1>2, <1>4, <2>1 DEF NoReversal, Sold
<1>10. exec'.day = day' /\ exec'.day <= day' /\ (route' = "whole" => exec'.resume = None)
  BY <1>1 DEF Typed
<1>11. pending' = None
  OBVIOUS
<1> QED BY <1>5, <1>6, <1>7, <1>8, <1>9, <1>10, <1>11 DEF Inv

\* A tick of the partial or automatic route, to its end or to one of its writes.
LEMMA StepTick == Inv /\ Tick => Inv'
<1> SUFFICES ASSUME Inv, Tick PROVE Inv'
  OBVIOUS
<1>1. PICK t \in {Turn(sn) : sn \in Snapshots} : \E k \in DOMAIN t.writes :
       /\ Stored(t.writes[k])
       /\ todo' = IF k = Len(t.writes) THEN t.targets ELSE <<>>
  BY DEF Tick
<1>2. PICK k \in DOMAIN t.writes :
       /\ Stored(t.writes[k])
       /\ todo' = IF k = Len(t.writes) THEN t.targets ELSE <<>>
  BY <1>1
<1>3. Ready /\ route # "whole" /\ UNCHANGED <<route, day, weighted, shares, sent, pending>>
  BY DEF Tick
<1>4. Good(t)
  BY <1>3, TurnIs
<1>5. t.writes \in Seq(Writable) /\ Len(t.writes) > 0
  BY <1>4 DEF Good
<1> DEFINE e == t.writes[k]
<1>6. e \in Writable
  BY <1>5
<1>7. e \in State /\ Written(e)
  BY <1>6 DEF Writable
<1>8. todo' # <<>> => e.phase \in Phases /\ Aims(e, todo', Bought(e), Waited(e))
  BY <1>2, <1>4 DEF Good
<1>9. Stored(e)
  BY <1>2
<1> HIDE DEF e
<1>10. \A c \in DOMAIN todo' : c \in Codes /\ todo'[c] \in Qtys
  <2>1. CASE todo' = <<>>
    BY <2>1
  <2>2. CASE todo' # <<>>
    BY <1>8, <2>2 DEF Aims
  <2> QED BY <2>1, <2>2
<1>11. pending = None
  BY <1>3 DEF Ready
<1> QED BY <1>3, <1>7, <1>8, <1>9, <1>10, <1>11, StoredKeeps

\* The whole route fixes a phase.
LEMMA StepFixWhole == Inv /\ FixWhole => Inv'
<1> SUFFICES ASSUME Inv, FixWhole PROVE Inv'
  OBVIOUS
<1>1. /\ Ready /\ route = "whole" /\ Typed
      /\ exec.day = day => exec.phase = "SELL"
      /\ UNCHANGED <<route, day, weighted, shares, sent, pending, todo>>
  BY DEF FixWhole, Inv
<1>2. pending = None /\ todo = <<>> /\ todo' = <<>>
  BY <1>1 DEF Ready
<1> DEFINE ph == IF exec.day = day THEN "BUY" ELSE "SELL"
<1>3. PICK sn \in Snapshots : (\A c \in Concerned : sn.want[c] # None) /\ Stored(Whole(ph, sn))
  BY DEF FixWhole
<1>4. ph \in Phases
  BY DEF Phases
<1> DEFINE q == [c \in Codes |->
     IF c \notin Concerned THEN None
     ELSE IF ph = "SELL" THEN Least(sn.want[c], shares[c]) ELSE sn.want[c]]
           e == Whole(ph, sn)
<1>5. e = [Fresh(ph) EXCEPT !.qty = q]
  BY DEF Whole
<1>6. q \in Amounts
  <2>1. \A c \in Codes : shares[c] \in Qtys /\ sn.want[c] \in Qtys \cup {None}
    BY <1>1, SnapshotIs DEF Typed
  <2>2. ASSUME NEW c \in Codes, c \in Concerned PROVE Least(sn.want[c], shares[c]) \in Qtys
    BY <1>3, <2>1, <2>2 DEF Least
  <2>3. \A c \in Codes : q[c] \in Qtys \cup {None}
    BY <2>1, <2>2
  <2> QED BY <2>3 DEF Amounts
<1> HIDE DEF q, ph
<1>7. /\ e = [day |-> day, phase |-> ph, status |-> "", qty |-> q,
              done |-> {}, defer |-> {}, short |-> {}, frozen |-> Nothing,
              scope |-> Codes, resume |-> None]
  BY <1>5 DEF Fresh
<1> HIDE DEF e
<1>8. e \in State /\ e.day = day /\ e.phase = ph /\ e.qty = q /\ e.defer = {} /\ e.resume = None
  <2>1. Nothing \in Amounts /\ day \in Nat
    BY <1>1 DEF Nothing, Amounts, Typed
  <2>2. e \in State
    BY <1>4, <1>6, <1>7, <2>1 DEF State
  <2> QED BY <1>7, <2>2
<1>9. \A l : Marked(e, l)
  BY <1>1 DEF Marked
<1>10. first = Nothing
  <2>1. CASE exec.day = day
    BY <1>1, <2>1 DEF Inv, Sound, SoundBuy, SoundSell
  <2>2. CASE exec.day # day
    BY <2>2 DEF Inv
  <2> QED BY <2>1, <2>2
<1>11. Sound(e, Bought(e), Waited(e))
  <2>1. CASE exec.day = day
    <3>1. ph = "BUY"
      BY <2>1 DEF ph
    <3>2. Overlay(q, first) = q
      BY <1>6, <1>10, OverlaySame, FreshIs DEF Nothing, Amounts
    <3>3. RowCodes(e.defer) \subseteq Waited(e)
      BY <1>8 DEF RowCodes
    <3> QED BY <1>8, <1>9, <3>1, <3>2, <3>3 DEF Sound, SoundBuy, Bought
  <2>2. CASE exec.day # day
    <3>1. ph = "SELL"
      BY <2>2 DEF ph
    <3>2. \A c \in Codes : Sold(c, "BUY") = <<>>
      BY <2>2 DEF Inv, Phases
    <3> QED BY <1>8, <1>9, <1>10, <3>1, <3>2 DEF Sound, SoundSell, Bought
  <2> QED BY <2>1, <2>2
<1>12. Written(e)
  BY <1>8, <1>11 DEF Written
<1>13. Stored(e)
  BY <1>3 DEF e
<1>14. \A c \in DOMAIN todo' : c \in Codes /\ todo'[c] \in Qtys
  BY <1>2
<1> QED BY <1>1, <1>2, <1>8, <1>12, <1>13, <1>14, StoredKeeps

\* The whole route is done.
LEMMA StepEndWhole == Inv /\ EndWhole => Inv'
<1> SUFFICES ASSUME Inv, EndWhole PROVE Inv'
  OBVIOUS
<1> DEFINE e == [exec EXCEPT !.phase = "DONE", !.status = "EXECUTED"]
<1>1. /\ Ready /\ route = "whole" /\ Typed /\ exec.day = day /\ exec.phase = "BUY" /\ Stored(e)
      /\ UNCHANGED <<route, day, weighted, shares, sent, pending, todo>>
  BY DEF EndWhole, Inv
<1>2. pending = None /\ todo = <<>> /\ todo' = <<>>
  BY <1>1 DEF Ready
<1>3. SoundBuy(exec, first, late) /\ exec \in State /\ first \in Amounts
  BY <1>1 DEF Inv, Sound, SoundSell, Typed
<1>4. Overlay(exec.qty, first) = exec.qty
  BY <1>3, OverlaySame DEF SoundBuy
<1>5. Bought(exec) = first
  BY <1>1, <1>3, <1>4 DEF Bought, SoundBuy
<1>6. SoundBuy(exec, Bought(exec), Waited(exec))
  <2>1. RowCodes(exec.defer) \subseteq Waited(exec) /\ late \subseteq Waited(exec)
    BY <1>1 DEF Waited
  <2>2. Marked(exec, Waited(exec))
    BY <1>3, <2>1 DEF SoundBuy, Marked
  <2> QED BY <1>3, <1>5, <2>1, <2>2 DEF SoundBuy
<1>7. exec \in Writable
  BY <1>1, <1>3, <1>6 DEF Writable, Written, Sound
<1>8. e \in Writable
  BY <1>1, <1>7, DoneIs
<1>9. e.resume = None
  BY <1>3 DEF SoundBuy, State
<1>10. e \in State /\ Written(e)
  BY <1>8 DEF Writable
<1>11. \A c \in DOMAIN todo' : c \in Codes /\ todo'[c] \in Qtys
  BY <1>2
<1> HIDE DEF e
<1> QED BY <1>1, <1>2, <1>9, <1>10, <1>11, StoredKeeps

\* The whole route works on what misses its target.
LEMMA StepWorkWhole == Inv /\ WorkWhole => Inv'
<1> SUFFICES ASSUME Inv, WorkWhole PROVE Inv'
  OBVIOUS
<1>1. /\ Ready /\ route = "whole" /\ Typed /\ exec.day = day
      /\ todo' = [c \in Missed |-> exec.qty[c]]
      /\ UNCHANGED <<route, day, weighted, shares, exec, sent, pending, first, late>>
  BY DEF WorkWhole, Inv
<1>2. pending = None /\ exec.phase \in Phases
  BY <1>1 DEF Ready, Typed, State
<1>3. exec.qty \in Amounts
  BY <1>1 DEF Typed, State
<1>4. \A c \in Missed : /\ c \in Codes /\ todo'[c] = exec.qty[c] /\ todo'[c] \in Qtys
                        /\ exec.qty[c] # None /\ todo'[c] # shares[c]
  BY <1>1, <1>3 DEF Missed, Amounts
<1>5. Missed = DOMAIN todo'
  BY <1>1
<1>6. Aims(exec, todo', first, late)
  <2>1. CASE exec.phase = "BUY"
    <3>1. exec.qty = first
      BY <1>1, <2>1 DEF Inv, Sound, SoundBuy, SoundSell
    <3>2. \A c \in Missed : todo'[c] <= first[c]
      BY <1>4, <3>1, ConstantsAssumption DEF Qtys
    <3> QED BY <1>1, <1>4, <1>5, <2>1, <3>1, <3>2 DEF Aims
  <2>2. CASE exec.phase = "SELL"
    <3>1. exec.resume = None
      BY <1>1 DEF Inv
    <3> QED BY <1>1, <1>4, <1>5, <2>2, <3>1 DEF Aims
  <2> QED BY <1>2, <2>1, <2>2 DEF Phases
<1>7. Typed'
  BY <1>1, <1>4, <1>5 DEF Typed
<1>8. Sound(exec, first, late)'
  BY <1>1 DEF Inv, Sound, SoundBuy, SoundSell, Marked, Sold
<1>9. Aims(exec, todo, first, late)'
  BY <1>1, <1>6 DEF Aims
<1>10. OpenOrders' /\ NoReversal'
  <2>1. OpenOrders /\ NoReversal
    BY DEF Inv
  <2>2. OpenOrders'
    BY <1>1, <2>1 DEF OpenOrders, Sold
  <2>3. NoReversal'
    BY <1>1, <2>1 DEF NoReversal, Sold
  <2> QED BY <2>2, <2>3
<1>11. /\ (exec.day <= day)' /\ (exec.day = day)' /\ (route = "whole" => exec.resume = None)'
       /\ exec'.phase \in Phases /\ pending' = None
  BY <1>1, <1>2 DEF Inv
<1> QED BY <1>7, <1>8, <1>9, <1>10, <1>11 DEF Inv

\* A tick that sends nothing.
LEMMA StepSendNone == Inv /\ SendNone => Inv'
<1> SUFFICES ASSUME Inv, SendNone PROVE Inv'
  OBVIOUS
<1>1. /\ Typed /\ todo' = <<>>
      /\ UNCHANGED <<route, day, weighted, shares, exec, sent, pending, first, late>>
  BY DEF SendNone, Inv
<1>2. Typed'
  BY <1>1 DEF Typed
<1>3. (exec.day = day => Sound(exec, first, late))'
  BY <1>1 DEF Inv, Sound, SoundBuy, SoundSell, Marked, Sold
<1>4. OpenOrders'
  BY <1>1 DEF Inv, OpenOrders, Sold
<1>5. NoReversal'
  BY <1>1 DEF Inv, NoReversal, Sold
<1>6. /\ (exec.day <= day)' /\ (route = "whole" => exec.resume = None)'
      /\ (exec.day # day => /\ first = Nothing /\ todo = <<>>
                       /\ \A c \in Codes : \A ph \in Phases : Sold(c, ph) = <<>>)'
  BY <1>1 DEF Inv, Sold
<1> QED BY <1>1, <1>2, <1>3, <1>4, <1>5, <1>6 DEF Inv

\* The next signal starts without orders; the stored state is of an older day.
LEMMA StepNewSignal == Inv /\ NewSignal => Inv'
<1> SUFFICES ASSUME Inv, NewSignal PROVE Inv'
  OBVIOUS
<1>1. /\ Typed /\ pending = None /\ todo = <<>> /\ day' = day + 1 /\ weighted' \in SUBSET Codes
      /\ sent' = [c \in Codes |-> [ph \in Phases |-> <<>>]]
      /\ first' = Nothing /\ late' = {} /\ UNCHANGED <<route, shares, exec, pending, todo>>
  BY DEF NewSignal, Inv
<1>2. \A c \in Codes : \A ph \in Phases : Sold(c, ph)' = <<>>
  BY <1>1 DEF Sold
<1>3. exec.day \in Nat /\ day \in Nat /\ exec.day <= day
  BY <1>1 DEF Inv, Typed, State
<1>4. exec'.day <= day' /\ exec'.day # day'
  BY <1>1, <1>3
<1>5. Typed'
  <2>1. sent' \in [Codes -> [Phases -> Seq(Order)]] /\ day' \in Nat /\ Nothing \in Amounts
    BY <1>1, <1>3 DEF Nothing, Amounts
  <2> QED BY <1>1, <2>1 DEF Typed
<1>6. OpenOrders'
  BY <1>1, <1>2, NoneIs DEF OpenOrders
<1>7. NoReversal'
  BY <1>2 DEF NoReversal, Phases
<1>8. (route = "whole" => exec.resume = None)'
  BY <1>1 DEF Inv
<1> QED BY <1>1, <1>2, <1>4, <1>5, <1>6, <1>7, <1>8 DEF Inv

\* An order of the session that no step but a send adds to: what Sound needs.
LEMMA SoundStays ==
  ASSUME UNCHANGED <<route, day, exec, first, late>>,
         Sound(exec, first, late),
         \A x \in Codes \ late : route = "auto" /\ Sold(x, "SELL")' # <<>> =>
            \/ Sold(x, "SELL") # <<>>
            \/ exec.frozen[x] # None /\ exec.resume = None,
         \A x \in Codes : Sold(x, "BUY")' # <<>> => Sold(x, "BUY") # <<>> \/ exec.phase # "SELL"
  PROVE  Sound(exec, first, late)'
<1>1. Marked(exec, late) => Marked(exec, late)'
  BY DEF Marked
<1>2. exec.resume # None /\ Marked(exec.resume, late) => Marked(exec.resume, late)'
  BY DEF Marked
<1>3. SoundBuy(exec, first, late) => SoundBuy(exec, first, late)'
  BY <1>1 DEF SoundBuy
<1>4. exec.resume # None /\ SoundBuy(exec.resume, first, late) => SoundBuy(exec.resume, first, late)'
  BY <1>2 DEF SoundBuy
<1>5. SoundSell(exec, first, late) => SoundSell(exec, first, late)'
  BY <1>1, <1>4 DEF SoundSell
<1> QED BY <1>3, <1>5 DEF Sound

\* The broker gets one order of the manifest.
LEMMA StepSend == ASSUME NEW c \in Codes PROVE Inv /\ Send(c) => Inv'
<1> SUFFICES ASSUME Inv, Send(c) PROVE Inv'
  OBVIOUS
<1>0. PICK ph : ph = exec.phase
  OBVIOUS
<1> DEFINE o == [side |-> IF todo[c] > shares[c] THEN "BUY" ELSE "SELL",
                qty |-> Size(todo[c] - shares[c]), fill |-> 0, st |-> "open"]
<1>1. /\ Typed /\ c \in DOMAIN todo
      /\ route = "auto" => IF ph = "SELL" THEN todo[c] <= shares[c] ELSE todo[c] >= shares[c]
      /\ sent' = [sent EXCEPT ![c][ph] = Append(@, o)]
      /\ pending' = <<c, ph>> /\ todo' = <<>>
      /\ UNCHANGED <<route, day, weighted, shares, exec, first, late>>
  BY <1>0 DEF Send, Inv
<1>2. todo # <<>> /\ pending = None /\ exec.day = day
  BY <1>1 DEF Inv
<1>3. ph \in Phases /\ Aims(exec, todo, first, late) /\ Sound(exec, first, late)
  BY <1>0, <1>2 DEF Inv
<1>4. /\ todo[c] \in Qtys /\ shares[c] \in Qtys /\ todo[c] # shares[c]
      /\ ph = "BUY" => /\ first[c] # None /\ todo[c] <= first[c]
                       /\ route = "auto" => exec.frozen[c] = None
      /\ ph = "SELL" => /\ exec.resume # None => c \in late
                        /\ route = "auto" /\ todo[c] < shares[c] => exec.frozen[c] # None
  BY <1>0, <1>1, <1>3 DEF Aims, Typed
<1>5. o \in Order /\ o.side = (IF todo[c] > shares[c] THEN "BUY" ELSE "SELL")
      /\ o.qty = (IF todo[c] > shares[c] THEN todo[c] - shares[c] ELSE shares[c] - todo[c])
  <2>1. Size(todo[c] - shares[c]) \in Qtys
        /\ Size(todo[c] - shares[c]) = (IF todo[c] > shares[c] THEN todo[c] - shares[c] ELSE shares[c] - todo[c])
    BY <1>4, ConstantsAssumption DEF Size, Qtys
  <2>2. 0 \in Qtys
    BY ConstantsAssumption DEF Qtys
  <2> QED BY <2>1, <2>2 DEF Order
<1> HIDE DEF o
<1>6. \A x \in Codes : \A p \in Phases :
        Sold(x, p) \in Seq(Order)
        /\ Sold(x, p)' = IF x = c /\ p = ph THEN Append(Sold(c, ph), o) ELSE Sold(x, p)
  <2>1. sent \in [Codes -> [Phases -> Seq(Order)]]
    BY <1>1 DEF Typed
  <2> QED BY <1>1, <1>3, <2>1 DEF Sold
<1>7. sent' \in [Codes -> [Phases -> Seq(Order)]]
  <2>1. sent \in [Codes -> [Phases -> Seq(Order)]]
    BY <1>1 DEF Typed
  <2>2. Append(sent[c][ph], o) \in Seq(Order)
    BY <1>3, <1>5, <2>1
  <2> QED BY <1>1, <1>3, <2>1, <2>2
<1>8. Typed'
  <2>1. <<c, ph>> \in Codes \X Phases
    BY <1>3
  <2> QED BY <1>1, <1>7, <2>1 DEF Typed
<1>9. \A x \in Codes : \A p \in Phases : Sold(x, p)' # <<>> => Sold(x, p) # <<>> \/ (x = c /\ p = ph)
  BY <1>6
<1>10. "BUY" \in Phases /\ "SELL" \in Phases
  BY DEF Phases
<1>11. route = "auto" /\ ph = "SELL" => exec.frozen[c] # None
  <2>1. route = "auto" /\ ph = "SELL" => todo[c] < shares[c]
    BY <1>1, <1>4 DEF Qtys
  <2> QED BY <1>4, <2>1
<1>12. \A x \in Codes \ late : route = "auto" /\ Sold(x, "SELL")' # <<>> =>
            \/ Sold(x, "SELL") # <<>>
            \/ exec.frozen[x] # None /\ exec.resume = None
  BY <1>4, <1>9, <1>10, <1>11
<1>13. \A x \in Codes : Sold(x, "BUY")' # <<>> => Sold(x, "BUY") # <<>> \/ exec.phase # "SELL"
  BY <1>0, <1>9, <1>10
<1>14. Sound(exec, first, late)'
  BY <1>1, <1>3, <1>12, <1>13, SoundStays
<1>15. OpenOrders'
  <2>1. \A x \in Codes : \A p \in Phases : Sold(x, p) # <<>> => Last(Sold(x, p)).st # "open"
    BY <1>2, NoneIs DEF Inv, OpenOrders
  <2>2. /\ Sold(c, ph)' # <<>> /\ Last(Sold(c, ph)') = o
    <3>1. Sold(c, ph) \in Seq(Order) /\ Sold(c, ph)' = Append(Sold(c, ph), o)
      BY <1>3, <1>6
    <3>2. Len(Append(Sold(c, ph), o)) = Len(Sold(c, ph)) + 1
          /\ Append(Sold(c, ph), o)[Len(Sold(c, ph)) + 1] = o
      BY <1>5, <3>1
    <3>3. Append(Sold(c, ph), o) # <<>>
      BY <3>1, <3>2
    <3> QED BY <3>1, <3>2, <3>3 DEF Last
  <2>3. \A x \in Codes : \A p \in Phases : ~(x = c /\ p = ph) => Sold(x, p)' = Sold(x, p)
    BY <1>6
  <2>4. ASSUME NEW x \in Codes, NEW p \in Phases, Sold(x, p)' # <<>>, Last(Sold(x, p)').st = "open"
        PROVE  pending' = <<x, p>>
    <3>1. x = c /\ p = ph
      BY <2>1, <2>3, <2>4
    <3> QED BY <1>1, <3>1
  <2>5. /\ o.side = "BUY" => /\ shares[c] + o.qty \in Qtys
                             /\ ph = "BUY" => first[c] # None /\ shares[c] + o.qty <= first[c]
        /\ o.side = "SELL" => shares[c] - o.qty \in Qtys
    <3>1. o.side = "BUY" => shares[c] + o.qty = todo[c]
      BY <1>4, <1>5 DEF Qtys
    <3>2. o.side = "SELL" => shares[c] - o.qty = todo[c]
      BY <1>4, <1>5 DEF Qtys
    <3> QED BY <1>4, <3>1, <3>2
  <2>6. ASSUME NEW x \in Codes, NEW p \in Phases, pending' = <<x, p>>
        PROVE  /\ Sold(x, p)' # <<>>
               /\ Last(Sold(x, p)').side = "BUY" =>
                    /\ shares'[x] + Last(Sold(x, p)').qty \in Qtys
                    /\ p = "BUY" => first'[x] # None /\ shares'[x] + Last(Sold(x, p)').qty <= first'[x]
               /\ Last(Sold(x, p)').side = "SELL" => shares'[x] - Last(Sold(x, p)').qty \in Qtys
    <3>1. x = c /\ p = ph
      BY <1>1, <2>6
    <3> QED BY <1>1, <2>2, <2>5, <3>1
  <2> QED BY <2>4, <2>6 DEF OpenOrders
<1>16. NoReversal'
  <2>1. NoReversal
    BY DEF Inv
  <2>2. CASE ph = "SELL"
    <3>1. c \notin late => Sold(c, "BUY") = <<>>
      <4>1. c \notin late => exec.resume = None
        BY <1>4, <2>2
      <4>2. SoundSell(exec, first, late)
        BY <1>0, <1>3, <2>2 DEF Sound, SoundBuy
      <4> QED BY <4>1, <4>2 DEF SoundSell
    <3>2. \A x \in Codes : Sold(x, "BUY")' = Sold(x, "BUY")
      BY <1>6, <1>10, <2>2
    <3>3. \A x \in Codes : x # c => Sold(x, "SELL")' = Sold(x, "SELL")
      BY <1>6, <1>10
    <3> QED BY <1>1, <2>1, <3>1, <3>2, <3>3 DEF NoReversal
  <2>3. CASE ph = "BUY"
    <3>1. route = "auto" /\ c \notin late => Sold(c, "SELL") = <<>>
      <4>1. Marked(exec, late)
        BY <1>3 DEF Sound, SoundBuy, SoundSell
      <4> QED BY <1>4, <2>3, <4>1 DEF Marked
    <3>2. \A x \in Codes : Sold(x, "SELL")' = Sold(x, "SELL")
      BY <1>6, <1>10, <2>3
    <3>3. \A x \in Codes : x # c => Sold(x, "BUY")' = Sold(x, "BUY")
      BY <1>6, <1>10
    <3> QED BY <1>1, <2>1, <3>1, <3>2, <3>3 DEF NoReversal
  <2> QED BY <1>3, <2>2, <2>3 DEF Phases
<1>17. /\ (exec.day <= day)' /\ (route = "whole" => exec.resume = None)' /\ (exec.day = day)'
  BY <1>1, <1>2 DEF Inv
<1> QED BY <1>1, <1>8, <1>14, <1>15, <1>16, <1>17 DEF Inv

\* A later tick learns how the order ended.
LEMMA StepSettle == Inv /\ Settle => Inv'
<1> SUFFICES ASSUME Inv, Settle PROVE Inv'
  OBVIOUS
<1>1. /\ Typed /\ OpenOrders /\ NoReversal /\ pending # None /\ pending' = None
      /\ UNCHANGED <<route, day, weighted, exec, todo, first, late>>
  BY DEF Settle, Inv
<1>2. todo = <<>> /\ todo' = <<>>
  BY <1>1 DEF Inv
<1> DEFINE c == pending[1]
           ph == pending[2]
<1>3. c \in Codes /\ ph \in Phases /\ pending = <<c, ph>>
  BY <1>1 DEF Typed
<1> DEFINE n == Len(Sold(c, ph))
           o == Sold(c, ph)[n]
<1>4. PICK f \in 0..o.qty, st \in {"filled", "failed", "dropped"} :
          /\ (st = "filled") = (f = o.qty)
          /\ sent' = [sent EXCEPT ![c][ph][n] = [o EXCEPT !.fill = f, !.st = st]]
          /\ shares' = [shares EXCEPT ![c] = IF o.side = "BUY" THEN @ + f ELSE @ - f]
  BY DEF Settle
<1> HIDE DEF c, ph
<1>5. \A x \in Codes : \A p \in Phases : Sold(x, p) \in Seq(Order)
  BY <1>1 DEF Typed, Sold
<1>6. /\ Sold(c, ph) # <<>>
      /\ Last(Sold(c, ph)).side = "BUY" => shares[c] + Last(Sold(c, ph)).qty \in Qtys
      /\ Last(Sold(c, ph)).side = "SELL" => shares[c] - Last(Sold(c, ph)).qty \in Qtys
  BY <1>1, <1>3 DEF OpenOrders
<1>7. n \in 1..Len(Sold(c, ph)) /\ o = Last(Sold(c, ph)) /\ o \in Order
  BY <1>3, <1>5, <1>6 DEF Last
<1> DEFINE u == [o EXCEPT !.fill = f, !.st = st]
           s == [Sold(c, ph) EXCEPT ![n] = u]
<1>8. u \in Order /\ u.st # "open"
  <2> HIDE DEF o
  <2>1. f \in Qtys
    BY <1>7, ConstantsAssumption DEF Order, Qtys
  <2> QED BY <1>7, <2>1 DEF Order
<1>9. s \in Seq(Order) /\ Len(s) = Len(Sold(c, ph)) /\ s[n] = u /\ s # <<>>
  <2> HIDE DEF u
  <2> QED BY <1>3, <1>5, <1>6, <1>7, <1>8
<1>10. sent' = [sent EXCEPT ![c][ph] = s]
  BY <1>4 DEF Sold
<1>11. shares'[c] \in Qtys /\ \A x \in Codes : x # c => shares'[x] = shares[x]
  <2>1. shares \in [Codes -> Qtys] /\ o.qty \in Qtys
    BY <1>1, <1>7 DEF Typed, Order
  <2>2. /\ o.side = "BUY" => shares[c] + o.qty \in Qtys
        /\ o.side = "SELL" => shares[c] - o.qty \in Qtys
        /\ o.side \in {"BUY", "SELL"}
    BY <1>6, <1>7 DEF Order
  <2>3. /\ o.side = "BUY" => shares[c] + f \in Qtys
        /\ o.side = "SELL" => shares[c] - f \in Qtys
    <3> HIDE DEF o
    <3>1. f \in Nat /\ f <= o.qty /\ shares[c] \in Qtys
      BY <1>3, <2>1 DEF Qtys
    <3> QED BY <2>1, <2>2, <3>1, ConstantsAssumption DEF Qtys
  <2>4. shares' = [shares EXCEPT ![c] = IF o.side = "BUY" THEN @ + f ELSE @ - f]
    BY <1>4
  <2> HIDE DEF o
  <2> QED BY <1>3, <2>1, <2>2, <2>3, <2>4
<1>12. shares' \in [Codes -> Qtys]
  <2>1. shares' = [shares EXCEPT ![c] = IF o.side = "BUY" THEN @ + f ELSE @ - f]
    BY <1>4
  <2>2. shares \in [Codes -> Qtys]
    BY <1>1 DEF Typed
  <2> HIDE DEF o
  <2> QED BY <1>3, <1>11, <2>1, <2>2
<1> HIDE DEF s, u, o, n
<1>13. sent \in [Codes -> [Phases -> Seq(Order)]]
  BY <1>1 DEF Typed
<1>14. sent' \in [Codes -> [Phases -> Seq(Order)]]
  BY <1>3, <1>9, <1>10, <1>13
<1>15. \A x \in Codes : \A p \in Phases :
         Sold(x, p)' = IF x = c /\ p = ph THEN s ELSE Sold(x, p)
  BY <1>3, <1>10, <1>13 DEF Sold
<1>16. \A x \in Codes : \A p \in Phases : Sold(x, p)' # <<>> => Sold(x, p) # <<>>
  BY <1>6, <1>15
<1>17. Typed'
  BY <1>1, <1>2, <1>12, <1>14 DEF Typed
<1>18. exec.day = day => Sound(exec, first, late)'
  <2>1. "BUY" \in Phases /\ "SELL" \in Phases
    BY DEF Phases
  <2>2. exec.day = day => Sound(exec, first, late)
    BY DEF Inv
  <2> QED BY <1>1, <1>16, <2>1, <2>2, SoundStays
<1>19. OpenOrders'
  <2>1. ASSUME NEW x \in Codes, NEW p \in Phases, Sold(x, p)' # <<>>, Last(Sold(x, p)').st = "open"
        PROVE  FALSE
    <3>1. CASE x = c /\ p = ph
      <4>1. Sold(x, p)' = s
        BY <1>15, <3>1
      <4>2. Last(s) = u
        BY <1>9 DEF Last, n
      <4> QED BY <1>8, <2>1, <4>1, <4>2
    <3>2. CASE ~(x = c /\ p = ph)
      <4>1. Sold(x, p)' = Sold(x, p)
        BY <1>15, <3>2
      <4>2. pending = <<x, p>>
        BY <1>1, <2>1, <4>1 DEF OpenOrders
      <4> QED BY <1>3, <3>2, <4>2
    <3> QED BY <3>1, <3>2
  <2>2. \A x \in Codes : \A p \in Phases : pending' # <<x, p>>
    BY <1>1, NoneIs
  <2> QED BY <2>1, <2>2 DEF OpenOrders
<1>20. NoReversal'
  BY <1>1, <1>16 DEF NoReversal, Phases
<1>21. /\ (exec.day <= day)' /\ (route = "whole" => exec.resume = None)'
       /\ exec.day # day => first = Nothing /\ \A x \in Codes : \A p \in Phases : Sold(x, p) = <<>>
  BY <1>1 DEF Inv
<1>22. (exec.day # day => /\ first = Nothing /\ todo = <<>>
                       /\ \A x \in Codes : \A p \in Phases : Sold(x, p) = <<>>)'
  BY <1>1, <1>2, <1>16, <1>21
<1> QED BY <1>1, <1>2, <1>17, <1>18, <1>19, <1>20, <1>21, <1>22 DEF Inv

\* Every step keeps the invariant.
LEMMA InvStep == Inv /\ [Next]_vars => Inv'
<1> SUFFICES ASSUME Inv, [Next]_vars PROVE Inv'
  OBVIOUS
<1>1. CASE Tick
  BY <1>1, StepTick
<1>2. CASE FixWhole
  BY <1>2, StepFixWhole
<1>3. CASE WorkWhole
  BY <1>3, StepWorkWhole
<1>4. CASE EndWhole
  BY <1>4, StepEndWhole
<1>5. CASE \E c \in Codes : Send(c)
  BY <1>5, StepSend
<1>6. CASE SendNone
  BY <1>6, StepSendNone
<1>7. CASE Settle
  BY <1>7, StepSettle
<1>8. CASE NewSignal
  BY <1>8, StepNewSignal
<1>9. CASE UNCHANGED vars
  <2>1. UNCHANGED <<route, day, weighted, shares, exec, sent, pending, todo, first, late>>
    BY <1>9 DEF vars
  <2>2. Typed'
    BY <2>1 DEF Inv, Typed
  <2>3. (exec.day = day => Sound(exec, first, late))'
    BY <2>1 DEF Inv, Sound, SoundBuy, SoundSell, Marked, Sold
  <2>4. (todo # <<>> => exec.phase \in Phases /\ Aims(exec, todo, first, late))'
    BY <2>1 DEF Inv, Aims
  <2>5. OpenOrders'
    BY <2>1 DEF Inv, OpenOrders, Sold
  <2>6. NoReversal'
    BY <2>1 DEF Inv, NoReversal, Sold
  <2>7. /\ (exec.day <= day)' /\ (route = "whole" => exec.resume = None)'
        /\ (pending # None => todo = <<>>)'
        /\ (exec.day # day => /\ first = Nothing /\ todo = <<>>
                       /\ \A c \in Codes : \A ph \in Phases : Sold(c, ph) = <<>>)'
    BY <2>1 DEF Inv, Sold
  <2> QED BY <2>2, <2>3, <2>4, <2>5, <2>6, <2>7 DEF Inv
<1> QED BY <1>1, <1>2, <1>3, <1>4, <1>5, <1>6, <1>7, <1>8, <1>9 DEF Next

-----------------------------------------------------------------------------
\* 4. What follows from the invariant.

\* The invariant of every run of ticks, settled orders, crashes and new signals.
THEOREM InvHolds == Spec => []Inv
BY InvInit, InvStep, PTL DEF Spec

\* NoReversal: on the automatic route a code that was sold for a signal is not
\* bought back for it, unless its SELL had been deferred.  The argument: a SELL
\* resolves its target before it is sent (Marked), no write of a tick loses that
\* target, the BUY that a detour keeps in resume_buy_state included, and a BUY
\* leaves out every code that has one (Reduced).
THEOREM NoReversalHolds == Spec => []NoReversal
<1>1. Inv => NoReversal
  BY DEF Inv
<1> QED BY <1>1, InvHolds, PTL

\* QuantitiesAreFixed: the first BUY quantity of a code is the one every later
\* state of the signal carries, through retries, detours and crashes between the
\* writes, and no order in flight buys past it.
THEOREM QuantitiesStayFixed == Spec => []QuantitiesAreFixed
<1>1. Inv => QuantitiesAreFixed
  <2> SUFFICES ASSUME Inv PROVE QuantitiesAreFixed
    OBVIOUS
  <2>1. exec.day = day /\ exec.phase # "SELL" => exec.qty = first
    BY DEF Inv, Sound, SoundBuy, SoundSell
  <2>2. exec.day = day /\ exec.resume # None => exec.resume.qty = first
    BY DEF Inv, Sound, SoundBuy, SoundSell
  <2>3. ASSUME NEW c \in Codes, Sold(c, "BUY") # <<>>, Last(Sold(c, "BUY")).st = "open",
               Last(Sold(c, "BUY")).side = "BUY"
        PROVE  shares[c] + Last(Sold(c, "BUY")).qty <= first[c]
    <3>1. OpenOrders /\ "BUY" \in Phases
      BY DEF Inv, Phases
    <3>2. pending = <<c, "BUY">>
      BY <2>3, <3>1 DEF OpenOrders
    <3> QED BY <2>3, <3>1, <3>2 DEF OpenOrders
  <2> QED BY <2>1, <2>2, <2>3 DEF QuantitiesAreFixed
<1> QED BY <1>1, InvHolds, PTL

-----------------------------------------------------------------------------
\* 5. SELLs finish before BUYs.

\* What some orders filled together.
FillsOf(s) == SumFunction([k \in DOMAIN s |-> s[k].fill])

\* No order filled less than nothing.
LEMMA FillsNat ==
  ASSUME NEW s \in Seq(Order)
  PROVE  FillsOf(s) \in Nat
<1> DEFINE f == [k \in DOMAIN s |-> s[k].fill]
<1>1. IsFiniteSet(1..Len(s)) /\ DOMAIN s = 1..Len(s)
  BY FS_Interval
<1>2. \A k \in DOMAIN s : f[k] \in Nat
  <2>1. \A k \in DOMAIN s : s[k] \in Order
    OBVIOUS
  <2> QED BY <2>1 DEF Order, Qtys
<1>3. DOMAIN f = DOMAIN s
  OBVIOUS
<1> HIDE DEF f
<1>4. SumFunctionOnSet(f, DOMAIN f) \in Nat
  BY <1>1, <1>2, <1>3, SumNat
<1> QED BY <1>4 DEF FillsOf, SumFunction, f

\* A new order has filled nothing.
LEMMA FillsAppend ==
  ASSUME NEW s \in Seq(Order), NEW o \in Order, o.fill = 0
  PROVE  FillsOf(Append(s, o)) = FillsOf(s)
<1> DEFINE n == Len(s) + 1
           t == Append(s, o)
           f == [k \in DOMAIN s |-> s[k].fill]
           g == [k \in DOMAIN t |-> t[k].fill]
<1>1. IsFiniteSet(1..n) /\ IsFiniteSet(1..Len(s)) /\ DOMAIN s = 1..Len(s)
  BY FS_Interval
<1>2. t \in Seq(Order) /\ DOMAIN t = 1..n /\ t[n] = o /\ \A k \in 1..Len(s) : t[k] = s[k]
  OBVIOUS
<1>3. 1..Len(s) \in SUBSET (1..n) /\ (1..n) \ (1..Len(s)) = {n}
  OBVIOUS
<1> HIDE DEF t, n
<1>4. \A k \in 1..n : t[k] \in Order
  <2>1. \A k \in 1..Len(s) : s[k] \in Order
    OBVIOUS
  <2> QED BY <1>2, <1>3, <2>1
<1>5. DOMAIN f = 1..Len(s) /\ DOMAIN g = 1..n /\ Ints(g, 1..n) /\ Ints(g, 1..Len(s))
  <2>1. \A k \in 1..n : g[k] \in Int
    BY <1>2, <1>4 DEF Order, Qtys
  <2> QED BY <1>1, <1>2, <1>3, <2>1 DEF Ints
<1>6. \A k \in (1..n) \ (1..Len(s)) : g[k] = 0
  BY <1>2, <1>3
<1>7. \A k \in 1..Len(s) : g[k] = f[k]
  BY <1>1, <1>2, <1>3
<1> HIDE DEF f, g
<1>8. SumFunctionOnSet(g, 1..n) = SumFunctionOnSet(g, 1..Len(s))
  BY <1>1, <1>3, <1>5, <1>6, SumZeros
<1>9. SumFunctionOnSet(g, 1..Len(s)) = SumFunctionOnSet(f, 1..Len(s))
  BY <1>1, <1>5, <1>7, SumSame
<1>10. FillsOf(t) = SumFunctionOnSet(g, 1..n) /\ FillsOf(s) = SumFunctionOnSet(f, 1..Len(s))
  BY <1>5 DEF FillsOf, SumFunction, f, g
<1> QED BY <1>8, <1>9, <1>10 DEF t

\* The last order, which had filled nothing, is settled.
LEMMA FillsSettled ==
  ASSUME NEW s \in Seq(Order), s # <<>>, s[Len(s)].fill = 0, NEW u \in Order
  PROVE  FillsOf([s EXCEPT ![Len(s)] = u]) = FillsOf(s) + u.fill
<1> DEFINE n == Len(s)
           t == [s EXCEPT ![n] = u]
           f == [k \in DOMAIN s |-> s[k].fill]
           g == [k \in DOMAIN t |-> t[k].fill]
           R == (1..n) \ {n}
<1>1. IsFiniteSet(1..n) /\ DOMAIN s = 1..n /\ n \in 1..n
  BY FS_Interval
<1>2. DOMAIN t = 1..n /\ t[n] = u /\ \A k \in R : t[k] = s[k]
  BY <1>1
<1>3. \A k \in 1..n : s[k] \in Order /\ t[k] \in Order
  <2>1. \A k \in 1..n : s[k] \in Order
    BY <1>1
  <2> QED BY <1>2, <2>1
<1> HIDE DEF t, n
<1>4. IsFiniteSet(R)
  BY <1>1, FS_RemoveElement
<1>5. DOMAIN f = 1..n /\ DOMAIN g = 1..n /\ Ints(f, 1..n) /\ Ints(g, 1..n) /\ Ints(f, R)
      /\ f[n] = 0 /\ g[n] = u.fill
  <2>1. \A k \in 1..n : f[k] \in Int /\ g[k] \in Int
    BY <1>1, <1>2, <1>3 DEF Order, Qtys
  <2>2. f[n] = 0 /\ g[n] = u.fill
    BY <1>1, <1>2 DEF n
  <2> QED BY <1>1, <1>2, <2>1, <2>2 DEF Ints
<1>6. \A k \in R : f[k] = g[k]
  BY <1>1, <1>2
<1> HIDE DEF f, g, R
<1>7. SumFunctionOnSet(f, R) = SumFunctionOnSet(g, R)
  BY <1>4, <1>5, <1>6, SumSame
<1>8. /\ SumFunctionOnSet(f, 1..n) = f[n] + SumFunctionOnSet(f, R)
      /\ SumFunctionOnSet(g, 1..n) = g[n] + SumFunctionOnSet(g, R)
  BY <1>1, <1>5, SumRemove DEF R
<1>9. FillsOf(t) = SumFunctionOnSet(g, 1..n) /\ FillsOf(s) = SumFunctionOnSet(f, 1..n)
  BY <1>5 DEF FillsOf, SumFunction, f, g
<1>10. SumFunctionOnSet(f, R) \in Int /\ u.fill \in Int
  BY <1>4, <1>5, SumType DEF Order, Qtys
<1>11. FillsOf(t) = FillsOf(s) + u.fill
  BY <1>5, <1>7, <1>8, <1>9, <1>10
<1> QED BY <1>11 DEF t, n

\* Nothing was filled when nothing was sent.
LEMMA FillsNone == FillsOf(<<>>) = 0
<1> DEFINE f == [k \in DOMAIN (<<>>) |-> (<<>>)[k].fill]
<1>1. DOMAIN f = {}
  OBVIOUS
<1> HIDE DEF f
<1>2. SumFunctionOnSet(f, DOMAIN f) = 0
  BY <1>1, SumEmpty
<1> QED BY <1>2 DEF FillsOf, SumFunction, f

\* The SELL orders of a code have left a part of the first one's quantity unsold,
\* and how much.
Unsold(x) == Sold(x, "SELL") # <<>> /\ Filled(x, "SELL") # Sold(x, "SELL")[1].qty
Left(x) == Sold(x, "SELL")[1].qty - Filled(x, "SELL")

\* The state e is one of the SELL phase that has the target of every such code, and
\* what is left is the way to it.
Owing(e) == \A x \in Codes : Unsold(x) =>
  /\ e.phase = "SELL" /\ e.frozen[x] # None
  /\ Left(x) > 0 /\ shares[x] - e.frozen[x] = Left(x)

\* A decrease goes for the resolved target, for the first time or for what is left.
Aimed(e, targets) == \A c \in DOMAIN targets : targets[c] < shares[c] =>
  targets[c] = e.frozen[c] /\ (Sold(c, "SELL") = <<>> \/ Unsold(c))

\* The SELL order that is not settled is for what is left.
PendingSell == \A c \in Codes : \A ph \in Phases : pending = <<c, ph>> =>
  /\ ph = exec.phase
  /\ Last(Sold(c, ph)).fill = 0
  /\ ph = "SELL" => /\ Unsold(c)
                    /\ Last(Sold(c, ph)).side = "SELL" /\ Last(Sold(c, ph)).qty = Left(c)

\* A code whose SELL is finished filled its last order.
FinishedSell == \A x \in Codes : Sold(x, "SELL") # <<>> /\ ~Unsold(x) =>
  Last(Sold(x, "SELL")).st = "filled"

\* Inductive together with Inv.
SellInv == route = "auto" =>
  /\ Owing(exec)
  /\ FinishedSell
  /\ exec.phase = "SELL" => Aimed(exec, todo)
  /\ PendingSell

\* A code that is not settled is open only for a retry.
LEMMA StandingOpen ==
  ASSUME NEW b, NEW ph, NEW sn, NEW again
  PROVE  \A c \in Standing(b, ph, sn, again).open : Sold(c, ph) = <<>> \/ c \in again
BY DEF Standing

\* A SELL keeps the targets it was called with and records those it adds.
DecidesSell(r, b, open) ==
  /\ \A c \in Codes : b.frozen[c] # None /\ b.qty[c] = b.frozen[c]
                        => r.state.frozen[c] = b.frozen[c]
  /\ DOMAIN r.targets \subseteq open
  /\ \A c \in DOMAIN r.targets : r.targets[c] < shares[c] => r.targets[c] = r.state.frozen[c]

\* It does, whatever is open.
LEMMA OutcomeSell ==
  ASSUME Typed, route = "auto", NEW b, Ground(b), NEW sn \in Snapshots, NEW rows, NEW at,
         at.open \in SUBSET b.codes, \A c \in at.open : sn.want[c] # None
  PROVE  DecidesSell(Outcome(b, "SELL", sn, rows, at), b, at.open)
<1> DEFINE fixed  == [c \in Codes |->
                  IF c \notin at.open \/ b.qty[c] # None THEN b.qty[c]
                  ELSE IF "SELL" = "SELL" THEN Least(sn.want[c], shares[c])
                  ELSE Most(shares[c], Least(sn.want[c], shares[c] + sn.cash[c]))]
           target == [c \in at.open |->
                  IF "SELL" = "BUY" /\ c \in at.retry THEN Retarget(c, fixed[c], sn) ELSE fixed[c]]
           go     == {c \in at.open : target[c] # shares[c]}
           g == [c \in Codes |-> IF c \in at.open /\ target[c] < shares[c] THEN target[c] ELSE None]
           r == Outcome(b, "SELL", sn, rows, at)
<1>1. r.state.frozen = Overlay(b.frozen, g) /\ r.targets = [c \in go |-> target[c]]
  BY DEF Outcome
<1> HIDE DEF r
<1>2. at.open \in SUBSET Codes /\ b.qty \in Amounts /\ b.frozen \in Amounts
  BY DEF Ground
<1>3. ASSUME NEW c \in at.open
      PROVE  /\ target[c] \in Qtys
             /\ b.qty[c] # None => target[c] = b.qty[c]
  <2>1. c \in Codes /\ b.qty[c] \in Qtys \cup {None}
    BY <1>2 DEF Amounts
  <2>2. sn.want[c] \in Qtys /\ shares[c] \in Qtys
    BY <2>1, SnapshotIs DEF Typed
  <2>3. Least(sn.want[c], shares[c]) \in Qtys
    BY <2>2 DEF Least
  <2>4. target[c] = IF b.qty[c] # None THEN b.qty[c] ELSE Least(sn.want[c], shares[c])
    BY <2>1
  <2> QED BY <2>1, <2>3, <2>4
<1> HIDE DEF target
<1>4. g \in Amounts
  BY <1>3 DEF Amounts
<1>5. \A c \in Codes : g[c] = IF c \in at.open /\ target[c] < shares[c] THEN target[c] ELSE None
  OBVIOUS
<1> HIDE DEF g
<1>6. \A c \in Codes : r.state.frozen[c] = IF g[c] # None THEN g[c] ELSE b.frozen[c]
  BY <1>1, <1>2, <1>4, OverlayIs
<1>7. ASSUME NEW c \in Codes, b.frozen[c] # None, b.qty[c] = b.frozen[c]
      PROVE  r.state.frozen[c] = b.frozen[c]
  BY <1>3, <1>5, <1>6, <1>7
<1>8. DOMAIN r.targets \subseteq at.open
  BY <1>1
<1>9. ASSUME NEW c \in DOMAIN r.targets, r.targets[c] < shares[c]
      PROVE  r.targets[c] = r.state.frozen[c]
  <2>1. c \in at.open /\ r.targets[c] = target[c]
    BY <1>1
  <2>2. g[c] = target[c] /\ target[c] # None
    BY <1>2, <1>3, <1>5, <1>9, <2>1, NoneIs
  <2> QED BY <1>2, <1>6, <2>1, <2>2
<1> QED BY <1>7, <1>8, <1>9 DEF DecidesSell, r

\* The same of a SELL with all its steps.
LEMMA ResolvedSell ==
  ASSUME Typed, route = "auto", NEW sn \in Snapshots, NEW given \in Plain \cup {None}
  PROVE  LET r == Resolved(exec, "SELL", sn, given, None) IN
         /\ given = None => \A c \in Codes : exec.frozen[c] # None
                                               => r.state.frozen[c] = exec.frozen[c]
         /\ \A c \in DOMAIN r.targets :
              /\ r.targets[c] < shares[c] => r.targets[c] = r.state.frozen[c]
              /\ Sold(c, "SELL") = <<>> \/ Failed(c, "SELL")
<1> DEFINE b == Basis(exec, "SELL", given)
           rows == b.prev.defer
           again == Again(b, "SELL")
           at == Standing(b, "SELL", sn, again)
           r == Outcome(b, "SELL", sn, rows, at)
<1>0. exec \in State /\ "SELL" \in Phases
  BY DEF Typed, Phases
<1>1. Resolved(exec, "SELL", sn, given, None) = r
  BY DEF Resolved
<1>2. Ground(b) /\ b.frozen = Frozen(exec, given)
  BY <1>0, BasisIs
<1>3. b.qty = Overlay(b.prev.qty, b.frozen)
  BY DEF Basis
<1> HIDE DEF b
<1>4. again \in SUBSET b.codes
  BY DEF Again
<1>4a. \A c \in again : Failed(c, "SELL")
  BY DEF Again
<1> HIDE DEF again
<1>4b. Ground(b) /\ "SELL" \in Phases
  BY <1>0, <1>2
<1>5. ASSUME NEW ph \in Phases
      PROVE  /\ Standing(b, ph, sn, again).open \in SUBSET b.codes
             /\ \A c \in Standing(b, ph, sn, again).open : sn.want[c] # None
  <2> DEFINE st == Standing(b, ph, sn, again)
  <2>1. /\ st.waiting \in SUBSET Codes /\ st.unquoted \in SUBSET Codes
      /\ st.behind \in SUBSET Codes /\ st.retry \in SUBSET Codes /\ st.fin \in SUBSET Codes
      /\ st.open \in SUBSET b.codes
      /\ \A c \in st.open : sn.want[c] # None /\ (ph = "BUY" => b.frozen[c] = None)
    BY <1>4, <1>4b, StandingIs
  <2> QED BY <2>1
<1>5a. at.open \in SUBSET b.codes
  BY <1>4b, <1>5
<1>5b. \A c \in at.open : sn.want[c] # None
  BY <1>4b, <1>5
<1>6. \A c \in at.open : Sold(c, "SELL") = <<>> \/ c \in again
  BY StandingOpen
<1> HIDE DEF at, rows
<1>7. DecidesSell(r, b, at.open)
  BY <1>4b, <1>5a, <1>5b, OutcomeSell
<1> HIDE DEF r
<1>8. ASSUME given = None, NEW c \in Codes, exec.frozen[c] # None
      PROVE  r.state.frozen[c] = exec.frozen[c]
  <2>1. b.frozen = exec.frozen
    BY <1>2, <1>8 DEF Frozen
  <2>2. b.prev.qty \in Amounts /\ b.frozen \in Amounts
    BY <1>2 DEF Ground, State
  <2>3. b.qty[c] = b.frozen[c]
    BY <1>3, <1>8, <2>1, <2>2, OverlayIs
  <2> QED BY <1>7, <1>8, <2>1, <2>3 DEF DecidesSell
<1>9. \A c \in DOMAIN r.targets : Sold(c, "SELL") = <<>> \/ Failed(c, "SELL")
  BY <1>4a, <1>6, <1>7 DEF DecidesSell
<1> QED BY <1>1, <1>7, <1>8, <1>9 DEF DecidesSell

\* Once nothing is left unsold every state will do.
LEMMA NothingLeft ==
  ASSUME \A x \in Codes : ~Unsold(x), NEW e
  PROVE  Owing(e)
BY DEF Owing

\* What each write of a tick owes, and what the manifest of the last one aims at.
Finishing(t) ==
  /\ t.writes \in Seq(State) /\ Len(t.writes) > 0
  /\ \A k \in 1..Len(t.writes) : Owing(t.writes[k])
  /\ t.writes[Len(t.writes)].phase = "SELL" => Aimed(t.writes[Len(t.writes)], t.targets)

\* A tick that ends with a SELL stores nothing more; one that ends with a BUY has
\* nothing left to sell.
LEMMA EndingFinishes ==
  ASSUME NEW end, end.state \in State, Owing(end.state), end.state.phase \in Phases,
         end.state.phase = "SELL" => Aimed(end.state, end.targets)
  PROVE  Finishing(Ending(end))
<1> DEFINE e == end.state
           d == [e EXCEPT !.phase = "DONE", !.status = IF end.skipped = {} THEN "EXECUTED" ELSE "PARTIALLY_EXECUTED"]
           t == Ending(end)
<1>1. CASE end.targets = <<>> /\ e.phase = "BUY" /\ Unresolved(end) = {}
  <2>1. t.writes = <<e>> \o <<d>> /\ t.targets = <<>>
    BY <1>1 DEF Ending
  <2>2. d \in State /\ d.phase = "DONE"
    BY DEF State
  <2>3. Owing(d)
    <3>1. \A x \in Codes : ~Unsold(x)
      BY <1>1 DEF Owing
    <3> QED BY <3>1, NothingLeft
  <2>4. e \in State /\ Owing(e)
    OBVIOUS
  <2> HIDE DEF e, d, t
  <2>5. t.writes \in Seq(State) /\ Len(t.writes) = 2 /\ t.writes[1] = e /\ t.writes[2] = d
    BY <2>1, <2>2, <2>4
  <2> QED BY <2>2, <2>3, <2>4, <2>5 DEF Finishing, t
<1>2. CASE ~(end.targets = <<>> /\ e.phase = "BUY" /\ Unresolved(end) = {})
  <2>1. t.writes = <<e>> \o <<>> /\ t.targets = end.targets
    BY <1>2 DEF Ending
  <2>2. e \in State /\ Owing(e) /\ (e.phase = "SELL" => Aimed(e, end.targets))
    OBVIOUS
  <2> HIDE DEF e, t
  <2>3. t.writes \in Seq(State) /\ Len(t.writes) = 1 /\ t.writes[1] = e
    BY <2>1, <2>2
  <2> QED BY <2>1, <2>2, <2>3 DEF Finishing, t
<1> QED BY <1>1, <1>2

\* When nothing is left the tick goes on to the BUY.
LEMMA FollowingFinishes ==
  ASSUME \A x \in Codes : ~Unsold(x),
         NEW one, one.state \in State, NEW back \in State, NEW rest,
         rest = [writes |-> rest.writes, targets |-> rest.targets], Finishing(rest)
  PROVE  Finishing(Following(one, back, rest))
<1> DEFINE t == Following(one, back, rest)
           head == <<one.state>> \o (IF back = one.state THEN <<>> ELSE <<back>>)
<1>1. t.writes = head \o rest.writes /\ t.targets = rest.targets
  <2> HIDE DEF head
  <2>1. t = [rest EXCEPT !.writes = head \o @]
    BY DEF Following, head
  <2> HIDE DEF t
  <2> QED BY <2>1
<1>2. head \in Seq(State) /\ Len(head) \in 1..2
  OBVIOUS
<1> HIDE DEF head, t
<1>3. rest.writes \in Seq(State) /\ Len(rest.writes) > 0
  BY DEF Finishing
<1>4. /\ head \o rest.writes \in Seq(State)
      /\ Len(head \o rest.writes) = Len(head) + Len(rest.writes)
      /\ (head \o rest.writes)[Len(head) + Len(rest.writes)] = rest.writes[Len(rest.writes)]
  BY <1>2, <1>3
<1>5. t.writes \in Seq(State) /\ Len(t.writes) > 0
      /\ t.writes[Len(t.writes)] = rest.writes[Len(rest.writes)]
  BY <1>1, <1>2, <1>3, <1>4
<1>6. \A k \in 1..Len(t.writes) : Owing(t.writes[k])
  BY NothingLeft
<1>7. Finishing(t)
  BY <1>1, <1>5, <1>6 DEF Finishing
<1> QED BY <1>7 DEF t

\* A failed order left something, or the SELL would be finished.
LEMMA FailedIsUnsold ==
  ASSUME FinishedSell, NEW c \in Codes, Sold(c, "SELL") = <<>> \/ Failed(c, "SELL")
  PROVE  Sold(c, "SELL") = <<>> \/ Unsold(c)
BY DEF Failed, FinishedSell

\* A SELL of the automatic route still owes what is left.
LEMMA SellOwes ==
  ASSUME Inv, SellInv, route = "auto", NEW sn \in Snapshots, NEW given \in Plain \cup {None},
         Sells(given)
  PROVE  LET r == Resolved(exec, "SELL", sn, given, None) IN
         Owing(r.state) /\ Aimed(r.state, r.targets)
<1> DEFINE r == Resolved(exec, "SELL", sn, given, None)
<1>1. Typed /\ Owing(exec) /\ FinishedSell
  BY DEF Inv, SellInv
<1>2. /\ r.state.phase = "SELL"
      /\ Aims(r.state, r.targets, first, late)
  BY <1>1, SellWritten
<1>3. /\ given = None => \A c \in Codes : exec.frozen[c] # None
                                               => r.state.frozen[c] = exec.frozen[c]
      /\ \A c \in DOMAIN r.targets :
              /\ r.targets[c] < shares[c] => r.targets[c] = r.state.frozen[c]
              /\ Sold(c, "SELL") = <<>> \/ Failed(c, "SELL")
  BY <1>1, ResolvedSell
<1> HIDE DEF r
<1>4. Aimed(r.state, r.targets)
  <2>1. \A c \in DOMAIN r.targets : c \in Codes
    BY <1>2 DEF Aims
  <2> QED BY <1>1, <1>3, <2>1, FailedIsUnsold DEF Aimed
<1>5. Owing(r.state)
  <2>1. CASE given = None
    BY <1>1, <1>2, <1>3, <2>1 DEF Owing
  <2>2. CASE given # None
    <3>1. exec.phase = "BUY"
      BY <2>2 DEF Sells
    <3>2. \A x \in Codes : ~Unsold(x)
      BY <1>1, <3>1 DEF Owing
    <3> QED BY <3>2, NothingLeft
  <2> QED BY <2>1, <2>2
<1> QED BY <1>4, <1>5 DEF r

\* Whatever the snapshot, each write of a tick owes what is left to sell; it goes on
\* to a BUY only when that is nothing.
LEMMA TurnFinishes ==
  ASSUME Inv, SellInv, route = "auto", Ready, NEW sn \in Snapshots
  PROVE  Finishing(Turn(sn))
<1>0. /\ Typed /\ exec \in State /\ None \in Plain \cup {None} /\ None \in (SUBSET Rows) \cup {None}
      /\ "BUY" \in Phases /\ "SELL" \in Phases /\ Owing(exec)
  BY DEF Inv, SellInv, Typed, Phases
<1>1. exec.day = day => exec.phase \in Phases
  BY <1>0 DEF Ready, State
<1>2. exec.day = day /\ exec.phase = "BUY" => SoundBuy(exec, first, late)
  BY DEF Inv, Sound, SoundSell
<1>3. exec.day = day /\ exec.phase = "SELL" => SoundSell(exec, first, late)
  BY DEF Inv, Sound, SoundBuy
<1>4. exec.day # day => first = Nothing /\ \A c \in Codes : \A ph \in Phases : Sold(c, ph) = <<>>
  BY DEF Inv
<1>5. CASE exec.day = day /\ exec.phase = "BUY" /\ exec.defer = {}
  <2> DEFINE one == Resolved(exec, "BUY", sn, None, None)
  <2>1. Turn(sn) = Continued(sn, one)
    BY <1>5 DEF Turn, Opening
  <2>2. one.state \in State /\ one.state.phase = "BUY"
    BY <1>0, ResolvedIs
  <2> HIDE DEF one
  <2>3. Continued(sn, one) = Ending(one)
    BY <2>2 DEF Continued
  <2>4. Owing(one.state)
    <3>1. \A x \in Codes : ~Unsold(x)
      BY <1>0, <1>5 DEF Owing
    <3> QED BY <3>1, NothingLeft
  <2> QED BY <1>0, <2>1, <2>2, <2>3, <2>4, EndingFinishes
<1>6. CASE ~(exec.day = day /\ exec.phase = "BUY" /\ exec.defer = {})
  <2>1. PICK given \in Plain \cup {None} :
           /\ Opening(sn) = Resolved(exec, "SELL", sn, given, None)
           /\ Sells(given)
    <3>1. CASE exec.day = day /\ exec.phase = "BUY"
      <4>1. exec.resume = None
        BY <1>2, <3>1 DEF SoundBuy
      <4>2. exec \in Plain
        BY <1>0, <4>1 DEF State, Plain
      <4>3. Opening(sn) = Resolved(exec, "SELL", sn, exec, None)
        BY <1>6, <3>1 DEF Opening
      <4> QED BY <1>2, <3>1, <4>2, <4>3 DEF Sells
    <3>2. CASE exec.day = day /\ exec.phase = "SELL"
      <4>1. Opening(sn) = Resolved(exec, "SELL", sn, None, None)
        BY <3>2 DEF Opening
      <4> QED BY <1>3, <3>2, <4>1 DEF Sells
    <3>3. CASE exec.day # day
      <4>1. Opening(sn) = Resolved(exec, "SELL", sn, None, None)
        BY <3>3 DEF Opening
      <4> QED BY <1>4, <3>3, <4>1 DEF Sells
    <3> QED BY <1>1, <3>1, <3>2, <3>3 DEF Phases
  <2> DEFINE one == Opening(sn)
             e == one.state
  <2>2. e \in State /\ e.phase = "SELL" /\ SoundSell(e, first, late)
    BY <1>0, <2>1, SellWritten
  <2>3. Owing(e) /\ Aimed(e, one.targets)
    BY <2>1, SellOwes
  <2> HIDE DEF one, e
  <2>4. CASE Continued(sn, one) = Ending(one)
    <3>1. Finishing(Ending(one))
      BY <1>0, <2>2, <2>3, EndingFinishes DEF e
    <3> QED BY <2>4, <3>1 DEF Turn, one
  <2>5. CASE Continued(sn, one) # Ending(one)
    <3> DEFINE back == Restored(e)
               end == Resolved(back, "BUY", sn, None, Deferred(one))
    <3>1. Continued(sn, one) = Following(one, back, Ending(end)) /\ ~Waits(e)
      BY <2>5 DEF Continued, e
    <3>2. \A x \in Codes : ~Unsold(x)
      <4>1. ASSUME NEW x \in Codes, Unsold(x) PROVE FALSE
        <5>1. e.frozen[x] # None /\ Left(x) > 0 /\ shares[x] - e.frozen[x] = Left(x)
          BY <2>3, <4>1 DEF Owing
        <5>2. shares[x] \in Int /\ e.frozen[x] \in Int
          <6>1. e.frozen \in Amounts /\ shares \in [Codes -> Qtys]
            BY <1>0, <2>2 DEF State, Typed
          <6> QED BY <5>1, <6>1 DEF Amounts, Qtys
        <5>3. shares[x] > e.frozen[x]
          BY <5>1, <5>2
        <5> QED BY <3>1, <5>1, <5>3 DEF Waits
      <4> QED BY <4>1
    <3>3. back \in State
      BY <2>2, NoneIs DEF Restored, State
    <3>4. Deferred(one) \in (SUBSET Rows) \cup {None}
      <4>1. one.skipped \in SUBSET Rows
        BY <1>0, <2>1, SellWritten DEF one
      <4> QED BY <4>1 DEF Deferred
    <3> HIDE DEF back
    <3>5. end.state \in State /\ end.state.phase = "BUY"
      BY <1>0, <3>3, <3>4, ResolvedIs
    <3> HIDE DEF end
    <3>6. Finishing(Ending(end))
      BY <1>0, <3>2, <3>5, NothingLeft, EndingFinishes
    <3>7. Ending(end) = [writes |-> Ending(end).writes, targets |-> Ending(end).targets]
      BY DEF Ending
    <3>8. Finishing(Following(one, back, Ending(end)))
      BY <2>2, <3>2, <3>3, <3>6, <3>7, FollowingFinishes DEF e
    <3> QED BY <3>1, <3>8 DEF Turn, one
  <2> QED BY <2>4, <2>5
<1> QED BY <1>5, <1>6

\* A write of best_execution by a tick.
LEMMA SellTick == Inv /\ SellInv /\ Tick => SellInv'
<1> SUFFICES ASSUME Inv, SellInv, Tick, route' = "auto" PROVE SellInv'
  BY DEF SellInv
<1>1. PICK t \in {Turn(sn) : sn \in Snapshots} : \E k \in DOMAIN t.writes :
       /\ Stored(t.writes[k])
       /\ todo' = IF k = Len(t.writes) THEN t.targets ELSE <<>>
  BY DEF Tick
<1>2. PICK k \in DOMAIN t.writes :
       /\ Stored(t.writes[k])
       /\ todo' = IF k = Len(t.writes) THEN t.targets ELSE <<>>
  BY <1>1
<1>3. Ready /\ route = "auto" /\ UNCHANGED <<route, day, weighted, shares, sent, pending>>
  BY DEF Tick
<1>4. Finishing(t)
  BY <1>3, TurnFinishes
<1>5. k \in 1..Len(t.writes)
  BY <1>4 DEF Finishing
<1> DEFINE e == t.writes[k]
<1>6. Owing(e) /\ (todo' # <<>> /\ e.phase = "SELL" => Aimed(e, todo'))
  BY <1>2, <1>4, <1>5 DEF Finishing
<1>7. exec' = e
  BY <1>2 DEF Stored
<1> HIDE DEF e
<1>8. Owing(exec)'
  BY <1>3, <1>6, <1>7 DEF Owing, Unsold, Left, Sold, Filled
<1>9. FinishedSell'
  BY <1>3 DEF SellInv, FinishedSell, Unsold, Sold, Filled
<1>10. exec'.phase = "SELL" => Aimed(exec, todo)'
  <2>1. CASE todo' = <<>>
    BY <2>1 DEF Aimed
  <2>2. CASE todo' # <<>>
    BY <1>3, <1>6, <1>7, <2>2 DEF Aimed, Unsold, Sold, Filled
  <2> QED BY <2>1, <2>2
<1>11. PendingSell'
  <2>1. pending' = None
    BY <1>3 DEF Ready
  <2> QED BY <2>1, NoneIs DEF PendingSell
<1> QED BY <1>8, <1>9, <1>10, <1>11 DEF SellInv

\* A tick that sends nothing.
LEMMA SellSendNone == Inv /\ SellInv /\ SendNone => SellInv'
<1> SUFFICES ASSUME Inv, SellInv, SendNone, route' = "auto" PROVE SellInv'
  BY DEF SellInv
<1>1. /\ todo' = <<>> /\ route = "auto"
      /\ UNCHANGED <<route, day, weighted, shares, exec, sent, pending, first, late>>
  BY DEF SendNone
<1>2. Owing(exec)'
  BY <1>1 DEF SellInv, Owing, Unsold, Left, Sold, Filled
<1>3. FinishedSell'
  BY <1>1 DEF SellInv, FinishedSell, Unsold, Sold, Filled
<1>4. Aimed(exec, todo)'
  BY <1>1 DEF Aimed
<1>5. PendingSell'
  BY <1>1 DEF SellInv, PendingSell, Unsold, Left, Sold, Filled
<1> QED BY <1>2, <1>3, <1>4, <1>5 DEF SellInv

\* The next signal has sold nothing yet.
LEMMA SellNewSignal == Inv /\ SellInv /\ NewSignal => SellInv'
<1> SUFFICES ASSUME Inv, SellInv, NewSignal PROVE SellInv'
  OBVIOUS
<1>1. /\ pending = None /\ todo = <<>>
      /\ sent' = [c \in Codes |-> [ph \in Phases |-> <<>>]]
      /\ UNCHANGED <<route, shares, exec, pending, todo>>
  BY DEF NewSignal
<1>2. \A x \in Codes : Sold(x, "SELL")' = <<>>
  BY <1>1 DEF Sold, Phases
<1>3. \A x \in Codes : ~Unsold(x)'
  BY <1>2 DEF Unsold
<1>4. Owing(exec)' /\ FinishedSell'
  BY <1>2, <1>3 DEF Owing, FinishedSell
<1>5. Aimed(exec, todo)'
  BY <1>1 DEF Aimed
<1>6. PendingSell'
  BY <1>1, NoneIs DEF PendingSell
<1> QED BY <1>4, <1>5, <1>6 DEF SellInv

\* The broker gets one order of the manifest: a SELL for what is left.
LEMMA SellSend == ASSUME NEW c \in Codes PROVE Inv /\ SellInv /\ Send(c) => SellInv'
<1> SUFFICES ASSUME Inv, SellInv, Send(c), route' = "auto" PROVE SellInv'
  BY DEF SellInv
<1>0. PICK ph : ph = exec.phase
  OBVIOUS
<1> DEFINE o == [side |-> IF todo[c] > shares[c] THEN "BUY" ELSE "SELL",
                qty |-> Size(todo[c] - shares[c]), fill |-> 0, st |-> "open"]
<1>1. /\ Typed /\ c \in DOMAIN todo /\ route = "auto"
      /\ IF ph = "SELL" THEN todo[c] <= shares[c] ELSE todo[c] >= shares[c]
      /\ sent' = [sent EXCEPT ![c][ph] = Append(@, o)]
      /\ pending' = <<c, ph>> /\ todo' = <<>>
      /\ UNCHANGED <<route, day, weighted, shares, exec, first, late>>
  BY <1>0 DEF Send, Inv
<1>2. /\ ph \in Phases /\ Aims(exec, todo, first, late)
      /\ Owing(exec) /\ FinishedSell /\ (ph = "SELL" => Aimed(exec, todo))
  <2>1. todo # <<>>
    BY <1>1
  <2> QED BY <1>0, <1>1, <2>1 DEF Inv, SellInv
<1>3. todo[c] \in Qtys /\ shares[c] \in Qtys /\ todo[c] # shares[c]
  BY <1>1, <1>2 DEF Aims, Typed
<1>4. Size(todo[c] - shares[c]) \in Qtys
      /\ (todo[c] < shares[c] => Size(todo[c] - shares[c]) = shares[c] - todo[c])
  BY <1>3, ConstantsAssumption DEF Size, Qtys
<1>5. /\ o \in Order /\ o.fill = 0
      /\ todo[c] < shares[c] => o.side = "SELL" /\ o.qty = shares[c] - todo[c]
  <2>1. 0 \in Qtys
    BY ConstantsAssumption DEF Qtys
  <2>2. ~(todo[c] > shares[c] /\ todo[c] < shares[c])
    BY <1>3 DEF Qtys
  <2> QED BY <1>4, <2>1, <2>2 DEF Order
<1> HIDE DEF o
<1>6. \A x \in Codes : \A p \in Phases :
        Sold(x, p) \in Seq(Order)
        /\ Sold(x, p)' = IF x = c /\ p = ph THEN Append(Sold(c, ph), o) ELSE Sold(x, p)
  <2>1. sent \in [Codes -> [Phases -> Seq(Order)]]
    BY <1>1 DEF Typed
  <2> QED BY <1>1, <1>2, <2>1 DEF Sold
<1>7. /\ Sold(c, ph)' # <<>> /\ Last(Sold(c, ph)') = o
      /\ Sold(c, ph)'[1] = IF Sold(c, ph) = <<>> THEN o ELSE Sold(c, ph)[1]
  <2>1. Sold(c, ph) \in Seq(Order) /\ Sold(c, ph)' = Append(Sold(c, ph), o)
    BY <1>2, <1>6
  <2>2. /\ Len(Append(Sold(c, ph), o)) = Len(Sold(c, ph)) + 1
        /\ Append(Sold(c, ph), o)[Len(Sold(c, ph)) + 1] = o
        /\ Append(Sold(c, ph), o)[1] = IF Sold(c, ph) = <<>> THEN o ELSE Sold(c, ph)[1]
    BY <1>5, <2>1
  <2>3. Append(Sold(c, ph), o) # <<>>
    BY <2>1, <2>2
  <2> QED BY <2>1, <2>2, <2>3 DEF Last
<1>8. \A x \in Codes : ~(x = c /\ ph = "SELL") => Sold(x, "SELL")' = Sold(x, "SELL")
  BY <1>6 DEF Phases
<1>9. \A x \in Codes : ~(x = c /\ ph = "SELL") =>
        /\ Unsold(x)' = Unsold(x) /\ Left(x)' = Left(x)
  BY <1>8 DEF Unsold, Left, Filled
<1>10. ph = "SELL" => /\ Unsold(c)' /\ Left(c)' > 0 /\ exec.frozen[c] # None
                      /\ shares[c] - exec.frozen[c] = Left(c)'
                      /\ o.side = "SELL" /\ o.qty = Left(c)'
  <2> SUFFICES ASSUME ph = "SELL" PROVE
                      /\ Unsold(c)' /\ Left(c)' > 0 /\ exec.frozen[c] # None
                      /\ shares[c] - exec.frozen[c] = Left(c)'
                      /\ o.side = "SELL" /\ o.qty = Left(c)'
    OBVIOUS
  <2>1. todo[c] < shares[c]
    BY <1>1, <1>3 DEF Qtys
  <2>2. todo[c] = exec.frozen[c] /\ (Sold(c, "SELL") = <<>> \/ Unsold(c))
    BY <1>1, <1>2, <2>1 DEF Aimed
  <2>3. exec.frozen[c] # None /\ o.side = "SELL" /\ o.qty = shares[c] - exec.frozen[c]
        /\ o.qty \in Int /\ o.qty > 0
    BY <1>3, <1>5, <2>1, <2>2, NoneIs DEF Qtys
  <2>4. Filled(c, "SELL")' = Filled(c, "SELL")
    <3>1. Sold(c, "SELL") \in Seq(Order) /\ Sold(c, "SELL")' = Append(Sold(c, "SELL"), o)
      BY <1>2, <1>6
    <3>2. FillsOf(Append(Sold(c, "SELL"), o)) = FillsOf(Sold(c, "SELL"))
      BY <1>5, <3>1, FillsAppend
    <3> QED BY <3>1, <3>2 DEF FillsOf, Filled
  <2>5. CASE Sold(c, "SELL") = <<>>
    <3>1. Filled(c, "SELL") = 0
      BY <2>5, FillsNone DEF Filled, FillsOf
    <3>2. Sold(c, "SELL")'[1] = o
      BY <1>7, <2>5
    <3>3. Left(c)' = o.qty
      BY <2>3, <2>4, <3>1, <3>2 DEF Left
    <3>4. Unsold(c)'
      BY <1>7, <2>3, <2>4, <3>1, <3>2 DEF Unsold
    <3> QED BY <2>3, <3>3, <3>4
  <2>6. CASE Sold(c, "SELL") # <<>>
    <3>1. Sold(c, "SELL")'[1] = Sold(c, "SELL")[1] /\ Sold(c, "SELL")' # <<>>
      BY <1>7, <2>6
    <3>2. Unsold(c)' /\ Left(c)' = Left(c)
      BY <2>2, <2>4, <2>6, <3>1 DEF Unsold, Left
    <3>3. Left(c) > 0 /\ shares[c] - exec.frozen[c] = Left(c)
      BY <1>2, <2>2, <2>6 DEF Owing
    <3> QED BY <2>3, <3>2, <3>3
  <2> QED BY <2>5, <2>6
<1>11. Owing(exec)'
  <2>1. ASSUME NEW x \in Codes, Unsold(x)'
        PROVE  /\ exec'.phase = "SELL" /\ exec'.frozen[x] # None
               /\ Left(x)' > 0 /\ shares'[x] - exec'.frozen[x] = Left(x)'
    <3>1. CASE x = c /\ ph = "SELL"
      BY <1>0, <1>1, <1>10, <3>1
    <3>2. CASE ~(x = c /\ ph = "SELL")
      <4>1. Unsold(x) /\ Left(x)' = Left(x)
        BY <1>9, <2>1, <3>2
      <4> QED BY <1>1, <1>2, <4>1 DEF Owing
    <3> QED BY <3>1, <3>2
  <2> QED BY <2>1 DEF Owing
<1>12. FinishedSell'
  <2>1. ASSUME NEW x \in Codes, Sold(x, "SELL")' # <<>>, ~Unsold(x)'
        PROVE  Last(Sold(x, "SELL"))'.st = "filled"
    <3>1. ~(x = c /\ ph = "SELL")
      BY <1>10, <2>1
    <3>2. Sold(x, "SELL")' = Sold(x, "SELL") /\ ~Unsold(x)
      BY <1>8, <1>9, <2>1, <3>1
    <3> QED BY <1>2, <2>1, <3>2 DEF FinishedSell, Last
  <2> QED BY <2>1 DEF FinishedSell
<1>13. Aimed(exec, todo)'
  BY <1>1 DEF Aimed
<1>14. PendingSell'
  <2>1. ASSUME NEW x \in Codes, NEW p \in Phases, pending' = <<x, p>>
        PROVE  /\ p = exec'.phase
               /\ Last(Sold(x, p))'.fill = 0
               /\ p = "SELL" => /\ Unsold(x)'
                    /\ Last(Sold(x, p))'.side = "SELL" /\ Last(Sold(x, p))'.qty = Left(x)'
    <3>1. x = c /\ p = ph
      BY <1>1, <2>1
    <3>2. Last(Sold(x, p))' = o
      BY <1>7, <3>1 DEF Last
    <3> QED BY <1>0, <1>1, <1>5, <1>10, <3>1, <3>2
  <2> QED BY <2>1 DEF PendingSell
<1> QED BY <1>11, <1>12, <1>13, <1>14 DEF SellInv

\* The last order of a code and phase is settled.
Settles(c, ph) == LET n == Len(Sold(c, ph)) o == Sold(c, ph)[n] IN
  \E f \in 0..o.qty, st \in {"filled", "failed", "dropped"} :
    /\ (st = "filled") = (f = o.qty)
    /\ sent' = [sent EXCEPT ![c][ph][n] = [o EXCEPT !.fill = f, !.st = st]]
    /\ shares' = [shares EXCEPT ![c] = IF o.side = "BUY" THEN @ + f ELSE @ - f]

\* That is what Settle does.
LEMMA SettleIs ==
  ASSUME Inv, Settle
  PROVE  \E c \in Codes, ph \in Phases : pending = <<c, ph>> /\ Settles(c, ph)
<1>1. pending[1] \in Codes /\ pending[2] \in Phases /\ pending = <<pending[1], pending[2]>>
  BY DEF Inv, Typed, Settle
<1>2. Settles(pending[1], pending[2])
  BY DEF Settle, Settles
<1> QED BY <1>1, <1>2

\* A later tick learns how much of the order was filled.
LEMMA SellSettle == Inv /\ SellInv /\ Settle => SellInv'
<1> SUFFICES ASSUME Inv, SellInv, Settle, route' = "auto" PROVE SellInv'
  BY DEF SellInv
<1>1. /\ Typed /\ OpenOrders /\ pending # None /\ pending' = None /\ route = "auto"
      /\ UNCHANGED <<route, day, weighted, exec, todo, first, late>>
  BY DEF Settle, Inv
<1>2. todo = <<>> /\ todo' = <<>> /\ Owing(exec) /\ FinishedSell /\ PendingSell
  BY <1>1 DEF Inv, SellInv
<1>3. PICK c \in Codes, ph \in Phases : pending = <<c, ph>> /\ Settles(c, ph)
  BY SettleIs
<1> DEFINE n == Len(Sold(c, ph))
           o == Sold(c, ph)[n]
<1>4. PICK f \in 0..o.qty, st \in {"filled", "failed", "dropped"} :
          /\ (st = "filled") = (f = o.qty)
          /\ sent' = [sent EXCEPT ![c][ph][n] = [o EXCEPT !.fill = f, !.st = st]]
          /\ shares' = [shares EXCEPT ![c] = IF o.side = "BUY" THEN @ + f ELSE @ - f]
  BY <1>3 DEF Settles
<1>5. \A x \in Codes : \A p \in Phases : Sold(x, p) \in Seq(Order)
  BY <1>1 DEF Typed, Sold
<1>6. Sold(c, ph) # <<>>
  BY <1>1, <1>3 DEF OpenOrders
<1>7. n \in 1..Len(Sold(c, ph)) /\ o = Last(Sold(c, ph)) /\ o \in Order
  BY <1>3, <1>5, <1>6 DEF Last
<1> DEFINE u == [o EXCEPT !.fill = f, !.st = st]
           s == [Sold(c, ph) EXCEPT ![n] = u]
<1>8. u \in Order /\ u.fill = f /\ u.st = st /\ u.qty = o.qty
  <2> HIDE DEF o
  <2>1. f \in Qtys
    BY <1>7, ConstantsAssumption DEF Order, Qtys
  <2> QED BY <1>7, <2>1 DEF Order
<1>9. /\ s # <<>> /\ Last(s) = u /\ s[1].qty = Sold(c, ph)[1].qty
      /\ FillsOf(s) = FillsOf(Sold(c, ph)) + f
  <2>1. /\ s \in Seq(Order) /\ Len(s) = n /\ s[n] = u
        /\ s[1] = (IF n = 1 THEN u ELSE Sold(c, ph)[1])
    <3> HIDE DEF u
    <3> QED BY <1>3, <1>5, <1>6, <1>7, <1>8
  <2>2. o.fill = 0
    BY <1>2, <1>3, <1>7 DEF PendingSell
  <2>3. FillsOf(s) = FillsOf(Sold(c, ph)) + u.fill
    <3>1. Sold(c, ph) \in Seq(Order) /\ Sold(c, ph)[Len(Sold(c, ph))].fill = 0
      BY <1>3, <1>5, <2>2
    <3> HIDE DEF u
    <3> QED BY <1>6, <1>8, <3>1, FillsSettled
  <2> HIDE DEF s, u
  <2>4. s # <<>> /\ Last(s) = u
    BY <1>7, <2>1 DEF Last
  <2>5. s[1].qty = Sold(c, ph)[1].qty
    BY <1>8, <2>1 DEF o
  <2> QED BY <1>8, <2>3, <2>4, <2>5
<1>10. sent' = [sent EXCEPT ![c][ph] = s]
  BY <1>4 DEF Sold
<1>11. shares \in [Codes -> Qtys]
       /\ shares' = [shares EXCEPT ![c] = IF o.side = "BUY" THEN @ + f ELSE @ - f]
  BY <1>1, <1>4 DEF Typed
<1>12. f \in Nat /\ o.qty \in Nat /\ f <= o.qty
  BY <1>7 DEF Order, Qtys
<1> HIDE DEF s, u, n, o
<1>13. sent \in [Codes -> [Phases -> Seq(Order)]]
  BY <1>1 DEF Typed
<1>14. \A x \in Codes : \A p \in Phases :
         Sold(x, p)' = IF x = c /\ p = ph THEN s ELSE Sold(x, p)
  BY <1>3, <1>10, <1>13 DEF Sold
<1>15. \A x \in Codes : ~(x = c /\ ph = "SELL") => Sold(x, "SELL")' = Sold(x, "SELL")
  BY <1>14 DEF Phases
<1>16. \A x \in Codes : ~(x = c /\ ph = "SELL") =>
        /\ Unsold(x)' = Unsold(x) /\ Left(x)' = Left(x)
  BY <1>15 DEF Unsold, Left, Filled
<1>17. ph = exec.phase /\ (ph = "SELL" => Unsold(c) /\ o.side = "SELL" /\ o.qty = Left(c))
  BY <1>2, <1>3, <1>7 DEF PendingSell
<1>18. ph = "SELL" =>
         /\ Sold(c, "SELL")' = s /\ Left(c)' = Left(c) - f
         /\ Left(c) > 0 /\ exec.frozen[c] # None /\ shares[c] - exec.frozen[c] = Left(c)
         /\ Left(c) \in Int /\ shares[c] \in Int /\ exec.frozen[c] \in Int
         /\ Unsold(c)' = (f # o.qty)
  <2> SUFFICES ASSUME ph = "SELL" PROVE
         /\ Sold(c, "SELL")' = s /\ Left(c)' = Left(c) - f
         /\ Left(c) > 0 /\ exec.frozen[c] # None /\ shares[c] - exec.frozen[c] = Left(c)
         /\ Left(c) \in Int /\ shares[c] \in Int /\ exec.frozen[c] \in Int
         /\ Unsold(c)' = (f # o.qty)
    OBVIOUS
  <2>1. Sold(c, "SELL")' = s
    BY <1>3, <1>14
  <2>2. Left(c) > 0 /\ exec.frozen[c] # None /\ shares[c] - exec.frozen[c] = Left(c)
    BY <1>2, <1>3, <1>17 DEF Owing
  <2>3. shares[c] \in Int /\ exec.frozen[c] \in Int
    <3>1. exec.frozen \in Amounts
      BY <1>1 DEF Typed, State
    <3> QED BY <1>3, <1>11, <2>2, <3>1 DEF Amounts, Qtys
  <2>4. Left(c) \in Int
    BY <2>2, <2>3
  <2>5. Filled(c, "SELL")' = Filled(c, "SELL") + f
    BY <1>9, <2>1 DEF Filled, FillsOf
  <2>6. Filled(c, "SELL") \in Int /\ Sold(c, "SELL")[1].qty \in Int
    <3>1. Sold(c, "SELL") \in Seq(Order)
      BY <1>3, <1>5
    <3>2. FillsOf(Sold(c, "SELL")) \in Nat
      BY <3>1, FillsNat
    <3>3. Sold(c, "SELL")[1] \in Order
      BY <1>6, <3>1
    <3> QED BY <3>2, <3>3 DEF Filled, FillsOf, Order, Qtys
  <2>7. Left(c)' = Left(c) - f
    BY <1>9, <1>12, <2>1, <2>5, <2>6 DEF Left
  <2>8. Unsold(c)' = (f # o.qty)
    <3>1. Unsold(c)' = (Filled(c, "SELL") + f # Sold(c, "SELL")[1].qty)
      BY <1>9, <2>1, <2>5 DEF Unsold
    <3>2. o.qty = Sold(c, "SELL")[1].qty - Filled(c, "SELL")
      BY <1>17 DEF Left
    <3>3. (Filled(c, "SELL") + f # Sold(c, "SELL")[1].qty) = (f # o.qty)
      BY <1>12, <2>6, <3>2
    <3> QED BY <3>1, <3>3
  <2> QED BY <2>1, <2>2, <2>3, <2>4, <2>7, <2>8
<1>19. Owing(exec)'
  <2>1. ASSUME NEW x \in Codes, Unsold(x)'
        PROVE  /\ exec'.phase = "SELL" /\ exec'.frozen[x] # None
               /\ Left(x)' > 0 /\ shares'[x] - exec'.frozen[x] = Left(x)'
    <3>1. CASE x = c /\ ph = "SELL"
      <4>1. f # o.qty /\ Left(c)' = Left(c) - f /\ o.qty = Left(c) /\ o.side = "SELL"
        BY <1>17, <1>18, <2>1, <3>1
      <4>2. shares'[c] = shares[c] - f
        BY <1>3, <1>11, <4>1
      <4>3. Left(c)' > 0 /\ shares'[c] - exec.frozen[c] = Left(c)'
        BY <1>12, <1>18, <3>1, <4>1, <4>2
      <4> QED BY <1>1, <1>17, <1>18, <3>1, <4>3
    <3>2. CASE ~(x = c /\ ph = "SELL")
      <4>1. Unsold(x) /\ Left(x)' = Left(x)
        BY <1>16, <2>1, <3>2
      <4>2. exec.phase = "SELL"
        BY <1>2, <4>1 DEF Owing
      <4>3. shares'[x] = shares[x]
        BY <1>11, <1>17, <3>2, <4>2
      <4> QED BY <1>1, <1>2, <4>1, <4>3 DEF Owing
    <3> QED BY <3>1, <3>2
  <2> QED BY <2>1 DEF Owing
<1>20. FinishedSell'
  <2>1. ASSUME NEW x \in Codes, Sold(x, "SELL")' # <<>>, ~Unsold(x)'
        PROVE  Last(Sold(x, "SELL"))'.st = "filled"
    <3>1. CASE x = c /\ ph = "SELL"
      <4>1. f = o.qty /\ Sold(x, "SELL")' = s
        BY <1>18, <2>1, <3>1
      <4>2. Last(Sold(x, "SELL"))' = u
        BY <1>9, <4>1 DEF Last
      <4> QED BY <1>4, <1>8, <4>1, <4>2 DEF o
    <3>2. CASE ~(x = c /\ ph = "SELL")
      <4>1. Sold(x, "SELL")' = Sold(x, "SELL") /\ ~Unsold(x)
        BY <1>15, <1>16, <2>1, <3>2
      <4> QED BY <1>2, <2>1, <4>1 DEF FinishedSell, Last
    <3> QED BY <3>1, <3>2
  <2> QED BY <2>1 DEF FinishedSell
<1>21. Aimed(exec, todo)'
  BY <1>2 DEF Aimed
<1>22. PendingSell'
  BY <1>1, NoneIs DEF PendingSell
<1> QED BY <1>19, <1>20, <1>21, <1>22 DEF SellInv

\* Nothing is sold at the beginning.
LEMMA SellInit == Init => SellInv
<1> SUFFICES ASSUME Init PROVE SellInv
  OBVIOUS
<1>1. \A x \in Codes : Sold(x, "SELL") = <<>>
  BY DEF Init, Sold, Phases
<1>2. Owing(exec) /\ FinishedSell
  BY <1>1 DEF Owing, FinishedSell, Unsold
<1>3. Aimed(exec, todo) /\ PendingSell
  BY NoneIs DEF Init, Aimed, PendingSell
<1> QED BY <1>2, <1>3 DEF SellInv

\* No step lets a BUY begin with something unsold.
LEMMA SellStep == Inv /\ SellInv /\ [Next]_vars => SellInv'
<1> SUFFICES ASSUME Inv, SellInv, [Next]_vars PROVE SellInv'
  OBVIOUS
<1>1. CASE Tick
  BY <1>1, SellTick
<1>2. CASE FixWhole \/ WorkWhole \/ EndWhole
  <2>1. route' # "auto"
    BY <1>2 DEF FixWhole, WorkWhole, EndWhole
  <2> QED BY <2>1 DEF SellInv
<1>3. CASE \E c \in Codes : Send(c)
  BY <1>3, SellSend
<1>4. CASE SendNone
  BY <1>4, SellSendNone
<1>5. CASE Settle
  BY <1>5, SellSettle
<1>6. CASE NewSignal
  BY <1>6, SellNewSignal
<1>7. CASE UNCHANGED vars
  <2>1. UNCHANGED <<route, day, weighted, shares, exec, sent, pending, todo, first, late>>
    BY <1>7 DEF vars
  <2>2. Owing(exec) = Owing(exec)' /\ FinishedSell = FinishedSell'
    BY <2>1 DEF Owing, FinishedSell, Unsold, Left, Sold, Filled
  <2>3. Aimed(exec, todo) = Aimed(exec, todo)' /\ PendingSell = PendingSell'
    BY <2>1 DEF Aimed, PendingSell, Unsold, Left, Sold, Filled
  <2> QED BY <2>1, <2>2, <2>3 DEF SellInv
<1> QED BY <1>1, <1>2, <1>3, <1>4, <1>5, <1>6, <1>7 DEF Next

\* SellsFinishFirst: on the automatic route no BUY is sent while a SELL order of the
\* signal has left a part of its target unsold.  The argument: the target a SELL was
\* resolved for stays in resolved_sell_targets through every retry and crash, what is
\* left unsold is the way from the shares to it, and a tick that finds such a way does
\* not go on to the BUY (Waits).
THEOREM SellsAlwaysFinishFirst == Spec => SellsFinishFirst
<1> DEFINE A == \A c \in Codes :
       route = "auto" /\ Len(sent'[c]["BUY"]) > Len(Sold(c, "BUY")) =>
         \A x \in Codes : Sold(x, "SELL") # <<>> =>
                            Filled(x, "SELL") = Sold(x, "SELL")[1].qty
<1>1. Inv /\ SellInv /\ [Next]_vars => [A]_vars
  <2> SUFFICES ASSUME Inv, SellInv, Next, NEW c \in Codes, route = "auto",
                      Len(sent'[c]["BUY"]) > Len(Sold(c, "BUY")),
                      NEW x \in Codes, Sold(x, "SELL") # <<>>
               PROVE  Filled(x, "SELL") = Sold(x, "SELL")[1].qty
    OBVIOUS
  <2>1. sent \in [Codes -> [Phases -> Seq(Order)]] /\ "BUY" \in Phases
    BY DEF Inv, Typed, Phases
  <2>2. Sold(c, "BUY") \in Seq(Order) /\ Len(Sold(c, "BUY")) \in Nat
    BY <2>1 DEF Sold
  <2>3. ASSUME sent' = sent PROVE FALSE
    BY <2>2, <2>3 DEF Sold
  <2>4. ~(Tick \/ FixWhole \/ WorkWhole \/ EndWhole \/ SendNone)
    BY <2>3 DEF Tick, FixWhole, WorkWhole, EndWhole, SendNone
  <2>5. ~NewSignal
    <3>1. NewSignal => Len(sent'[c]["BUY"]) = 0
      BY <2>1 DEF NewSignal
    <3> QED BY <2>2, <3>1
  <2>6. ~Settle
    <3>1. SUFFICES ASSUME Settle PROVE FALSE
      OBVIOUS
    <3>2. PICK d \in Codes, p \in Phases : \E n, u : sent' = [sent EXCEPT ![d][p][n] = u]
      <4>1. PICK d \in Codes, p \in Phases : Settles(d, p)
        BY <3>1, SettleIs
      <4>2. \E n, u : sent' = [sent EXCEPT ![d][p][n] = u]
        BY <4>1 DEF Settles
      <4> QED BY <4>2
    <3>3. PICK n, u : sent' = [sent EXCEPT ![d][p][n] = u]
      BY <3>2
    <3>4. Len([sent[d][p] EXCEPT ![n] = u]) = Len(sent[d][p])
      BY <2>1
    <3>5. sent'[c]["BUY"] = IF c = d /\ p = "BUY" THEN [sent[d][p] EXCEPT ![n] = u] ELSE sent[c]["BUY"]
      BY <2>1, <3>3
    <3> QED BY <2>2, <3>4, <3>5 DEF Sold
  <2>7. PICK d \in Codes : Send(d)
    BY <2>4, <2>5, <2>6 DEF Next
  <2>8. exec.phase = "BUY"
    <3>1. exec.phase # "BUY" => sent'[c]["BUY"] = sent[c]["BUY"]
      BY <2>1, <2>7 DEF Send
    <3> QED BY <2>2, <3>1 DEF Sold
  <2>9. ~Unsold(x)
    BY <2>8 DEF SellInv, Owing
  <2> QED BY <2>9 DEF Unsold
<1>2. Spec => []SellInv
  BY SellInit, SellStep, InvHolds, PTL DEF Spec
<1> QED BY <1>1, <1>2, InvHolds, PTL DEF Spec, SellsFinishFirst

-----------------------------------------------------------------------------
\* 6. Nothing is forgotten.

\* An order of the code ended short.
FellShort(c) == \E ph \in Phases : \E k \in DOMAIN Sold(c, ph) :
                  Sold(c, ph)[k].st \in {"failed", "dropped"}

\* What a BUY state knows: only codes of the plan have a quantity, a code that is
\* processed has one or a resolved SELL, what was bought is held, no quantity is
\* resolved while the SELL waits, and on the partial route whatever is held outside
\* the plan is among those SELLs; but for orders that ended short or are pending.
Kept(e) ==
  /\ route # "auto" => e.frozen = Nothing
  /\ \A c \in Codes : e.qty[c] # None => c \in weighted /\ e.frozen[c] = None
  /\ \A c \in e.done : e.qty[c] # None \/ e.frozen[c] # None
  /\ \A c \in Codes : /\ e.qty[c] # None /\ ~FellShort(c) /\ pending # <<c, "BUY">>
                      /\ c \in e.done \/ Sold(c, "BUY") # <<>>
                      => shares[c] = e.qty[c]
  /\ \A c \in Codes : c \in RowCodes(e.defer) => e.qty[c] = None \/ FellShort(c)
  /\ route = "partial" => \A c \in Codes \ weighted :
       shares[c] > 0 => c \in RowCodes(e.defer) \/ FellShort(c)

\* What a SELL state knows: it covers every code, or the deferred ones of the BUY it
\* interrupted, and on the partial route it sells all that is outside the plan.
SellKept(e) ==
  /\ e.defer = {} /\ e.short = {}
  /\ e.scope = IF e.resume = None THEN Codes ELSE RowCodes(e.resume.defer)
  /\ e.resume # None => Kept(e.resume)
  /\ route = "partial" => \A c \in Codes \ weighted :
       /\ e.qty[c] \in {None, 0}
       /\ c \in e.done => shares[c] = 0 \/ FellShort(c)

\* Where the targets of a manifest lead.
Goes(e, targets) == \A c \in DOMAIN targets :
  /\ e.phase = "BUY" => targets[c] = e.qty[c] \/ FellShort(c)
  /\ e.phase = "SELL" => /\ c \in e.scope
                         /\ route = "partial" /\ c \notin weighted => targets[c] = 0

\* Where a pending order leads.
Leads(o, c) ==
  /\ exec.phase = "BUY" =>
       \/ FellShort(c)
       \/ exec.qty[c] = IF o.side = "BUY" THEN shares[c] + o.qty ELSE shares[c] - o.qty
  /\ exec.phase = "SELL" =>
       /\ c \in exec.scope
       /\ route = "partial" /\ c \notin weighted => o.side = "SELL" /\ shares[c] = o.qty
Coming == \A c \in Codes : \A ph \in Phases : pending = <<c, ph>> =>
  ph = exec.phase /\ Last(Sold(c, ph)).st = "open" /\ (route # "whole" => Leads(Last(Sold(c, ph)), c))

\* What is asked of a state that is reported as executed.
Complete(e) ==
  /\ \A c \in weighted : e.qty[c] # None \/ e.frozen[c] # None
  /\ \A c \in Codes : \/ e.qty[c] # None /\ shares[c] # e.qty[c]
                      \/ route = "partial" /\ c \notin weighted /\ shares[c] > 0
                      => route # "whole" /\ FellShort(c)

\* Inductive, with Inv.
PlanKept == exec.day = day /\ route # "whole" =>
  /\ IF exec.phase = "SELL" THEN SellKept(exec) ELSE Kept(exec)
  /\ Goes(exec, todo)
WholeKept == exec.day = day /\ route = "whole" /\ exec.phase # "SELL" => \A c \in Codes :
  IF c \in weighted THEN exec.qty[c] # None
  ELSE IF exec.qty[c] = None THEN shares[c] = 0 ELSE exec.qty[c] = 0
ForgetInv ==
  /\ \A c \in Codes : Sold(c, "BUY") # <<>> => first[c] # None
  /\ route = "partial" => \A c \in Codes \ weighted :
       Sold(c, "SELL") # <<>> /\ ~FellShort(c) /\ pending # <<c, "SELL">> => shares[c] = 0
  /\ PlanKept
  /\ WholeKept
  /\ Coming
  /\ Done("EXECUTED") => Complete(exec)

\* A failed order is one that ended short.
LEMMA FailedFellShort ==
  ASSUME Typed, NEW c \in Codes, NEW ph \in Phases, Failed(c, ph)
  PROVE  FellShort(c)
<1>1. Sold(c, ph) \in Seq(Order) /\ Sold(c, ph) # <<>>
  BY DEF Typed, Sold, Failed
<1>2. Len(Sold(c, ph)) \in DOMAIN Sold(c, ph)
  BY <1>1
<1>3. Sold(c, ph)[Len(Sold(c, ph))].st = "failed"
  BY DEF Failed, Last
<1> QED BY <1>2, <1>3 DEF FellShort

\* Where the codes of a phase may stand.
Stands(at, b, ph, sn, again) ==
  /\ b.codes \subseteq at.waiting \cup at.unquoted \cup at.fin \cup at.open
  /\ \A c \in at.behind : c \in at.waiting /\ ph = "BUY" /\ b.frozen[c] # None
  /\ \A c \in at.waiting : c \in again \/ c \in at.behind
  /\ at.retry \subseteq again
  /\ \A c \in at.unquoted : c \in b.codes /\ sn.want[c] = None
  /\ \A c \in at.fin : /\ c \in b.codes
                       /\ \/ ph = "BUY" /\ b.frozen[c] # None
                          \/ Sold(c, ph) # <<>>
                          \/ c \in b.prev.done
  /\ \A c \in at.open : /\ c \in b.codes /\ sn.want[c] # None
                        /\ ph = "BUY" => b.frozen[c] = None

\* They do stand there.
LEMMA StandingStands ==
  ASSUME NEW b, NEW ph, NEW sn, NEW again \in SUBSET b.codes
  PROVE  Stands(Standing(b, ph, sn, again), b, ph, sn, again)
<1> DEFINE at == Standing(b, ph, sn, again)
<1>1. b.codes \subseteq at.waiting \cup at.unquoted \cup at.fin \cup at.open
  BY DEF Standing
<1>2. \A c \in at.behind : c \in at.waiting /\ ph = "BUY" /\ b.frozen[c] # None
  BY DEF Standing, Reduced
<1>3. \A c \in at.waiting : c \in again \/ c \in at.behind
  BY DEF Standing
<1>4. at.retry \subseteq again
  BY DEF Standing
<1>5. \A c \in at.unquoted : c \in b.codes /\ sn.want[c] = None
  BY DEF Standing
<1>6. \A c \in at.fin : /\ c \in b.codes
                        /\ \/ ph = "BUY" /\ b.frozen[c] # None
                           \/ Sold(c, ph) # <<>>
                           \/ c \in b.prev.done
  BY DEF Standing, Reduced
<1>7. \A c \in at.open : c \in b.codes /\ sn.want[c] # None /\ (ph = "BUY" => b.frozen[c] = None)
  BY DEF Standing, Reduced
<1> HIDE DEF at
<1>8. Stands(at, b, ph, sn, again)
  BY <1>1, <1>2, <1>3, <1>4, <1>5, <1>6, <1>7 DEF Stands
<1> QED BY <1>8 DEF at

\* What a BUY starts with, and with which rows.
BuyKept(b) ==
  /\ route # "auto" => b.frozen = Nothing
  /\ \A c \in Codes : b.qty[c] # None => c \in weighted /\ b.frozen[c] = None
  /\ \A c \in b.prev.done : b.qty[c] # None \/ b.frozen[c] # None
  /\ \A c \in Codes : Sold(c, "BUY") # <<>> => b.qty[c] # None
  /\ \A c \in Codes : /\ b.qty[c] # None /\ ~FellShort(c)
                      /\ c \in b.prev.done \/ Sold(c, "BUY") # <<>>
                      => shares[c] = b.qty[c]
RowsKept(b, sn, rows) ==
  /\ \A c \in RowCodes(rows) : FellShort(c) \/ (sn.want[c] = None /\ b.qty[c] = None)
  /\ route = "partial" => \A c \in Codes \ weighted :
       shares[c] > 0 => c \in RowCodes(rows) \/ FellShort(c)

\* A state that knows it and has processed the plan is complete.
LEMMA KeptIsComplete ==
  ASSUME Typed, NEW e, Kept(e), weighted \subseteq e.done, e.defer = {}, pending = None,
         route # "whole"
  PROVE  Complete(e)
<1>1. \A c \in weighted : e.qty[c] # None \/ e.frozen[c] # None
  BY DEF Kept
<1>2. \A c \in Codes : e.qty[c] # None /\ shares[c] # e.qty[c] => FellShort(c)
  <2>1. \A c \in Codes : pending # <<c, "BUY">>
    BY NoneIs DEF Phases
  <2> QED BY <2>1 DEF Kept
<1>3. RowCodes(e.defer) = {}
  BY DEF RowCodes
<1>4. \A c \in Codes : route = "partial" /\ c \notin weighted /\ shares[c] > 0 => FellShort(c)
  BY <1>3 DEF Kept
<1> QED BY <1>1, <1>2, <1>4 DEF Complete

\* What a BUY resolves keeps it.
BuyLeaves(r) ==
  /\ Kept(r.state)
  /\ Goes(r.state, r.targets)
  /\ r.skipped = {} /\ r.targets = <<>> => Complete(r.state)
LEMMA OutcomeBuy ==
  ASSUME Typed, pending = None, route # "whole", NEW b, Ground(b), b.codes = weighted, BuyKept(b),
         NEW sn \in Snapshots, NEW rows \in SUBSET Rows, RowsKept(b, sn, rows),
         NEW at, at.open \in SUBSET b.codes, at.behind \in SUBSET Codes,
         NEW again, \A c \in again : FellShort(c), Stands(at, b, "BUY", sn, again)
  PROVE  BuyLeaves(Outcome(b, "BUY", sn, rows, at))
<1> DEFINE fixed  == [c \in Codes |->
                  IF c \notin at.open \/ b.qty[c] # None THEN b.qty[c]
                  ELSE IF "BUY" = "SELL" THEN Least(sn.want[c], shares[c])
                  ELSE Most(shares[c], Least(sn.want[c], shares[c] + sn.cash[c]))]
           target == [c \in at.open |->
                  IF "BUY" = "BUY" /\ c \in at.retry THEN Retarget(c, fixed[c], sn) ELSE fixed[c]]
           go     == {c \in at.open : target[c] # shares[c]}
           short  == b.prev.short \cup
                {c \in at.open : "BUY" = "BUY" /\ b.qty[c] = None /\ sn.want[c] > fixed[c]}
           put    == {<<c, "wait">> : c \in {x \in at.behind : \A r \in rows : r[1] # x}}
           done   == (b.prev.done \ (at.waiting \cup at.retry)) \cup at.fin \cup (at.open \ go)
           r == Outcome(b, "BUY", sn, rows, at)
           e == r.state
<1>1. /\ e.phase = "BUY" /\ e.qty = fixed /\ e.done = done /\ e.defer = rows \cup put
      /\ e.frozen = b.frozen
      /\ r.targets = [c \in go |-> target[c]]
      /\ rows \subseteq r.skipped
      /\ \A c \in at.waiting \cup at.unquoted : <<c, "wait">> \in r.skipped
  BY DEF Outcome
<1> HIDE DEF e, r
<1>2. at.open \in SUBSET Codes /\ b.qty \in Amounts /\ b.frozen \in Amounts
  BY DEF Ground
<1>3. ASSUME NEW c \in at.open PROVE fixed[c] # None
  <2>1. c \in Codes /\ b.qty[c] \in Qtys \cup {None}
    BY <1>2 DEF Amounts
  <2>2. sn.want[c] \in Qtys /\ shares[c] \in Qtys /\ sn.cash[c] \in Qtys
    BY <2>1, SnapshotIs DEF Typed, Stands
  <2>3. Most(shares[c], Least(sn.want[c], shares[c] + sn.cash[c])) \in Qtys
    BY <2>2, ConstantsAssumption DEF Least, Most, Qtys
  <2> QED BY <2>1, <2>3, NoneIs
<1>4. \A c \in Codes : b.qty[c] # None \/ c \notin at.open => fixed[c] = b.qty[c]
  OBVIOUS
<1> HIDE DEF fixed
<1>5. \A c \in at.open : c \notin at.retry => target[c] = fixed[c]
  OBVIOUS
<1> HIDE DEF target
<1>6. \A c \in done : b.qty[c] # None \/ b.frozen[c] # None \/ (c \in at.open /\ target[c] = shares[c])
  <2>1. \A c \in at.fin : c \in Codes
    BY DEF Stands, Typed
  <2> QED BY <2>1 DEF BuyKept, Stands
<1>7. \A c \in at.open : c \in weighted /\ b.frozen[c] = None
  BY DEF Stands
<1>8. \A c \in at.retry : FellShort(c)
  BY DEF Stands
<1>9. done \subseteq Codes
  <2>1. b.prev.done \subseteq Codes
    BY DEF Ground, State
  <2>2. at.fin \subseteq Codes
    BY DEF Stands, Typed
  <2> QED BY <1>2, <2>1, <2>2
<1>10. \A c \in done : \/ c \in b.prev.done \/ Sold(c, "BUY") # <<>> \/ b.frozen[c] # None
                       \/ c \in at.open /\ target[c] = shares[c]
  BY DEF Stands
<1>11. \A c \in at.behind : b.frozen[c] # None /\ c \notin at.open /\ b.qty[c] = None /\ c \in at.waiting
  <2>1. \A c \in at.behind : b.frozen[c] # None /\ c \in at.waiting
    BY DEF Stands
  <2>2. \A c \in at.behind : c \notin at.open
    BY <1>7, <2>1
  <2> QED BY <1>2, <2>1, <2>2 DEF BuyKept, Amounts
<1>12. RowCodes(rows \cup put) \subseteq RowCodes(rows) \cup at.behind /\ RowCodes(rows) \subseteq RowCodes(rows \cup put)
  BY DEF RowCodes
<1> HIDE DEF done, put
<1>13. Kept(e)
  <2>1. route # "auto" => e.frozen = Nothing
    BY <1>1 DEF BuyKept
  <2>2. \A c \in Codes : e.qty[c] # None => c \in weighted /\ e.frozen[c] = None
    BY <1>1, <1>4, <1>7 DEF BuyKept
  <2>3. \A c \in e.done : e.qty[c] # None \/ e.frozen[c] # None
    BY <1>1, <1>3, <1>4, <1>6, <1>9
  <2>4. ASSUME NEW c \in Codes, e.qty[c] # None, ~FellShort(c), c \in e.done \/ Sold(c, "BUY") # <<>>
        PROVE  shares[c] = e.qty[c]
    <3>1. e.frozen[c] = None
      BY <2>2, <2>4
    <3>2. CASE c \in at.open /\ target[c] = shares[c]
      BY <1>1, <1>5, <1>8, <2>4, <3>2
    <3>3. CASE c \in b.prev.done \/ Sold(c, "BUY") # <<>>
      <4>1. b.qty[c] # None
        BY <1>1, <3>1, <3>3 DEF BuyKept
      <4> QED BY <1>1, <1>4, <2>4, <3>3, <4>1 DEF BuyKept
    <3> QED BY <1>1, <1>10, <2>4, <3>1, <3>2, <3>3
  <2>5. ASSUME NEW c \in Codes, c \in RowCodes(e.defer) PROVE e.qty[c] = None \/ FellShort(c)
    <3>1. CASE c \in RowCodes(rows)
      <4>1. CASE FellShort(c)
        BY <4>1
      <4>2. CASE sn.want[c] = None /\ b.qty[c] = None
        BY <1>1, <1>4, <4>2 DEF Stands
      <4> QED BY <3>1, <4>1, <4>2 DEF RowsKept
    <3>2. CASE c \in at.behind
      BY <1>1, <1>4, <1>11, <3>2
    <3> QED BY <1>1, <1>12, <2>5, <3>1, <3>2
  <2>6. route = "partial" => \A c \in Codes \ weighted :
          shares[c] > 0 => c \in RowCodes(e.defer) \/ FellShort(c)
    BY <1>1, <1>12 DEF RowsKept
  <2> QED BY <2>1, <2>2, <2>3, <2>4, <2>5, <2>6 DEF Kept
<1>14. Goes(e, r.targets)
  <2>1. \A c \in DOMAIN r.targets : c \in at.open /\ r.targets[c] = target[c]
    BY <1>1
  <2> QED BY <1>1, <1>5, <1>8, <2>1 DEF Goes
<1>15. ASSUME r.skipped = {}, r.targets = <<>> PROVE Complete(e)
  <2>1. rows = {} /\ at.waiting = {} /\ at.unquoted = {}
    BY <1>1, <1>15
  <2>2. at.behind = {} /\ put = {}
    BY <1>11, <2>1 DEF put
  <2>3. go = {}
    <3>1. DOMAIN r.targets = go
      BY <1>1
    <3> QED BY <1>15, <3>1
  <2>4. weighted \subseteq done
    BY <2>1, <2>3 DEF Stands, done
  <2> QED BY <1>1, <1>13, <2>1, <2>2, <2>4, KeptIsComplete
<1> QED BY <1>13, <1>14, <1>15 DEF BuyLeaves, e, r

\* What is outside the plan is wanted in no quantity.
LEMMA OutsideIs ==
  ASSUME Typed, NEW sn \in Snapshots
  PROVE  \A c \in Codes \ weighted : sn.want[c] \in {0, None}
<1>1. PICK w \in Wants : sn \in [want : {w}, cash : Reach(w),
          cool : SUBSET {c \in Codes : \E ph \in Phases : Failed(c, ph)}]
  BY DEF Snapshots
<1>2. sn.want = w
  BY <1>1
<1> QED BY <1>2 DEF Wants

\* What a SELL starts with.
SellStarts(b) ==
  /\ b.prev.defer = {} /\ b.prev.short = {}
  /\ b.scope = IF b.resume = None THEN Codes ELSE RowCodes(b.resume.defer)
  /\ b.resume # None => Kept(b.resume)
  /\ b.codes = {c \in b.scope : shares[c] > 0}
  /\ route = "partial" => \A c \in Codes \ weighted :
       /\ b.qty[c] \in {None, 0}
       /\ c \in b.prev.done \/ Sold(c, "SELL") # <<>> => shares[c] = 0 \/ FellShort(c)

\* What a SELL resolves keeps it; what it skips has an order that ended short or no
\* quote, and without targets the partial route skips all that it still has to sell.
SellLeaves(r, b, sn) ==
  /\ SellKept(r.state)
  /\ Goes(r.state, r.targets)
  /\ \A row \in r.skipped : row[1] \in b.scope /\ (FellShort(row[1]) \/ sn.want[row[1]] = None)
  /\ route = "partial" /\ r.targets = <<>> => \A c \in b.scope \ weighted :
       shares[c] > 0 => FellShort(c) \/ <<c, "wait">> \in r.skipped
LEMMA OutcomeSells ==
  ASSUME Typed, NEW b, Ground(b), SellStarts(b), NEW sn \in Snapshots,
         NEW at, at.open \in SUBSET b.codes, at.fin \in SUBSET Codes,
         NEW again \in SUBSET b.codes, \A c \in again : FellShort(c), route # "auto" => again = {},
         Stands(at, b, "SELL", sn, again)
  PROVE  SellLeaves(Outcome(b, "SELL", sn, b.prev.defer, at), b, sn)
<1> DEFINE fixed  == [c \in Codes |->
                  IF c \notin at.open \/ b.qty[c] # None THEN b.qty[c]
                  ELSE IF "SELL" = "SELL" THEN Least(sn.want[c], shares[c])
                  ELSE Most(shares[c], Least(sn.want[c], shares[c] + sn.cash[c]))]
           target == [c \in at.open |->
                  IF "SELL" = "BUY" /\ c \in at.retry THEN Retarget(c, fixed[c], sn) ELSE fixed[c]]
           go     == {c \in at.open : target[c] # shares[c]}
           short  == b.prev.short \cup
                {c \in at.open : "SELL" = "BUY" /\ b.qty[c] = None /\ sn.want[c] > fixed[c]}
           put    == {<<c, "wait">> : c \in {x \in at.behind : \A r \in b.prev.defer : r[1] # x}}
           done   == (b.prev.done \ (at.waiting \cup at.retry)) \cup at.fin \cup (at.open \ go)
           skipped == b.prev.defer \cup {<<c, "cash">> : c \in short}
                  \cup {<<c, "wait">> : c \in at.waiting \cup at.unquoted}
                  \cup {<<c, "tried">> : c \in {x \in at.fin : Failed(x, "SELL")}}
           r == Outcome(b, "SELL", sn, b.prev.defer, at)
           e == r.state
<1>1. /\ e.phase = "SELL" /\ e.qty = fixed /\ e.done = done /\ e.defer = b.prev.defer \cup put
      /\ e.short = short /\ e.scope = b.scope /\ e.resume = b.resume
      /\ r.targets = [c \in go |-> target[c]]
      /\ r.skipped = skipped
  BY DEF Outcome
<1> HIDE DEF e, r
<1>2. at.open \in SUBSET Codes /\ b.qty \in Amounts /\ b.scope \in SUBSET Codes
      /\ b.codes \in SUBSET Codes
  BY DEF Ground
<1>3. at.behind = {} /\ at.waiting \subseteq again
  BY DEF Stands
<1>4. put = {} /\ short = {} /\ b.prev.defer = {}
  BY <1>3 DEF SellStarts
<1>5. \A c \in Codes : b.qty[c] # None \/ c \notin at.open => fixed[c] = b.qty[c]
  OBVIOUS
<1>6. ASSUME route = "partial", NEW c \in Codes \ weighted
      PROVE  fixed[c] \in {None, 0} /\ (c \in at.open => fixed[c] = 0)
  <2>1. b.qty[c] \in {None, 0}
    BY <1>6 DEF SellStarts
  <2>2. CASE c \in at.open /\ b.qty[c] = None
    <3>1. sn.want[c] = 0
      BY <1>6, <2>2, OutsideIs DEF Stands
    <3>2. shares[c] \in Nat
      BY <1>6 DEF Typed, Qtys
    <3>3. Least(sn.want[c], shares[c]) = 0
      BY <3>1, <3>2 DEF Least
    <3> QED BY <2>2, <3>3
  <2>3. CASE c \notin at.open
    BY <1>5, <2>1, <2>3
  <2>4. CASE c \in at.open /\ b.qty[c] # None
    BY <1>5, <2>1, <2>4
  <2> QED BY <2>2, <2>3, <2>4
<1> HIDE DEF fixed
<1>7. \A c \in at.open : target[c] = fixed[c]
  OBVIOUS
<1> HIDE DEF target
<1>8. \A c \in at.fin : c \in b.codes /\ (Sold(c, "SELL") # <<>> \/ c \in b.prev.done)
  BY DEF Stands
<1>9. SellKept(e)
  <2>1. e.defer = {} /\ e.short = {}
    BY <1>1, <1>4
  <2>2. e.scope = IF e.resume = None THEN Codes ELSE RowCodes(e.resume.defer)
    BY <1>1 DEF SellStarts
  <2>3. e.resume # None => Kept(e.resume)
    BY <1>1 DEF SellStarts
  <2>4. ASSUME route = "partial", NEW c \in Codes \ weighted, c \in e.done
        PROVE  shares[c] = 0 \/ FellShort(c)
    <3>1. \/ c \in b.prev.done
          \/ Sold(c, "SELL") # <<>>
          \/ c \in at.open /\ target[c] = shares[c]
      BY <1>1, <1>8, <2>4
    <3>2. CASE c \in b.prev.done \/ Sold(c, "SELL") # <<>>
      BY <2>4, <3>2 DEF SellStarts
    <3>3. CASE c \in at.open /\ target[c] = shares[c]
      BY <1>6, <1>7, <2>4, <3>3
    <3> QED BY <3>1, <3>2, <3>3
  <2>5. route = "partial" => \A c \in Codes \ weighted : e.qty[c] \in {None, 0}
    BY <1>1, <1>6
  <2> QED BY <2>1, <2>2, <2>3, <2>4, <2>5 DEF SellKept
<1>10. \A c \in DOMAIN r.targets : c \in at.open /\ r.targets[c] = target[c] /\ c \in b.scope
  BY <1>1 DEF SellStarts
<1>11. Goes(e, r.targets)
  <2>1. ASSUME NEW c \in DOMAIN r.targets, route = "partial", c \notin weighted
        PROVE  r.targets[c] = 0
    BY <1>2, <1>6, <1>7, <1>10, <2>1
  <2> QED BY <1>1, <1>10, <2>1 DEF Goes
<1>12. ASSUME NEW row \in r.skipped
       PROVE  row[1] \in b.scope /\ (FellShort(row[1]) \/ sn.want[row[1]] = None)
  <2>1. \/ row \in {<<c, "wait">> : c \in at.waiting \cup at.unquoted}
        \/ row \in {<<c, "tried">> : c \in {x \in at.fin : Failed(x, "SELL")}}
    BY <1>1, <1>4, <1>12
  <2>2. CASE row \in {<<c, "wait">> : c \in at.waiting \cup at.unquoted}
    <3>1. PICK c \in at.waiting \cup at.unquoted : row[1] = c
      BY <2>2
    <3>2. c \in at.unquoted => c \in b.scope /\ sn.want[c] = None
      BY DEF Stands, SellStarts
    <3>3. c \in at.waiting => c \in b.scope /\ FellShort(c)
      BY <1>3 DEF SellStarts
    <3> QED BY <3>1, <3>2, <3>3
  <2>3. CASE row \in {<<c, "tried">> : c \in {x \in at.fin : Failed(x, "SELL")}}
    <3>1. PICK c \in at.fin : row[1] = c /\ Failed(c, "SELL")
      BY <2>3
    <3>2. c \in b.scope /\ FellShort(c)
      BY <1>8, <3>1, FailedFellShort DEF SellStarts, Phases
    <3> QED BY <3>1, <3>2
  <2> QED BY <2>1, <2>2, <2>3
<1>13. ASSUME route = "partial", r.targets = <<>>, NEW c \in b.scope \ weighted, shares[c] > 0
       PROVE  FellShort(c) \/ <<c, "wait">> \in r.skipped
  <2>1. c \in b.codes /\ c \in Codes
    BY <1>2, <1>13 DEF SellStarts
  <2>2. at.waiting = {}
    BY <1>3, <1>13
  <2>3. CASE c \in at.unquoted
    BY <1>1, <2>3
  <2>4. CASE c \in at.fin
    <3>1. shares[c] = 0 \/ FellShort(c)
      BY <1>8, <1>13, <2>1, <2>4 DEF SellStarts
    <3> QED BY <1>13, <3>1
  <2>5. CASE c \in at.open
    <3>1. target[c] = 0
      BY <1>6, <1>7, <1>13, <2>1, <2>5
    <3>2. c \in go
      BY <1>13, <2>5, <3>1
    <3>3. DOMAIN r.targets = go
      BY <1>1
    <3> QED BY <1>13, <3>2, <3>3
  <2> QED BY <2>1, <2>2, <2>3, <2>4, <2>5 DEF Stands
<1> QED BY <1>9, <1>11, <1>12, <1>13 DEF SellLeaves, e, r

\* A BUY goes on from a state that knows what was bought, or begins with nothing.
LEMMA BuyStarts ==
  ASSUME Typed, pending = None, NEW ex \in State,
         \A c \in Codes : Sold(c, "BUY") # <<>> => first[c] # None,
         \/ ex.day = day /\ ex.phase = "BUY" /\ ex.qty = first /\ Kept(ex)
         \/ ~(ex.day = day /\ ex.phase = "BUY") /\ first = Nothing
  PROVE  BuyKept(Basis(ex, "BUY", None))
<1> DEFINE b == Basis(ex, "BUY", None)
<1>0. "BUY" \in Phases /\ None \in Plain \cup {None}
  BY DEF Phases
<1>1. /\ b.prev = (IF ex.day = day /\ ex.phase = "BUY" THEN ex ELSE Fresh("BUY"))
      /\ b.qty = b.prev.qty /\ b.frozen = Frozen(ex, None)
  BY <1>0, BasisIs
<1> HIDE DEF b
<1>2. b.frozen = IF route # "auto" THEN Nothing ELSE ex.frozen
  BY <1>1 DEF Frozen
<1>3. \A c \in Codes : Nothing[c] = None
  BY DEF Nothing
<1>4. \A c \in Codes : pending # <<c, "BUY">>
  BY <1>0, NoneIs
<1>5. CASE ex.day = day /\ ex.phase = "BUY" /\ ex.qty = first /\ Kept(ex)
  <2>1. b.prev = ex /\ b.qty = first /\ b.frozen = ex.frozen
    BY <1>1, <1>2, <1>5 DEF Kept
  <2>2. route # "auto" => b.frozen = Nothing
    BY <1>2
  <2>3. \A c \in Codes : b.qty[c] # None => c \in weighted /\ b.frozen[c] = None
    BY <1>5, <2>1 DEF Kept
  <2>4. \A c \in b.prev.done : b.qty[c] # None \/ b.frozen[c] # None
    BY <1>5, <2>1 DEF Kept
  <2>5. \A c \in Codes : Sold(c, "BUY") # <<>> => b.qty[c] # None
    BY <2>1
  <2>6. \A c \in Codes : /\ b.qty[c] # None /\ ~FellShort(c)
                         /\ c \in b.prev.done \/ Sold(c, "BUY") # <<>>
                         => shares[c] = b.qty[c]
    BY <1>4, <1>5, <2>1 DEF Kept
  <2> QED BY <2>2, <2>3, <2>4, <2>5, <2>6 DEF BuyKept, b
<1>6. CASE ~(ex.day = day /\ ex.phase = "BUY") /\ first = Nothing
  <2>1. b.prev = Fresh("BUY")
    BY <1>1, <1>6
  <2>2. b.qty = Nothing /\ b.prev.done = {}
    <3>1. Fresh("BUY").qty = Nothing /\ Fresh("BUY").done = {}
      BY DEF Fresh
    <3> QED BY <1>1, <2>1, <3>1
  <2>3. \A c \in Codes : b.qty[c] = None /\ Sold(c, "BUY") = <<>>
    BY <1>3, <1>6, <2>2
  <2> QED BY <1>2, <2>2, <2>3 DEF BuyKept, b
<1> QED BY <1>5, <1>6

\* The rows of a BUY: none or those that were given.
LEMMA ResolvedBuy ==
  ASSUME Typed, pending = None, route # "whole", NEW ex \in State, NEW sn \in Snapshots,
         NEW defer \in (SUBSET Rows) \cup {None}, NEW rows \in SUBSET Rows,
         rows = IF defer # None THEN defer ELSE Basis(ex, "BUY", None).prev.defer,
         BuyKept(Basis(ex, "BUY", None)), RowsKept(Basis(ex, "BUY", None), sn, rows)
  PROVE  BuyLeaves(Resolved(ex, "BUY", sn, None, defer))
<1> DEFINE b == Basis(ex, "BUY", None)
           again == Again(b, "BUY")
           at == Standing(b, "BUY", sn, again)
<1>0. "BUY" \in Phases /\ None \in Plain \cup {None}
  BY DEF Phases
<1>1. Resolved(ex, "BUY", sn, None, defer) = Outcome(b, "BUY", sn, rows, at)
  BY DEF Resolved
<1>2. Ground(b)
  BY <1>0, BasisIs
<1>3. b.codes = weighted
  BY DEF Basis
<1>4. BuyKept(b) /\ RowsKept(b, sn, rows)
  OBVIOUS
<1> HIDE DEF b
<1>5. again \in SUBSET b.codes /\ \A c \in again : Failed(c, "BUY")
  BY DEF Again
<1> HIDE DEF again
<1>6. \A c \in again : FellShort(c)
  <2>1. again \subseteq Codes
    BY <1>2, <1>5 DEF Ground
  <2> QED BY <1>0, <1>5, <2>1, FailedFellShort
<1>7. Stands(at, b, "BUY", sn, again)
  BY <1>5, StandingStands
<1>8. at.behind \in SUBSET Codes /\ at.open \in SUBSET b.codes
  <2>1. ASSUME NEW ph \in Phases
        PROVE  /\ Standing(b, ph, sn, again).behind \in SUBSET Codes
               /\ Standing(b, ph, sn, again).open \in SUBSET b.codes
    BY <1>2, <1>5, StandingIs
  <2> QED BY <1>0, <2>1
<1> HIDE DEF at
<1>9. BuyLeaves(Outcome(b, "BUY", sn, rows, at))
  BY <1>2, <1>3, <1>4, <1>5, <1>6, <1>7, <1>8, OutcomeBuy
<1> QED BY <1>1, <1>9

\* A SELL goes on from a state that knows what it covers, begins with every code or
\* with those the interrupted BUY had deferred.
LEMMA SellBegins ==
  ASSUME Typed, pending = None, route # "whole", ForgetInv, NEW given \in Plain \cup {None}, Sells(given),
         given # None => exec.day = day
  PROVE  SellStarts(Basis(exec, "SELL", given))
<1> DEFINE b == Basis(exec, "SELL", given)
<1>0. "SELL" \in Phases /\ exec \in State
  BY DEF Phases, Typed
<1>1. /\ b.prev = (IF exec.day = day /\ exec.phase = "SELL" THEN exec ELSE Fresh("SELL"))
      /\ b.resume = (IF given # None THEN given ELSE b.prev.resume)
      /\ given # None => b.scope = RowCodes(given.defer)
      /\ given = None => b.scope = b.prev.scope
  BY <1>0, BasisIs
<1>2. b.codes = {c \in b.scope : shares[c] > 0}
  BY DEF Basis
<1>3. route # "auto" => b.qty = b.prev.qty
  BY DEF Basis
<1> HIDE DEF b
<1>4. Fresh("SELL").defer = {} /\ Fresh("SELL").short = {} /\ Fresh("SELL").resume = None
      /\ Fresh("SELL").scope = Codes /\ Fresh("SELL").done = {} /\ Fresh("SELL").qty = Nothing
  BY DEF Fresh
<1>5. exec.day = day /\ exec.phase = "SELL" => SellKept(exec)
  BY DEF ForgetInv, PlanKept
<1>6. given # None => given = exec /\ exec.phase = "BUY" /\ Kept(exec)
  <2>1. given # None => given = exec /\ exec.phase = "BUY"
    BY DEF Sells
  <2> QED BY <2>1 DEF ForgetInv, PlanKept
<1>7. b.prev.defer = {} /\ b.prev.short = {}
  BY <1>1, <1>4, <1>5 DEF SellKept
<1>8. b.scope = IF b.resume = None THEN Codes ELSE RowCodes(b.resume.defer)
  BY <1>1, <1>4, <1>5 DEF SellKept
<1>9. b.resume # None => Kept(b.resume)
  BY <1>1, <1>4, <1>5, <1>6 DEF SellKept
<1>10. ASSUME route = "partial", NEW c \in Codes \ weighted
       PROVE  /\ b.qty[c] \in {None, 0}
              /\ c \in b.prev.done \/ Sold(c, "SELL") # <<>> => shares[c] = 0 \/ FellShort(c)
  <2>1. Nothing[c] = None
    BY DEF Nothing
  <2>2. b.qty[c] \in {None, 0} /\ (c \in b.prev.done => shares[c] = 0 \/ FellShort(c))
    BY <1>1, <1>3, <1>4, <1>5, <1>10, <2>1 DEF SellKept
  <2>3. pending # <<c, "SELL">>
    BY <1>0, NoneIs
  <2>4. Sold(c, "SELL") # <<>> => shares[c] = 0 \/ FellShort(c)
    BY <1>10, <2>3 DEF ForgetInv
  <2> QED BY <2>2, <2>4
<1> QED BY <1>2, <1>7, <1>8, <1>9, <1>10 DEF SellStarts, b

\* What a SELL leaves.
LEMMA ResolvedSells ==
  ASSUME Typed, NEW sn \in Snapshots, NEW given \in Plain \cup {None},
         SellStarts(Basis(exec, "SELL", given))
  PROVE  LET r == Resolved(exec, "SELL", sn, given, None) IN
         SellLeaves(r, Basis(exec, "SELL", given), sn)
<1> DEFINE b == Basis(exec, "SELL", given)
           again == Again(b, "SELL")
           at == Standing(b, "SELL", sn, again)
<1>0. "SELL" \in Phases /\ exec \in State
  BY DEF Phases, Typed
<1>1. Resolved(exec, "SELL", sn, given, None) = Outcome(b, "SELL", sn, b.prev.defer, at)
  BY DEF Resolved
<1>2. Ground(b) /\ SellStarts(b)
  BY <1>0, BasisIs
<1> HIDE DEF b
<1>5. again \in SUBSET b.codes /\ (\A c \in again : Failed(c, "SELL")) /\ (route # "auto" => again = {})
  BY DEF Again
<1> HIDE DEF again
<1>6. \A c \in again : FellShort(c)
  <2>1. again \subseteq Codes
    BY <1>2, <1>5 DEF Ground
  <2> QED BY <1>0, <1>5, <2>1, FailedFellShort
<1>7. Stands(at, b, "SELL", sn, again)
  BY <1>5, StandingStands
<1>8. at.fin \in SUBSET Codes /\ at.open \in SUBSET b.codes
  <2>1. ASSUME NEW ph \in Phases
        PROVE  /\ Standing(b, ph, sn, again).fin \in SUBSET Codes
               /\ Standing(b, ph, sn, again).open \in SUBSET b.codes
    BY <1>2, <1>5, StandingIs
  <2> QED BY <1>0, <2>1
<1> HIDE DEF at
<1>9. SellLeaves(Outcome(b, "SELL", sn, b.prev.defer, at), b, sn)
  BY <1>2, <1>5, <1>6, <1>7, <1>8, OutcomeSells
<1> QED BY <1>1, <1>9 DEF b

\* What each write of a tick knows, and where the manifest of the last one leads.
KeptState(e) ==
  /\ IF e.phase = "SELL" THEN SellKept(e) ELSE Kept(e)
  /\ e.phase = "DONE" /\ e.status = "EXECUTED" => Complete(e)
Knowing(t) ==
  /\ t.writes \in Seq(State) /\ Len(t.writes) > 0
  /\ \A k \in 1..Len(t.writes) : KeptState(t.writes[k])
  /\ Goes(t.writes[Len(t.writes)], t.targets)

\* A tick that ends with a BUY without targets or skipped rows is complete.
LEMMA EndingKnows ==
  ASSUME NEW end, end.state \in State, end.state.phase \in Phases, KeptState(end.state),
         Goes(end.state, end.targets), end.state.phase = "BUY" => BuyLeaves(end)
  PROVE  Knowing(Ending(end))
<1> DEFINE e == end.state
           d == [e EXCEPT !.phase = "DONE", !.status = IF end.skipped = {} THEN "EXECUTED" ELSE "PARTIALLY_EXECUTED"]
           t == Ending(end)
<1>1. CASE end.targets = <<>> /\ e.phase = "BUY" /\ Unresolved(end) = {}
  <2>1. t.writes = <<e>> \o <<d>> /\ t.targets = <<>>
    BY <1>1 DEF Ending
  <2>2. d \in State /\ d.phase = "DONE" /\ d.qty = e.qty /\ d.done = e.done /\ d.defer = e.defer
        /\ d.frozen = e.frozen /\ (d.status = "EXECUTED" => end.skipped = {})
    BY DEF State
  <2>3. e \in State /\ KeptState(e)
    OBVIOUS
  <2>4. Kept(e) /\ (end.skipped = {} => Complete(e))
    BY <1>1 DEF BuyLeaves
  <2> HIDE DEF e, d, t
  <2>5. Kept(d)
    BY <2>2, <2>4 DEF Kept
  <2>6. Complete(e) => Complete(d)
    BY <2>2 DEF Complete
  <2>7. KeptState(d)
    BY <2>2, <2>4, <2>5, <2>6 DEF KeptState
  <2>8. t.writes \in Seq(State) /\ Len(t.writes) = 2 /\ t.writes[1] = e /\ t.writes[2] = d
    BY <2>1, <2>2, <2>3
  <2>9. Goes(d, t.targets)
    BY <2>1 DEF Goes
  <2> QED BY <2>3, <2>7, <2>8, <2>9 DEF Knowing, t
<1>2. CASE ~(end.targets = <<>> /\ e.phase = "BUY" /\ Unresolved(end) = {})
  <2>1. t.writes = <<e>> \o <<>> /\ t.targets = end.targets
    BY <1>2 DEF Ending
  <2>2. e \in State /\ KeptState(e) /\ Goes(e, end.targets)
    OBVIOUS
  <2> HIDE DEF e, t
  <2>3. t.writes \in Seq(State) /\ Len(t.writes) = 1 /\ t.writes[1] = e
    BY <2>1, <2>2
  <2> QED BY <2>1, <2>2, <2>3 DEF Knowing, t
<1> QED BY <1>1, <1>2

\* The writes before a BUY know as much.
LEMMA FollowingKnows ==
  ASSUME NEW one, one.state \in State, NEW back \in State, KeptState(one.state), KeptState(back),
         NEW rest, rest = [writes |-> rest.writes, targets |-> rest.targets], Knowing(rest)
  PROVE  Knowing(Following(one, back, rest))
<1> DEFINE t == Following(one, back, rest)
           head == <<one.state>> \o (IF back = one.state THEN <<>> ELSE <<back>>)
<1>1. t.writes = head \o rest.writes /\ t.targets = rest.targets
  <2> HIDE DEF head
  <2>1. t = [rest EXCEPT !.writes = head \o @]
    BY DEF Following, head
  <2> HIDE DEF t
  <2> QED BY <2>1
<1>2. head \in Seq(State) /\ Len(head) \in 1..2
  OBVIOUS
<1>2a. \A k \in 1..Len(head) : KeptState(head[k])
  <2>1. \A k \in 1..Len(head) : head[k] = one.state \/ head[k] = back
    OBVIOUS
  <2> HIDE DEF head
  <2> QED BY <2>1
<1> HIDE DEF head, t
<1>3. rest.writes \in Seq(State) /\ Len(rest.writes) > 0
  BY DEF Knowing
<1>4. /\ head \o rest.writes \in Seq(State)
      /\ Len(head \o rest.writes) = Len(head) + Len(rest.writes)
      /\ (head \o rest.writes)[Len(head) + Len(rest.writes)] = rest.writes[Len(rest.writes)]
  BY <1>2, <1>3
<1>5. t.writes \in Seq(State) /\ Len(t.writes) > 0
      /\ t.writes[Len(t.writes)] = rest.writes[Len(rest.writes)]
  BY <1>1, <1>2, <1>3, <1>4
<1>6. ASSUME NEW k \in 1..Len(t.writes) PROVE KeptState(t.writes[k])
  <2>1. CASE k <= Len(head)
    <3>1. k \in 1..Len(head) /\ t.writes[k] = head[k]
      BY <1>1, <1>2, <1>3, <2>1
    <3> QED BY <1>2a, <3>1
  <2>2. CASE k > Len(head)
    <3>1. k - Len(head) \in 1..Len(rest.writes) /\ t.writes[k] = rest.writes[k - Len(head)]
      BY <1>1, <1>2, <1>3, <1>4, <2>2
    <3> QED BY <3>1 DEF Knowing
  <2> QED BY <1>2, <2>1, <2>2
<1>7. Goes(t.writes[Len(t.writes)], t.targets)
  BY <1>1, <1>5 DEF Knowing
<1>8. Knowing(t)
  BY <1>5, <1>6, <1>7 DEF Knowing
<1> QED BY <1>8 DEF t

\* The rows that a SELL leaves for the BUY.
LEMMA DeferredRows ==
  ASSUME Typed, NEW sn \in Snapshots, NEW one, NEW b, NEW base, one.skipped \in SUBSET Rows,
         one.state.scope = b.scope, b.scope \in SUBSET Codes, SellLeaves(one, b, sn),
         one.targets = <<>>,
         IF one.state.resume = None THEN base.qty = Nothing ELSE base.qty = one.state.resume.qty
  PROVE  RowsKept(base, sn, Deferred(one))
<1> DEFINE e == one.state
           rows == Deferred(one)
<1>1. rows = {r \in one.skipped : shares[r[1]] > 0}
  BY DEF Deferred
<1>2. SellKept(e)
  BY DEF SellLeaves
<1> HIDE DEF rows, e
<1>3. e.scope = (IF e.resume = None THEN Codes ELSE RowCodes(e.resume.defer))
      /\ (e.resume # None => Kept(e.resume))
  BY <1>2 DEF SellKept
<1>4. ASSUME NEW c \in RowCodes(rows), ~FellShort(c) PROVE sn.want[c] = None /\ base.qty[c] = None
  <2>1. PICK row \in one.skipped : row[1] = c
    BY <1>1 DEF RowCodes
  <2>2. c \in e.scope /\ sn.want[c] = None
    BY <1>4, <2>1 DEF SellLeaves, e
  <2>3. CASE e.resume = None
    <3>1. c \in Codes
      BY <2>2 DEF e
    <3> QED BY <2>2, <2>3, <3>1 DEF e, Nothing
  <2>4. CASE e.resume # None
    <3>1. c \in Codes
      BY <2>2 DEF e
    <3>2. e.resume.qty[c] = None
      BY <1>3, <1>4, <2>2, <2>4, <3>1 DEF Kept
    <3> QED BY <2>2, <2>4, <3>2 DEF e
  <2> QED BY <2>3, <2>4
<1>5. ASSUME route = "partial", NEW c \in Codes \ weighted, shares[c] > 0
      PROVE  c \in RowCodes(rows) \/ FellShort(c)
  <2>1. CASE c \in e.scope
    <3>1. FellShort(c) \/ <<c, "wait">> \in one.skipped
      BY <1>5, <2>1 DEF SellLeaves, e
    <3>2. <<c, "wait">> \in one.skipped => <<c, "wait">> \in rows
      BY <1>1, <1>5
    <3>3. <<c, "wait">> \in rows => c \in RowCodes(rows)
      <4>1. <<c, "wait">>[1] = c
        OBVIOUS
      <4> QED BY <4>1 DEF RowCodes
    <3> QED BY <3>1, <3>2, <3>3
  <2>2. CASE c \notin e.scope
    BY <1>3, <1>5, <2>2 DEF Kept
  <2> QED BY <2>1, <2>2
<1> QED BY <1>4, <1>5 DEF RowsKept, rows

\* Whatever the snapshot, each write of a tick knows what it should.
LEMMA TurnKnows ==
  ASSUME Inv, ForgetInv, route # "whole", Ready, NEW sn \in Snapshots
  PROVE  Knowing(Turn(sn))
<1>0. /\ Typed /\ exec \in State /\ None \in Plain \cup {None} /\ None \in (SUBSET Rows) \cup {None}
      /\ "BUY" \in Phases /\ "SELL" \in Phases /\ pending = None
      /\ \A c \in Codes : Sold(c, "BUY") # <<>> => first[c] # None
  BY DEF Inv, Typed, Phases, Ready, ForgetInv
<1>1. exec.day = day => exec.phase \in Phases
  BY <1>0 DEF Ready, State
<1>2. exec.day = day /\ exec.phase = "BUY" => SoundBuy(exec, first, late) /\ Kept(exec)
  <2>1. exec.day = day /\ exec.phase = "BUY" => SoundBuy(exec, first, late)
    BY DEF Inv, Sound, SoundSell
  <2> QED BY <2>1 DEF ForgetInv, PlanKept
<1>3. exec.day = day /\ exec.phase = "SELL" => SoundSell(exec, first, late)
  BY DEF Inv, Sound, SoundBuy
<1>4. exec.day # day => first = Nothing /\ \A c \in Codes : \A ph \in Phases : Sold(c, ph) = <<>>
  BY DEF Inv
<1>5. CASE exec.day = day /\ exec.phase = "BUY" /\ exec.defer = {}
  <2> DEFINE one == Resolved(exec, "BUY", sn, None, None)
             b == Basis(exec, "BUY", None)
  <2>1. Turn(sn) = Continued(sn, one)
    BY <1>5 DEF Turn, Opening
  <2>2. one.state \in State /\ one.state.phase = "BUY"
    BY <1>0, ResolvedIs
  <2>3. BuyKept(b)
    BY <1>0, <1>2, <1>5, BuyStarts DEF SoundBuy
  <2>4. b.prev = exec
    BY <1>0, <1>5, BasisIs
  <2> DEFINE rows == exec.defer
  <2>5. rows = {} /\ rows \in SUBSET Rows /\ RowCodes(rows) = {}
    BY <1>5 DEF RowCodes
  <2>6. \A c \in Codes \ weighted : route = "partial" /\ shares[c] > 0 => FellShort(c)
    BY <1>2, <1>5, <2>5 DEF Kept
  <2>7. RowsKept(b, sn, rows)
    BY <2>5, <2>6 DEF RowsKept
  <2>8. BuyLeaves(one)
    BY <1>0, <2>3, <2>4, <2>5, <2>7, ResolvedBuy
  <2> HIDE DEF one
  <2>9. Continued(sn, one) = Ending(one)
    BY <2>2 DEF Continued
  <2>10. KeptState(one.state) /\ Goes(one.state, one.targets)
    BY <2>2, <2>8 DEF KeptState, BuyLeaves
  <2> QED BY <1>0, <2>1, <2>2, <2>8, <2>9, <2>10, EndingKnows
<1>6. CASE ~(exec.day = day /\ exec.phase = "BUY" /\ exec.defer = {})
  <2>1. PICK given \in Plain \cup {None} :
           /\ Opening(sn) = Resolved(exec, "SELL", sn, given, None)
           /\ Sells(given) /\ (given # None => exec.day = day)
    <3>1. CASE exec.day = day /\ exec.phase = "BUY"
      <4>1. exec.resume = None
        BY <1>2, <3>1 DEF SoundBuy
      <4>2. exec \in Plain
        BY <1>0, <4>1 DEF State, Plain
      <4>3. Opening(sn) = Resolved(exec, "SELL", sn, exec, None)
        BY <1>6, <3>1 DEF Opening
      <4> QED BY <1>2, <3>1, <4>2, <4>3 DEF Sells
    <3>2. CASE exec.day = day /\ exec.phase = "SELL"
      <4>1. Opening(sn) = Resolved(exec, "SELL", sn, None, None)
        BY <3>2 DEF Opening
      <4> QED BY <1>3, <3>2, <4>1 DEF Sells
    <3>3. CASE exec.day # day
      <4>1. Opening(sn) = Resolved(exec, "SELL", sn, None, None)
        BY <3>3 DEF Opening
      <4> QED BY <1>4, <3>3, <4>1 DEF Sells
    <3> QED BY <1>1, <3>1, <3>2, <3>3 DEF Phases
  <2> DEFINE one == Opening(sn)
             e == one.state
             b == Basis(exec, "SELL", given)
  <2>2. e \in State /\ e.phase = "SELL" /\ SoundSell(e, first, late) /\ one.skipped \in SUBSET Rows
    BY <1>0, <2>1, SellWritten
  <2>3. SellStarts(b)
    BY <1>0, <2>1, SellBegins
  <2>4. SellLeaves(one, b, sn)
    BY <1>0, <2>1, <2>3, ResolvedSells
  <2>5. e.scope = b.scope /\ b.scope \in SUBSET Codes
    <3>1. e.scope = b.scope
      BY <1>0, <2>1, ResolvedIs
    <3>2. Ground(b)
      BY <1>0, BasisIs
    <3> QED BY <3>1, <3>2 DEF Ground
  <2> HIDE DEF one, e, b
  <2>6. KeptState(e) /\ Goes(e, one.targets) /\ SellKept(e)
    BY <2>2, <2>4 DEF KeptState, SellLeaves, e
  <2>7. CASE Continued(sn, one) = Ending(one)
    <3>1. Knowing(Ending(one))
      BY <1>0, <2>2, <2>6, EndingKnows DEF e
    <3> QED BY <2>7, <3>1 DEF Turn, one
  <2>8. CASE Continued(sn, one) # Ending(one)
    <3> DEFINE back == Restored(e)
               end == Resolved(back, "BUY", sn, None, Deferred(one))
               base == Basis(back, "BUY", None)
    <3>1. Continued(sn, one) = Following(one, back, Ending(end)) /\ one.targets = <<>>
      BY <2>8 DEF Continued, e
    <3>2. /\ back \in State
          /\ \/ back.day = day /\ back.phase = "BUY" /\ back.qty = first /\ Kept(back)
             \/ ~(back.day = day /\ back.phase = "BUY") /\ first = Nothing
          /\ KeptState(back)
          /\ IF e.resume = None THEN first = Nothing ELSE first = e.resume.qty
      <4>1. CASE e.resume = None
        <5>1. back = e
          BY <4>1 DEF Restored
        <5> QED BY <2>2, <2>6, <4>1, <5>1 DEF SoundSell
      <4>2. CASE e.resume # None
        <5>1. back = e.resume
          BY <4>2 DEF Restored
        <5>2. SoundBuy(back, first, late) /\ back.phase = "BUY"
          BY <2>2, <4>2, <5>1 DEF SoundSell
        <5>3. back \in State
          BY <2>2, <4>2, <5>1, NoneIs DEF State
        <5>4. Kept(back)
          BY <2>6, <4>2, <5>1 DEF SellKept
        <5> QED BY <4>2, <5>1, <5>2, <5>3, <5>4 DEF SoundBuy, KeptState
      <4> QED BY <4>1, <4>2
    <3> DEFINE rows == Deferred(one)
    <3>3. rows \in SUBSET Rows /\ rows # None
      <4>1. rows \in SUBSET Rows
        BY <2>2 DEF Deferred
      <4> QED BY <4>1, NoneIs
    <3> HIDE DEF back
    <3>4. base.qty = first
      <4>1. /\ base.prev = (IF back.day = day /\ back.phase = "BUY" THEN back ELSE Fresh("BUY"))
            /\ base.qty = base.prev.qty
        BY <1>0, <3>2, BasisIs
      <4>2. Fresh("BUY").qty = Nothing
        BY DEF Fresh
      <4> HIDE DEF base
      <4> QED BY <3>2, <4>1, <4>2
    <3>5. BuyKept(base)
      BY <1>0, <3>2, BuyStarts
    <3>6. end.state \in State /\ end.state.phase = "BUY"
      BY <1>0, <3>2, <3>3, ResolvedIs
    <3>7. RowsKept(base, sn, rows)
      <4> HIDE DEF base
      <4>1. IF e.resume = None THEN base.qty = Nothing ELSE base.qty = e.resume.qty
        BY <3>2, <3>4
      <4> QED BY <1>0, <2>2, <2>4, <2>5, <3>1, <4>1, DeferredRows DEF e
    <3>8. BuyLeaves(end)
      <4> DEFINE q == rows
      <4>1. q = IF rows # None THEN rows ELSE base.prev.defer
        BY <3>3
      <4> QED BY <1>0, <3>2, <3>3, <3>5, <3>7, <4>1, ResolvedBuy
    <3> HIDE DEF end
    <3>9. KeptState(end.state) /\ Goes(end.state, end.targets)
      BY <3>6, <3>8 DEF KeptState, BuyLeaves
    <3>10. Knowing(Ending(end))
      BY <1>0, <3>6, <3>8, <3>9, EndingKnows
    <3>11. Ending(end) = [writes |-> Ending(end).writes, targets |-> Ending(end).targets]
      BY DEF Ending
    <3>12. Knowing(Following(one, back, Ending(end)))
      BY <2>2, <2>6, <3>2, <3>10, <3>11, FollowingKnows DEF e
    <3> QED BY <3>1, <3>12 DEF Turn, one
  <2> QED BY <2>7, <2>8
<1> QED BY <1>5, <1>6

\* A write of best_execution by a tick.
LEMMA ForgetTick == Inv /\ ForgetInv /\ Tick => ForgetInv'
<1> SUFFICES ASSUME Inv, ForgetInv, Tick PROVE ForgetInv'
  OBVIOUS
<1>1. PICK t \in {Turn(sn) : sn \in Snapshots} : \E k \in DOMAIN t.writes :
       /\ Stored(t.writes[k])
       /\ todo' = IF k = Len(t.writes) THEN t.targets ELSE <<>>
  BY DEF Tick
<1>2. PICK k \in DOMAIN t.writes :
       /\ Stored(t.writes[k])
       /\ todo' = IF k = Len(t.writes) THEN t.targets ELSE <<>>
  BY <1>1
<1>3. Ready /\ route # "whole" /\ UNCHANGED <<route, day, weighted, shares, sent, pending>>
  BY DEF Tick
<1>4. Knowing(t)
  BY <1>3, TurnKnows
<1>5. k \in 1..Len(t.writes)
  BY <1>4 DEF Knowing
<1> DEFINE e == t.writes[k]
<1>6. KeptState(e) /\ e \in State
  BY <1>4, <1>5 DEF Knowing
<1>7. exec' = e /\ first' = (IF e.phase = "SELL" THEN first ELSE Overlay(e.qty, first))
  BY <1>2 DEF Stored
<1>8. Goes(e, todo')
  <2>1. CASE k = Len(t.writes)
    BY <1>2, <1>4, <2>1 DEF Knowing
  <2>2. CASE k # Len(t.writes)
    BY <1>2, <2>2 DEF Goes
  <2> QED BY <2>1, <2>2
<1> HIDE DEF e
<1>9. \A c \in Codes : (Sold(c, "BUY") # <<>>)' => first'[c] # None
  <2>1. first \in Amounts /\ e.qty \in Amounts
    BY <1>6 DEF Inv, Typed, State
  <2>2. \A c \in Codes : first[c] # None => first'[c] # None
    BY <1>7, <2>1, OverlayIs
  <2> QED BY <1>3, <2>2 DEF ForgetInv, Sold
<1>10. \A c \in Codes : FellShort(c)' = FellShort(c)
  BY <1>3 DEF FellShort, Sold
<1>11. (route = "partial" => \A c \in Codes \ weighted :
       Sold(c, "SELL") # <<>> /\ ~FellShort(c) /\ pending # <<c, "SELL">> => shares[c] = 0)'
  BY <1>3, <1>10 DEF ForgetInv, Sold
<1>12. IF e.phase = "SELL" THEN SellKept(exec)' ELSE Kept(exec)'
  <2>1. e.phase = "SELL" => SellKept(exec)'
    BY <1>3, <1>6, <1>7 DEF KeptState, SellKept, Kept, FellShort, Sold
  <2>2. e.phase # "SELL" => Kept(exec)'
    BY <1>3, <1>6, <1>7 DEF KeptState, Kept, FellShort, Sold
  <2> QED BY <2>1, <2>2
<1>13. Goes(exec, todo)'
  BY <1>3, <1>7, <1>8 DEF Goes, FellShort, Sold
<1>14. PlanKept'
  BY <1>7, <1>12, <1>13 DEF PlanKept
<1>15. WholeKept'
  BY <1>3 DEF WholeKept
<1>16. Coming'
  <2>1. pending' = None
    BY <1>3 DEF Ready
  <2> QED BY <2>1, NoneIs DEF Coming
<1>17. (Done("EXECUTED") => Complete(exec))'
  BY <1>3, <1>6, <1>7 DEF Done, KeptState, Complete, FellShort, Sold
<1> QED BY <1>9, <1>11, <1>14, <1>15, <1>16, <1>17 DEF ForgetInv

\* A step of the whole route keeps what is asked of the whole route.
LEMMA ForgetWhole ==
  ASSUME Inv, ForgetInv, route = "whole", UNCHANGED <<route, day, weighted, shares, sent, pending>>,
         pending = None, first' = first \/ \E q \in Amounts : first' = Overlay(q, first),
         WholeKept', (Done("EXECUTED") => Complete(exec))'
  PROVE  ForgetInv'
<1>1. \A c \in Codes : (Sold(c, "BUY") # <<>>)' => first'[c] # None
  <2>1. first \in Amounts
    BY DEF Inv, Typed
  <2>2. \A c \in Codes : first[c] # None => first'[c] # None
    BY <2>1, OverlayIs
  <2> QED BY <2>2 DEF ForgetInv, Sold
<1>2. Coming'
  BY NoneIs DEF Coming
<1> QED BY <1>1, <1>2 DEF ForgetInv, PlanKept

\* The whole route fixes a phase: a BUY quantity for every code of the plan.
LEMMA ForgetFixWhole == Inv /\ ForgetInv /\ FixWhole => ForgetInv'
<1> SUFFICES ASSUME Inv, ForgetInv, FixWhole PROVE ForgetInv'
  OBVIOUS
<1>1. /\ Ready /\ route = "whole" /\ Typed
      /\ UNCHANGED <<route, day, weighted, shares, sent, pending, todo>>
  BY DEF FixWhole, Inv
<1>2. pending = None
  BY <1>1 DEF Ready
<1> DEFINE ph == IF exec.day = day THEN "BUY" ELSE "SELL"
<1>3. PICK sn \in Snapshots : (\A c \in Concerned : sn.want[c] # None) /\ Stored(Whole(ph, sn))
  BY DEF FixWhole
<1> DEFINE q == [c \in Codes |->
     IF c \notin Concerned THEN None
     ELSE IF ph = "SELL" THEN Least(sn.want[c], shares[c]) ELSE sn.want[c]]
           e == Whole(ph, sn)
<1>4. e.phase = ph /\ e.qty = q /\ ph \in Phases
  BY DEF Whole, Fresh, Phases
<1>5. exec' = e /\ first' = (IF ph = "SELL" THEN first ELSE Overlay(q, first))
  BY <1>3, <1>4 DEF Stored
<1>6. q \in Amounts
  <2>1. \A c \in Codes : shares[c] \in Qtys /\ sn.want[c] \in Qtys \cup {None}
    BY <1>1, SnapshotIs DEF Typed
  <2>2. ASSUME NEW c \in Codes, c \in Concerned PROVE Least(sn.want[c], shares[c]) \in Qtys
    BY <1>3, <2>1, <2>2 DEF Least
  <2>3. \A c \in Codes : q[c] \in Qtys \cup {None}
    BY <2>1, <2>2
  <2> QED BY <2>3 DEF Amounts
<1>7. ASSUME ph # "SELL", NEW c \in Codes
      PROVE  IF c \in weighted THEN q[c] # None
             ELSE IF q[c] = None THEN shares[c] = 0 ELSE q[c] = 0
  <2>1. q[c] = IF c \notin Concerned THEN None ELSE sn.want[c]
    BY <1>7
  <2>2. shares[c] \in Nat
    BY <1>1 DEF Typed, Qtys
  <2>3. c \notin weighted => sn.want[c] \in {0, None}
    BY <1>1, OutsideIs
  <2> HIDE DEF q, ph
  <2> QED BY <1>3, <2>1, <2>2, <2>3 DEF Concerned
<1> HIDE DEF q, ph, e
<1>8. WholeKept'
  BY <1>1, <1>4, <1>5, <1>7 DEF WholeKept
<1>9. ~Done("EXECUTED")'
  BY <1>4, <1>5 DEF Done, Phases
<1> QED BY <1>1, <1>2, <1>5, <1>6, <1>8, <1>9, ForgetWhole

\* The whole route works on what misses its target.
LEMMA ForgetWorkWhole == Inv /\ ForgetInv /\ WorkWhole => ForgetInv'
<1> SUFFICES ASSUME Inv, ForgetInv, WorkWhole PROVE ForgetInv'
  OBVIOUS
<1>1. /\ Ready /\ route = "whole" /\ pending = None /\ exec.day = day
      /\ UNCHANGED <<route, day, weighted, shares, exec, sent, pending, first, late>>
  BY DEF WorkWhole, Ready
<1>2. WholeKept'
  BY <1>1 DEF WholeKept, ForgetInv
<1>3. ~Done("EXECUTED")'
  BY <1>1 DEF Ready, Done
<1> QED BY <1>1, <1>2, <1>3, ForgetWhole

\* The whole route is done when nothing misses its target.
LEMMA ForgetEndWhole == Inv /\ ForgetInv /\ EndWhole => ForgetInv'
<1> SUFFICES ASSUME Inv, ForgetInv, EndWhole PROVE ForgetInv'
  OBVIOUS
<1> DEFINE e == [exec EXCEPT !.phase = "DONE", !.status = "EXECUTED"]
<1>1. /\ Ready /\ route = "whole" /\ pending = None /\ exec.day = day /\ exec.phase = "BUY" /\ Stored(e)
      /\ Missed = {} /\ exec \in State
      /\ UNCHANGED <<route, day, weighted, shares, sent, pending, todo>>
  BY DEF EndWhole, Ready, Inv, Typed
<1>2. e.phase = "DONE" /\ e.qty = exec.qty /\ exec.qty \in Amounts
  BY <1>1 DEF State
<1>3. exec' = e /\ first' = Overlay(exec.qty, first)
  BY <1>1, <1>2 DEF Stored
<1> HIDE DEF e
<1>4. \A c \in Codes : IF c \in weighted THEN exec.qty[c] # None
                       ELSE IF exec.qty[c] = None THEN shares[c] = 0 ELSE exec.qty[c] = 0
  BY <1>1 DEF ForgetInv, WholeKept
<1>5. WholeKept'
  BY <1>1, <1>2, <1>3, <1>4 DEF WholeKept
<1>6. Complete(exec)'
  <2>1. \A c \in Codes : ~(exec.qty[c] # None /\ shares[c] # exec.qty[c])
    BY <1>1 DEF Missed
  <2>2. weighted \subseteq Codes
    BY DEF Inv, Typed
  <2> QED BY <1>1, <1>2, <1>3, <1>4, <2>1, <2>2 DEF Complete
<1> QED BY <1>1, <1>2, <1>3, <1>5, <1>6, ForgetWhole

\* A tick that sends nothing.
LEMMA ForgetSendNone == Inv /\ ForgetInv /\ SendNone => ForgetInv'
<1> SUFFICES ASSUME Inv, ForgetInv, SendNone PROVE ForgetInv'
  OBVIOUS
<1>1. /\ todo' = <<>>
      /\ UNCHANGED <<route, day, weighted, shares, exec, sent, pending, first, late>>
  BY DEF SendNone
<1>2. Kept(exec)' = Kept(exec) /\ SellKept(exec)' = SellKept(exec)
  BY <1>1 DEF SellKept, Kept, FellShort, Sold
<1>3. Goes(exec, todo)'
  BY <1>1 DEF Goes
<1>4. PlanKept'
  BY <1>1, <1>2, <1>3 DEF ForgetInv, PlanKept
<1>5. WholeKept' /\ (Done("EXECUTED") => Complete(exec))'
  BY <1>1 DEF ForgetInv, WholeKept, Done, Complete, FellShort, Sold
<1>6. Coming'
  BY <1>1 DEF ForgetInv, Coming, Leads, FellShort, Sold, Last
<1>7. (\A c \in Codes : Sold(c, "BUY") # <<>> => first[c] # None)'
  BY <1>1 DEF ForgetInv, Sold
<1>8. (route = "partial" => \A c \in Codes \ weighted :
       Sold(c, "SELL") # <<>> /\ ~FellShort(c) /\ pending # <<c, "SELL">> => shares[c] = 0)'
  BY <1>1 DEF ForgetInv, FellShort, Sold
<1> QED BY <1>4, <1>5, <1>6, <1>7, <1>8 DEF ForgetInv

\* The next signal knows nothing yet.
LEMMA ForgetNewSignal == Inv /\ ForgetInv /\ NewSignal => ForgetInv'
<1> SUFFICES ASSUME Inv, ForgetInv, NewSignal PROVE ForgetInv'
  OBVIOUS
<1>1. /\ pending' = None /\ day' = day + 1 /\ exec' = exec
      /\ sent' = [c \in Codes |-> [ph \in Phases |-> <<>>]]
  BY DEF NewSignal
<1>2. exec'.day # day'
  <2>1. exec.day \in Nat /\ day \in Nat /\ exec.day <= day
    BY DEF Inv, Typed, State
  <2> QED BY <1>1, <2>1
<1>3. \A c \in Codes : Sold(c, "SELL")' = <<>> /\ Sold(c, "BUY")' = <<>>
  BY <1>1 DEF Sold, Phases
<1>4. weighted' \subseteq Codes
  BY DEF NewSignal
<1>5. Coming'
  BY <1>1, NoneIs DEF Coming
<1> QED BY <1>2, <1>3, <1>5 DEF ForgetInv, PlanKept, WholeKept, Done

\* What a BUY state knows stays true when no order that ended short is forgotten and
\* the quantities and the codes outside the plan are looked after.
LEMMA KeptStays ==
  ASSUME NEW e, Kept(e), UNCHANGED <<route, weighted>>,
         \A c \in Codes : FellShort(c) => FellShort(c)',
         \A c \in Codes : /\ e.qty[c] # None /\ ~FellShort(c)' /\ pending' # <<c, "BUY">>
                          /\ c \in e.done \/ Sold(c, "BUY")' # <<>>
                          => shares'[c] = e.qty[c],
         \A c \in Codes \ weighted : route = "partial" /\ shares'[c] > 0 =>
           shares[c] > 0 \/ c \in RowCodes(e.defer) \/ FellShort(c)'
  PROVE  Kept(e)'
BY DEF Kept

\* The broker gets one order of the manifest.
LEMMA ForgetSend == ASSUME NEW c \in Codes PROVE Inv /\ ForgetInv /\ Send(c) => ForgetInv'
<1> SUFFICES ASSUME Inv, ForgetInv, Send(c) PROVE ForgetInv'
  OBVIOUS
<1>0. PICK ph : ph = exec.phase
  OBVIOUS
<1> DEFINE o == [side |-> IF todo[c] > shares[c] THEN "BUY" ELSE "SELL",
                qty |-> Size(todo[c] - shares[c]), fill |-> 0, st |-> "open"]
<1>1. /\ Typed /\ c \in DOMAIN todo /\ todo # <<>> /\ pending = None
      /\ sent' = [sent EXCEPT ![c][ph] = Append(@, o)]
      /\ pending' = <<c, ph>> /\ todo' = <<>>
      /\ UNCHANGED <<route, day, weighted, shares, exec, first, late>>
  BY <1>0 DEF Send, Inv
<1>2. ph \in Phases /\ Aims(exec, todo, first, late) /\ exec.day = day
  BY <1>0, <1>1 DEF Inv
<1>3. todo[c] \in Qtys /\ shares[c] \in Qtys /\ todo[c] # shares[c]
  BY <1>1, <1>2 DEF Aims, Typed
<1>4. /\ o.side = "BUY" => todo[c] = shares[c] + o.qty
      /\ o.side # "BUY" => todo[c] = shares[c] - o.qty
      /\ todo[c] = 0 => o.side = "SELL" /\ o.qty = shares[c]
  BY <1>3, ConstantsAssumption DEF Size, Qtys
<1>5. o.st = "open"
  OBVIOUS
<1> HIDE DEF o
<1>6. \A x \in Codes : \A p \in Phases :
        Sold(x, p) \in Seq(Order)
        /\ Sold(x, p)' = IF x = c /\ p = ph THEN Append(Sold(c, ph), o) ELSE Sold(x, p)
  <2>1. sent \in [Codes -> [Phases -> Seq(Order)]]
    BY <1>1 DEF Typed
  <2> QED BY <1>1, <1>2, <2>1 DEF Sold
<1>7. Sold(c, ph)' # <<>> /\ Last(Sold(c, ph)') = o
  <2>1. Sold(c, ph) \in Seq(Order) /\ Sold(c, ph)' = Append(Sold(c, ph), o)
    BY <1>2, <1>6
  <2>2. /\ Len(Append(Sold(c, ph), o)) = Len(Sold(c, ph)) + 1
        /\ Append(Sold(c, ph), o)[Len(Sold(c, ph)) + 1] = o
    BY <2>1
  <2>3. Append(Sold(c, ph), o) # <<>>
    BY <2>1, <2>2
  <2> QED BY <2>1, <2>2, <2>3 DEF Last
<1>8. \A x \in Codes : FellShort(x)' = FellShort(x)
  <2>1. ASSUME NEW x \in Codes, NEW p \in Phases
        PROVE  (\E k \in DOMAIN Sold(x, p) : Sold(x, p)[k].st \in {"failed", "dropped"})'
               = \E k \in DOMAIN Sold(x, p) : Sold(x, p)[k].st \in {"failed", "dropped"}
    <3>1. CASE x = c /\ p = ph
      <4> DEFINE s == Sold(c, ph)
                 t == Append(s, o)
      <4>1. s \in Seq(Order) /\ Sold(x, p)' = t /\ Sold(x, p) = s
        BY <1>2, <1>6, <3>1
      <4>2. /\ DOMAIN t = 1..(Len(s) + 1) /\ DOMAIN s = 1..Len(s) /\ t[Len(s) + 1] = o
            /\ \A k \in 1..Len(s) : t[k] = s[k]
        BY <4>1
      <4> HIDE DEF s, t
      <4>3. Len(s) \in Nat
        BY <4>1
      <4>4. (\E k \in DOMAIN t : t[k].st \in {"failed", "dropped"})
            = \E k \in DOMAIN s : s[k].st \in {"failed", "dropped"}
        <5>1. ASSUME NEW k \in DOMAIN t, t[k].st \in {"failed", "dropped"} PROVE k \in DOMAIN s
          <6>1. k # Len(s) + 1
            BY <1>5, <4>2, <5>1
          <6> QED BY <4>2, <4>3, <6>1
        <5>2. \A k \in DOMAIN s : k \in DOMAIN t /\ t[k] = s[k]
          BY <4>2, <4>3
        <5> QED BY <5>1, <5>2
      <4> QED BY <4>1, <4>4
    <3>2. CASE ~(x = c /\ p = ph)
      <4>1. Sold(x, p)' = Sold(x, p)
        BY <1>6, <3>2
      <4> QED BY <4>1
    <3> QED BY <3>1, <3>2
  <2> QED BY <2>1 DEF FellShort
<1>9. \A x \in Codes : \A p \in Phases : pending # <<x, p>>
  BY <1>1, NoneIs
<1>10. \A x \in Codes : \A p \in Phases :
         pending' # <<x, p>> => Sold(x, p)' = Sold(x, p)
  BY <1>1, <1>6
<1>11. \A x \in Codes : \A p \in Phases : Sold(x, p)' # Sold(x, p) => p = ph
  BY <1>6
<1>12. (\A x \in Codes : Sold(x, "BUY") # <<>> => first[x] # None)'
  <2>1. ASSUME NEW x \in Codes, (Sold(x, "BUY") # <<>>)' PROVE first[x] # None
    <3>1. CASE x = c /\ ph = "BUY"
      BY <1>0, <1>1, <1>2, <3>1 DEF Aims
    <3>2. CASE ~(x = c /\ ph = "BUY")
      <4>1. Sold(x, "BUY")' = Sold(x, "BUY")
        BY <1>6, <3>2 DEF Phases
      <4> QED BY <2>1, <4>1 DEF ForgetInv
    <3> QED BY <3>1, <3>2
  <2> QED BY <1>1, <2>1
<1>13. (route = "partial" => \A x \in Codes \ weighted :
       Sold(x, "SELL") # <<>> /\ ~FellShort(x) /\ pending # <<x, "SELL">> => shares[x] = 0)'
  <2>1. ASSUME route = "partial", NEW x \in Codes \ weighted, (Sold(x, "SELL") # <<>>)', ~FellShort(x),
               pending' # <<x, "SELL">>
        PROVE  shares[x] = 0
    <3>1. Sold(x, "SELL")' = Sold(x, "SELL") /\ pending # <<x, "SELL">>
      BY <1>9, <1>10, <2>1 DEF Phases
    <3> QED BY <2>1, <3>1 DEF ForgetInv
  <2>2. weighted \subseteq Codes
    BY <1>1 DEF Typed
  <2> QED BY <1>1, <1>8, <2>1, <2>2
<1>14. ASSUME NEW e, Kept(e) PROVE Kept(e)'
  <2>1. \A x \in Codes : pending' # <<x, "BUY">> =>
          Sold(x, "BUY")' = Sold(x, "BUY") /\ pending # <<x, "BUY">>
    BY <1>9, <1>10 DEF Phases
  <2>2. \A x \in Codes : /\ e.qty[x] # None /\ ~FellShort(x)' /\ pending' # <<x, "BUY">>
                         /\ x \in e.done \/ Sold(x, "BUY")' # <<>>
                         => shares'[x] = e.qty[x]
    BY <1>1, <1>8, <1>14, <2>1 DEF Kept
  <2> QED BY <1>1, <1>8, <1>14, <2>2, KeptStays
<1>15. PICK ex : ex = exec
  OBVIOUS
<1>15a. PICK u : u = o
  OBVIOUS
<1>16. exec' = ex /\ ph = ex.phase
  BY <1>0, <1>1, <1>15
<1>17. route # "whole" => IF ph = "SELL" THEN SellKept(exec)' ELSE Kept(exec)'
  <2>1. ASSUME route # "whole", ph = "SELL" PROVE SellKept(exec)'
    <3>1. SellKept(ex)
      BY <1>2, <1>15, <1>16, <2>1 DEF ForgetInv, PlanKept
    <3>2. ex.resume # None => Kept(ex.resume)'
      BY <1>14, <3>1 DEF SellKept
    <3> QED BY <1>1, <1>8, <1>16, <3>1, <3>2 DEF SellKept
  <2>2. ASSUME route # "whole", ph # "SELL" PROVE Kept(exec)'
    <3>1. Kept(ex)
      BY <1>2, <1>15, <1>16, <2>2 DEF ForgetInv, PlanKept
    <3> QED BY <1>14, <1>16, <3>1
  <2> QED BY <2>1, <2>2
<1>18. Goes(exec, todo)'
  BY <1>1 DEF Goes
<1>19. PlanKept'
  BY <1>1, <1>16, <1>17, <1>18 DEF PlanKept
<1>20. WholeKept'
  BY <1>1 DEF ForgetInv, WholeKept
<1>21. Coming'
  <2>1. route # "whole" => Goes(ex, todo)
    BY <1>2, <1>15 DEF ForgetInv, PlanKept
  <2>2. ASSUME route # "whole", ex.phase = "BUY"
        PROVE  FellShort(c) \/ ex.qty[c] = IF o.side = "BUY" THEN shares[c] + o.qty ELSE shares[c] - o.qty
    BY <1>1, <1>4, <2>1, <2>2 DEF Goes
  <2>3. ASSUME route # "whole", ex.phase = "SELL"
        PROVE  /\ c \in ex.scope
               /\ route = "partial" /\ c \notin weighted => o.side = "SELL" /\ shares[c] = o.qty
    BY <1>1, <1>4, <2>1, <2>3 DEF Goes
  <2>4. route' # "whole" => Leads(u, c)'
    BY <1>1, <1>8, <1>15a, <1>16, <2>2, <2>3 DEF Leads
  <2>5. ASSUME NEW x \in Codes, NEW p \in Phases, pending' = <<x, p>> PROVE x = c /\ p = ph
    BY <1>1, <2>5
  <2>6. Last(Sold(c, ph))' = u
    BY <1>7, <1>15a DEF Last
  <2>7. Leads(Last(Sold(c, ph)), c)' = Leads(u, c)'
    BY <2>6 DEF Leads
  <2>8. u.st = "open"
    BY <1>5, <1>15a
  <2> QED BY <1>16, <2>4, <2>5, <2>6, <2>7, <2>8 DEF Coming
<1>22. (Done("EXECUTED") => Complete(exec))'
  BY <1>1, <1>2, <1>16 DEF Done, Phases
<1> QED BY <1>12, <1>13, <1>19, <1>20, <1>21, <1>22 DEF ForgetInv

\* A later tick learns how much of the order was filled.
LEMMA ForgetSettle == Inv /\ ForgetInv /\ Settle => ForgetInv'
<1> SUFFICES ASSUME Inv, ForgetInv, Settle PROVE ForgetInv'
  OBVIOUS
<1>1. /\ Typed /\ OpenOrders /\ pending # None /\ pending' = None
      /\ UNCHANGED <<route, day, weighted, exec, todo, first, late>>
  BY DEF Settle, Inv
<1>2. todo = <<>> /\ todo' = <<>> /\ Coming
  BY <1>1 DEF Inv, ForgetInv
<1>3. PICK c \in Codes, ph \in Phases : pending = <<c, ph>> /\ Settles(c, ph)
  BY SettleIs
<1> DEFINE n == Len(Sold(c, ph))
           o == Sold(c, ph)[n]
<1>4. PICK f \in 0..o.qty, st \in {"filled", "failed", "dropped"} :
          /\ (st = "filled") = (f = o.qty)
          /\ sent' = [sent EXCEPT ![c][ph][n] = [o EXCEPT !.fill = f, !.st = st]]
          /\ shares' = [shares EXCEPT ![c] = IF o.side = "BUY" THEN @ + f ELSE @ - f]
  BY <1>3 DEF Settles
<1>5. \A x \in Codes : \A p \in Phases : Sold(x, p) \in Seq(Order)
  BY <1>1 DEF Typed, Sold
<1>6. Sold(c, ph) # <<>>
  BY <1>1, <1>3 DEF OpenOrders
<1>7. n \in 1..Len(Sold(c, ph)) /\ o = Last(Sold(c, ph)) /\ o \in Order
  BY <1>3, <1>5, <1>6 DEF Last
<1>8. ph = exec.phase /\ o.st = "open" /\ (route # "whole" => Leads(o, c))
  BY <1>2, <1>3, <1>7 DEF Coming
<1>9. /\ o.side = "BUY" => /\ shares[c] + o.qty \in Qtys
                           /\ ph = "BUY" => first[c] # None
      /\ o.side # "BUY" => o.side = "SELL" /\ shares[c] - o.qty \in Qtys
  BY <1>1, <1>3, <1>7 DEF OpenOrders, Order
<1> DEFINE u == [o EXCEPT !.fill = f, !.st = st]
           s == [Sold(c, ph) EXCEPT ![n] = u]
<1>10. u.st = st
  <2> HIDE DEF o
  <2> QED BY <1>7 DEF Order
<1>11. /\ DOMAIN s = 1..Len(Sold(c, ph)) /\ DOMAIN Sold(c, ph) = 1..Len(Sold(c, ph)) /\ s[n] = u
       /\ \A k \in 1..Len(Sold(c, ph)) : k # n => s[k] = Sold(c, ph)[k]
  <2> HIDE DEF u
  <2> QED BY <1>3, <1>5, <1>7
<1>12. sent' = [sent EXCEPT ![c][ph] = s]
  BY <1>4 DEF Sold
<1>13. shares \in [Codes -> Qtys]
       /\ shares' = [shares EXCEPT ![c] = IF o.side = "BUY" THEN @ + f ELSE @ - f]
  BY <1>1, <1>4 DEF Typed
<1>14. f \in Nat /\ o.qty \in Nat /\ f <= o.qty /\ (st # "filled" => st \in {"failed", "dropped"})
       /\ (st = "filled" => f = o.qty)
  BY <1>4, <1>7 DEF Order, Qtys
<1>15. o = Sold(c, ph)[n]
  OBVIOUS
<1> HIDE DEF s, u, n, o
<1>16. sent \in [Codes -> [Phases -> Seq(Order)]]
  BY <1>1 DEF Typed
<1>17. \A x \in Codes : \A p \in Phases :
         Sold(x, p)' = IF x = c /\ p = ph THEN s ELSE Sold(x, p)
  BY <1>3, <1>12, <1>16 DEF Sold
<1>18. \A x \in Codes : \A p \in Phases : Sold(x, p)' # <<>> => Sold(x, p) # <<>>
  BY <1>6, <1>17
<1>19. \A x \in Codes : FellShort(x) => FellShort(x)'
  <2>1. ASSUME NEW x \in Codes, NEW p \in Phases, NEW k \in DOMAIN Sold(x, p),
               Sold(x, p)[k].st \in {"failed", "dropped"}
        PROVE  k \in DOMAIN Sold(x, p)' /\ Sold(x, p)'[k].st \in {"failed", "dropped"}
    <3>1. CASE x = c /\ p = ph
      <4>1. k \in 1..Len(Sold(c, ph)) /\ k # n
        BY <1>8, <1>11, <1>15, <2>1, <3>1
      <4> QED BY <1>11, <1>17, <2>1, <3>1, <4>1
    <3>2. CASE ~(x = c /\ p = ph)
      BY <1>17, <2>1, <3>2
    <3> QED BY <3>1, <3>2
  <2>2. ASSUME NEW x \in Codes, FellShort(x) PROVE FellShort(x)'
    <3>1. PICK p \in Phases : \E k \in DOMAIN Sold(x, p) : Sold(x, p)[k].st \in {"failed", "dropped"}
      BY <2>2 DEF FellShort
    <3>2. PICK k \in DOMAIN Sold(x, p) : Sold(x, p)[k].st \in {"failed", "dropped"}
      BY <3>1
    <3>3. k \in DOMAIN Sold(x, p)' /\ Sold(x, p)'[k].st \in {"failed", "dropped"}
      BY <2>1, <3>2
    <3> QED BY <3>3 DEF FellShort
  <2> QED BY <2>2
<1>20. FellShort(c)' \/ f = o.qty
  <2>1. ASSUME st # "filled" PROVE FellShort(c)'
    <3>1. n \in DOMAIN Sold(c, ph)' /\ Sold(c, ph)'[n].st \in {"failed", "dropped"}
      BY <1>7, <1>10, <1>11, <1>14, <1>17, <2>1
    <3> QED BY <3>1 DEF FellShort
  <2> QED BY <1>14, <2>1
<1>21. shares'[c] = (IF o.side = "BUY" THEN shares[c] + f ELSE shares[c] - f)
       /\ \A x \in Codes : x # c => shares'[x] = shares[x]
  BY <1>13
<1>22. exec.day = day
  BY <1>6 DEF Inv
<1>23. \A x \in Codes : \A p \in Phases : x # c \/ p # ph => pending # <<x, p>>
  BY <1>3
<1>24. weighted \subseteq Codes /\ shares[c] \in Nat
  BY <1>1, <1>13 DEF Typed, Qtys
<1>25. (\A x \in Codes : Sold(x, "BUY") # <<>> => first[x] # None)'
  BY <1>1, <1>18 DEF ForgetInv, Phases
<1>26. PICK ex : ex = exec
  OBVIOUS
<1>27. exec' = ex /\ ph = ex.phase
  BY <1>1, <1>8, <1>26
<1>28. route # "whole" /\ ph = "BUY" =>
         \/ FellShort(c)
         \/ c \in weighted /\ ex.qty[c] = IF o.side = "BUY" THEN shares[c] + o.qty ELSE shares[c] - o.qty
  <2> SUFFICES ASSUME route # "whole", ph = "BUY", ~FellShort(c)
               PROVE  c \in weighted /\ ex.qty[c] = IF o.side = "BUY" THEN shares[c] + o.qty ELSE shares[c] - o.qty
    OBVIOUS
  <2>1. ex.qty[c] = IF o.side = "BUY" THEN shares[c] + o.qty ELSE shares[c] - o.qty
    BY <1>8, <1>26 DEF Leads
  <2>2. ex.qty[c] # None
    BY <1>9, <2>1, NoneIs
  <2>3. Kept(ex)
    BY <1>8, <1>22, <1>26 DEF ForgetInv, PlanKept
  <2> QED BY <2>1, <2>2, <2>3 DEF Kept
<1>29. route # "whole" /\ ph = "SELL" =>
         /\ c \in ex.scope
         /\ route = "partial" /\ c \notin weighted => FellShort(c)' \/ shares'[c] = 0
  <2>1. ASSUME route # "whole", ph = "SELL", route = "partial", c \notin weighted, f = o.qty
        PROVE  shares'[c] = 0
    <3>1. o.side = "SELL" /\ shares[c] = o.qty
      BY <1>8, <2>1 DEF Leads
    <3> QED BY <1>14, <1>21, <2>1, <3>1
  <2>2. route # "whole" /\ ph = "SELL" => c \in ex.scope
    BY <1>8, <1>26 DEF Leads
  <2> QED BY <1>20, <2>1, <2>2
<1>30. (route = "partial" => \A x \in Codes \ weighted :
       Sold(x, "SELL") # <<>> /\ ~FellShort(x) /\ pending # <<x, "SELL">> => shares[x] = 0)'
  <2>1. ASSUME route = "partial", NEW x \in Codes \ weighted, (Sold(x, "SELL") # <<>>)', ~FellShort(x)'
        PROVE  shares'[x] = 0
    <3>1. CASE x = c /\ ph = "SELL"
      BY <1>29, <2>1, <3>1
    <3>2. CASE x = c /\ ph = "BUY"
      BY <1>19, <1>28, <2>1, <3>2
    <3>3. CASE x # c
      <4>1. Sold(x, "SELL") # <<>> /\ ~FellShort(x) /\ pending # <<x, "SELL">>
        BY <1>18, <1>19, <1>23, <2>1, <3>3 DEF Phases
      <4>2. shares[x] = 0
        BY <2>1, <4>1 DEF ForgetInv
      <4> QED BY <1>21, <3>3, <4>2
    <3> QED BY <3>1, <3>2, <3>3 DEF Phases
  <2> QED BY <1>1, <1>24, <2>1
<1>31. route # "whole" => IF ph = "SELL" THEN SellKept(exec)' ELSE Kept(exec)'
  <2>1. ASSUME route # "whole", ph = "SELL" PROVE SellKept(exec)'
    <3>1. SellKept(ex)
      BY <1>22, <1>26, <1>27, <2>1 DEF ForgetInv, PlanKept
    <3>2. ASSUME ex.resume # None PROVE Kept(ex.resume)'
      <4> DEFINE e == ex.resume
      <4>1. Kept(e) /\ c \in RowCodes(e.defer)
        BY <1>29, <2>1, <3>1, <3>2 DEF SellKept
      <4> HIDE DEF e
      <4>2. ASSUME NEW x \in Codes, e.qty[x] # None, ~FellShort(x)', x \in e.done \/ Sold(x, "BUY")' # <<>>
            PROVE  shares'[x] = e.qty[x]
        <5>1. ~FellShort(x)
          BY <1>19, <4>2
        <5>2. x # c
          BY <4>1, <4>2, <5>1 DEF Kept
        <5>3. pending # <<x, "BUY">> /\ (x \in e.done \/ Sold(x, "BUY") # <<>>)
          BY <1>18, <1>23, <4>2, <5>2 DEF Phases
        <5>4. shares[x] = e.qty[x]
          BY <4>1, <4>2, <5>1, <5>3 DEF Kept
        <5> QED BY <1>21, <5>2, <5>4
      <4>3. \A x \in Codes \ weighted : route = "partial" /\ shares'[x] > 0 =>
              shares[x] > 0 \/ x \in RowCodes(e.defer) \/ FellShort(x)'
        BY <1>21, <4>1
      <4>4. Kept(e)'
        BY <1>1, <1>19, <4>1, <4>2, <4>3, KeptStays
      <4> QED BY <4>4 DEF e
    <3>3. ASSUME route = "partial", NEW x \in Codes \ weighted, x \in ex.done
          PROVE  shares'[x] = 0 \/ FellShort(x)'
      <4>1. CASE x = c
        BY <1>29, <2>1, <3>3, <4>1
      <4>2. CASE x # c
        BY <1>19, <1>21, <3>1, <3>3, <4>2 DEF SellKept
      <4> QED BY <4>1, <4>2
    <3> QED BY <1>1, <1>24, <1>27, <3>1, <3>2, <3>3 DEF SellKept
  <2>2. ASSUME route # "whole", ph # "SELL" PROVE Kept(exec)'
    <3>1. Kept(ex) /\ ph = "BUY"
      BY <1>22, <1>26, <1>27, <2>2 DEF ForgetInv, PlanKept, Phases
    <3>2. ASSUME NEW x \in Codes, ex.qty[x] # None, ~FellShort(x)', x \in ex.done \/ Sold(x, "BUY")' # <<>>
          PROVE  shares'[x] = ex.qty[x]
      <4>1. ~FellShort(x)
        BY <1>19, <3>2
      <4>2. CASE x = c
        <5>1. f = o.qty
          BY <1>20, <3>2, <4>2
        <5> QED BY <1>21, <1>28, <2>2, <3>1, <4>1, <4>2, <5>1
      <4>3. CASE x # c
        <5>1. pending # <<x, "BUY">> /\ (x \in ex.done \/ Sold(x, "BUY") # <<>>)
          BY <1>18, <1>23, <3>2, <4>3 DEF Phases
        <5>2. shares[x] = ex.qty[x]
          BY <3>1, <3>2, <4>1, <5>1 DEF Kept
        <5> QED BY <1>21, <4>3, <5>2
      <4> QED BY <4>2, <4>3
    <3>3. \A x \in Codes \ weighted : route = "partial" /\ shares'[x] > 0 =>
            shares[x] > 0 \/ x \in RowCodes(ex.defer) \/ FellShort(x)'
      BY <1>19, <1>21, <1>28, <2>2, <3>1
    <3>4. Kept(ex)'
      BY <1>1, <1>19, <3>1, <3>2, <3>3, KeptStays
    <3> QED BY <1>27, <3>4
  <2> QED BY <2>1, <2>2
<1>32. Goes(exec, todo)'
  BY <1>2 DEF Goes
<1>33. PlanKept'
  BY <1>1, <1>27, <1>31, <1>32 DEF PlanKept
<1>34. WholeKept'
  <2>1. ASSUME route = "whole", ph = "BUY", NEW x \in Codes
        PROVE  IF x \in weighted THEN ex.qty[x] # None
               ELSE IF ex.qty[x] = None THEN shares'[x] = 0 ELSE ex.qty[x] = 0
    <3>1. IF x \in weighted THEN ex.qty[x] # None
          ELSE IF ex.qty[x] = None THEN shares[x] = 0 ELSE ex.qty[x] = 0
      BY <1>22, <1>26, <1>27, <2>1 DEF ForgetInv, WholeKept
    <3>2. ASSUME x = c, ex.qty[x] = None, shares[x] = 0 PROVE shares'[x] = 0
      <4>1. ex.qty = first
        BY <1>22, <1>26, <1>27, <2>1 DEF Inv, Sound, SoundBuy, SoundSell
      <4>2. o.side = "SELL" /\ shares[c] - o.qty \in Qtys
        BY <1>9, <2>1, <3>2, <4>1
      <4>3. o.qty = 0 /\ f = 0
        BY <1>14, <3>2, <4>2 DEF Qtys
      <4> QED BY <1>21, <3>2, <4>2, <4>3
    <3> QED BY <1>21, <3>1, <3>2
  <2> QED BY <1>1, <1>27, <2>1 DEF WholeKept, Phases
<1>35. Coming'
  BY <1>1, NoneIs DEF Coming
<1>36. (Done("EXECUTED") => Complete(exec))'
  BY <1>27 DEF Done, Phases
<1> QED BY <1>25, <1>30, <1>33, <1>34, <1>35, <1>36 DEF ForgetInv

\* Nothing is known at the beginning.
LEMMA ForgetInit == Init => ForgetInv
<1> SUFFICES ASSUME Init PROVE ForgetInv
  OBVIOUS
<1>1. \A c \in Codes : \A ph \in Phases : Sold(c, ph) = <<>>
  BY DEF Init, Sold
<1>2. exec.day # day
  <2>1. NoExec.day = 0
    BY DEF NoExec, Fresh
  <2> QED BY <2>1 DEF Init
<1>3. Coming
  BY NoneIs DEF Init, Coming
<1>4. \A c \in Codes : Sold(c, "BUY") = <<>> /\ Sold(c, "SELL") = <<>>
  BY <1>1 DEF Phases
<1> QED BY <1>2, <1>3, <1>4 DEF ForgetInv, PlanKept, WholeKept, Done

\* No step forgets anything.
LEMMA ForgetStep == Inv /\ ForgetInv /\ [Next]_vars => ForgetInv'
<1> SUFFICES ASSUME Inv, ForgetInv, [Next]_vars PROVE ForgetInv'
  OBVIOUS
<1>1. CASE Tick
  BY <1>1, ForgetTick
<1>2. CASE FixWhole
  BY <1>2, ForgetFixWhole
<1>3. CASE WorkWhole
  BY <1>3, ForgetWorkWhole
<1>4. CASE EndWhole
  BY <1>4, ForgetEndWhole
<1>5. CASE \E c \in Codes : Send(c)
  BY <1>5, ForgetSend
<1>6. CASE SendNone
  BY <1>6, ForgetSendNone
<1>7. CASE Settle
  BY <1>7, ForgetSettle
<1>8. CASE NewSignal
  BY <1>8, ForgetNewSignal
<1>9. CASE UNCHANGED vars
  <2>1. UNCHANGED <<route, day, weighted, shares, exec, sent, pending, todo, first, late>>
    BY <1>9 DEF vars
  <2>2. PlanKept'
    BY <2>1 DEF ForgetInv, PlanKept, SellKept, Kept, Goes, FellShort, Sold
  <2>3. WholeKept' /\ (Done("EXECUTED") => Complete(exec))'
    BY <2>1 DEF ForgetInv, WholeKept, Done, Complete, FellShort, Sold
  <2>4. Coming'
    BY <2>1 DEF ForgetInv, Coming, Leads, FellShort, Sold, Last
  <2>5. (\A c \in Codes : Sold(c, "BUY") # <<>> => first[c] # None)'
    BY <2>1 DEF ForgetInv, Sold
  <2>6. (route = "partial" => \A c \in Codes \ weighted :
         Sold(c, "SELL") # <<>> /\ ~FellShort(c) /\ pending # <<c, "SELL">> => shares[c] = 0)'
    BY <2>1 DEF ForgetInv, FellShort, Sold
  <2> QED BY <2>2, <2>3, <2>4, <2>5, <2>6 DEF ForgetInv
<1> QED BY <1>1, <1>2, <1>3, <1>4, <1>5, <1>6, <1>7, <1>8, <1>9 DEF Next

\* NothingForgotten: a signal that is reported as executed has decided every code of
\* its plan, holds what it decided and, but on the automatic route, nothing outside
\* the plan, unless an order for the code ended short.  The argument: a code only
\* becomes processed with a quantity or a resolved SELL, it stays so in the BUY state
\* that a detour keeps (Kept), every SELL that found no quote is handed on as a
\* deferred row, and DONE is not written as executed while a row is skipped.
THEOREM NothingIsForgotten == Spec => []NothingForgotten
<1>1. Inv /\ ForgetInv => NothingForgotten
  <2> SUFFICES ASSUME Inv, ForgetInv, Done("EXECUTED") PROVE NothingForgotten
    BY DEF NothingForgotten
  <2>1. Complete(exec) /\ Typed
    BY DEF ForgetInv, Inv
  <2>2. \A c \in weighted : exec.qty[c] # None \/ exec.frozen[c] # None
    BY <2>1 DEF Complete
  <2>3. ASSUME NEW c \in Codes, FellShort(c)
        PROVE  \E k \in DOMAIN Orders(c) : Orders(c)[k].st # "filled"
    <3> DEFINE s == Sold(c, "SELL")
               t == Sold(c, "BUY")
    <3>1. s \in Seq(Order) /\ t \in Seq(Order)
      BY <2>1 DEF Typed, Sold, Phases
    <3>2. \/ \E k \in DOMAIN s : s[k].st \in {"failed", "dropped"}
          \/ \E k \in DOMAIN t : t[k].st \in {"failed", "dropped"}
      BY <2>3 DEF FellShort, Phases
    <3>3. Orders(c) = s \o t
      BY DEF Orders
    <3> HIDE DEF s, t
    <3>4. CASE \E k \in DOMAIN s : s[k].st \in {"failed", "dropped"}
      <4>1. PICK k \in DOMAIN s : s[k].st \in {"failed", "dropped"}
        BY <3>4
      <4>2. k \in DOMAIN (s \o t) /\ (s \o t)[k] = s[k]
        BY <3>1
      <4> QED BY <3>3, <4>1, <4>2
    <3>5. CASE \E k \in DOMAIN t : t[k].st \in {"failed", "dropped"}
      <4>1. PICK k \in DOMAIN t : t[k].st \in {"failed", "dropped"}
        BY <3>5
      <4>2. Len(s) + k \in DOMAIN (s \o t) /\ (s \o t)[Len(s) + k] = t[k]
        BY <3>1
      <4> QED BY <3>3, <4>1, <4>2
    <3> QED BY <3>2, <3>4, <3>5
  <2>4. ASSUME NEW c \in Codes,
               \/ exec.qty[c] # None /\ shares[c] # exec.qty[c]
               \/ route # "auto" /\ c \notin weighted /\ shares[c] > 0
        PROVE  route # "whole" /\ FellShort(c)
    <3>1. CASE exec.qty[c] # None /\ shares[c] # exec.qty[c]
      BY <2>1, <3>1 DEF Complete
    <3>2. CASE route = "partial" /\ c \notin weighted /\ shares[c] > 0
      BY <2>1, <3>2 DEF Complete
    <3>3. CASE route = "whole" /\ c \notin weighted /\ shares[c] > 0 /\ ~(exec.qty[c] # None /\ shares[c] # exec.qty[c])
      <4>1. IF exec.qty[c] = None THEN shares[c] = 0 ELSE exec.qty[c] = 0
        BY <3>3 DEF ForgetInv, WholeKept, Done
      <4>2. shares[c] # 0
        BY <3>3
      <4> QED BY <3>3, <4>1, <4>2
    <3>4. route \in {"whole", "partial", "auto"}
      BY <2>1, ConstantsAssumption DEF Typed
    <3> QED BY <2>4, <3>1, <3>2, <3>3, <3>4
  <2> QED BY <2>2, <2>3, <2>4 DEF NothingForgotten
<1>2. Spec => []ForgetInv
  BY ForgetInit, ForgetStep, InvHolds, PTL DEF Spec
<1> QED BY <1>1, <1>2, InvHolds, PTL
=============================================================================
