---------------------------- MODULE OrderIntents ----------------------------
(***************************************************************************)
(* What Engine promises of the orders it sends to a simulated account,      *)
(* whatever crashes, lost answers and stop requests come between its steps: *)
(* one undecided intent at a time, an intent that reaches the broker at     *)
(* most once, withdrawn only when it never left, and settled only by what   *)
(* the broker finished.                                                     *)
(***************************************************************************)
CONSTANT Ids
VARIABLES phase,   \* what the durable row says of each intent
          flying,  \* requests on their way to the broker
          reached, \* intents the broker made an order of
          closed   \* orders the broker has finished

vars == <<phase, flying, reached, closed>>

Init ==
  /\ phase = [i \in Ids |-> "none"]
  /\ flying = {} /\ reached = {} /\ closed = {}

Intend(i) ==
  /\ phase[i] \in {"none", "unsent"}
  /\ \A j \in Ids : phase[j] # "intended"
  /\ phase' = [phase EXCEPT ![i] = "intended"]
  /\ UNCHANGED <<flying, reached, closed>>

Withdraw(i) ==
  /\ phase[i] = "intended" /\ i \notin flying \cup reached
  /\ phase' = [phase EXCEPT ![i] = "unsent"]
  /\ UNCHANGED <<flying, reached, closed>>

Send(i) ==
  /\ phase[i] = "intended" /\ i \notin flying \cup reached
  /\ flying' = flying \cup {i}
  /\ UNCHANGED <<phase, reached, closed>>

Arrive(i) ==
  /\ i \in flying
  /\ flying' = flying \ {i} /\ reached' = reached \cup {i}
  /\ UNCHANGED <<phase, closed>>

Lose(i) ==
  /\ i \in flying
  /\ flying' = flying \ {i}
  /\ UNCHANGED <<phase, reached, closed>>

Close(i) ==
  /\ i \in reached \ closed
  /\ closed' = closed \cup {i}
  /\ UNCHANGED <<phase, flying, reached>>

Settle(i) ==
  /\ phase[i] = "intended" /\ i \in closed
  /\ phase' = [phase EXCEPT ![i] = "settled"]
  /\ UNCHANGED <<flying, reached, closed>>

Next == \E i \in Ids : \/ Intend(i) \/ Withdraw(i) \/ Send(i) \/ Arrive(i)
                       \/ Lose(i) \/ Close(i) \/ Settle(i)

Spec == Init /\ [][Next]_vars
=============================================================================
