--------------------------- MODULE MCOrderEngine ---------------------------
(***************************************************************************)
(* Small instances of OrderEngine.                                          *)
(***************************************************************************)
EXTENDS OrderEngine, TLC
CONSTANTS a1, a2, c1, c2

\* One code driven by a BestBroker: an automatic BUY plan, a first attempt cut
\* to a smaller target, and a retry.
Buy(g, q) == [sig |-> "s1", plan |-> TRUE, auto |-> TRUE, phase |-> "BUY",
              target |-> [c \in {c1} |-> q], gen |-> [c \in {c1} |-> g]]
OneRetry == {Buy(0, 2), Buy(0, 1), Buy(1, 2)}
NoShares1 == [c \in {c1} |-> 0]

\* Two codes driven by the operator: sell one, buy the other.
Swap(s, q1, q2) == [sig |-> s, plan |-> FALSE, auto |-> FALSE, phase |-> "BUY",
                    target |-> (c1 :> q1 @@ c2 :> q2), gen |-> [c \in {c1, c2} |-> 0]]
OneSwap == {Swap("s1", 1, 0)}
Second == c1 :> 0 @@ c2 :> 1

=============================================================================
