----------------------------- MODULE MCAgentBond -----------------------------
(* Small instances of the AgentBond program for TLC. *)
EXTENDS AgentBondExchange, TLC

Deadlines(f, a, w, s) == [fund |-> f, accept |-> a, work |-> w, auto |-> s]

\* One schedule that leaves room for a job after it, one that ends at the last
\* timestamp, and one that is out of order.
MCSchedules == {Deadlines(1, 2, 3, 4), Deadlines(2, 3, 4, 5), Deadlines(1, 2, 2, 4)}

\* A receipt valid throughout, one that expires before the work deadline, one
\* from the future at submission time and one with its dates reversed.
MCWindows == {[created |-> 0, expires |-> 5], [created |-> 3, expires |-> 5],
              [created |-> 2, expires |-> 1]}

\* A single schedule and receipt, for runs about who owns what.
OneSchedule == {Deadlines(1, 2, 3, 4)}
\* One during which a job can be finished, closed and created again.
LongSchedule == {Deadlines(2, 3, 4, 5)}
OneWindow == {[created |-> 0, expires |-> 4]}

FourTokens == [a \in Parties |-> 4]

\* A token for the bond; the price and one to donate.
BuyerRich == [a \in Parties |-> IF a \in Buyers THEN 2 ELSE 1]
MCWallet == [a \in Parties |-> 2]
Symm == Permutations(Nonces) \cup Permutations(Keys)
==============================================================================
