----------------------------- MODULE SettleOnce -----------------------------
(***************************************************************************)
(* What the x402 settlement store promises about a payment transaction,    *)
(* without leases, retries or clocks: it is bound to one purchase, at most *)
(* one answer is ever recorded for it, and every client that is served     *)
(* gets that purchase with that answer.                                    *)
(***************************************************************************)
CONSTANTS Txs, Bindings, Responses, NoBinding, NoResponse

VARIABLES
    bound,      \* the purchase each transaction pays for
    answer,     \* the recorded settlement of each transaction
    served      \* what clients have received

vars == <<bound, answer, served>>

Init ==
    /\ bound = [t \in Txs |-> NoBinding]
    /\ answer = [t \in Txs |-> NoResponse]
    /\ served = {}

Bind(t, b) ==
    /\ bound[t] = NoBinding
    /\ bound' = [bound EXCEPT ![t] = b]
    /\ UNCHANGED <<answer, served>>

Settle(t, r) ==
    /\ bound[t] # NoBinding
    /\ answer[t] = NoResponse
    /\ answer' = [answer EXCEPT ![t] = r]
    /\ UNCHANGED <<bound, served>>

Serve(t) ==
    /\ answer[t] # NoResponse
    /\ served' = served \cup {[tx |-> t, binding |-> bound[t], response |-> answer[t]]}
    /\ UNCHANGED <<bound, answer>>

Next ==
    \E t \in Txs :
        \/ \E b \in Bindings : Bind(t, b)
        \/ \E r \in Responses : Settle(t, r)
        \/ Serve(t)

Spec == Init /\ [][Next]_vars
==============================================================================
