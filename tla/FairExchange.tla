---------------------------- MODULE FairExchange ----------------------------
(***************************************************************************)
(* What the AgentBond escrow promises to buyers and providers, without     *)
(* accounts, deadlines, bonds or token transfers.  A party's equity is     *)
(* what is its own, wherever the program keeps it, the price of a job that *)
(* is held or delivered set aside.  Tokens move between parties in two     *)
(* ways only: a delivered job is paid for, or the provider of a delivered  *)
(* job loses a stake to the buyer.                                         *)
(***************************************************************************)
EXTENDS Integers

CONSTANTS Parties, Jobs, BuyerOf(_), ProviderOf(_), Prices, InitialEquity

VARIABLES
    stage,      \* what has been agreed and done about each job
    price,      \* the price of each job
    equity,     \* what each party owns, less what is held for its jobs
    surplus     \* tokens anyone has added to a job's escrow unasked

vars == <<stage, price, equity, surplus>>

Open   == {"offered", "held", "delivered"}
Closed == {"paid", "returned", "awarded", "void"}

Init ==
    /\ stage = [k \in Jobs |-> "idle"]
    /\ price = [k \in Jobs |-> 0]
    /\ equity = InitialEquity
    /\ surplus = [k \in Jobs |-> 0]

Enter(k, from, to) ==
    /\ stage[k] = from
    /\ stage' = [stage EXCEPT ![k] = to]

Offer(k) ==
    /\ Enter(k, "idle", "offered")
    /\ \E x \in Prices \ {0} : price' = [price EXCEPT ![k] = x]
    /\ UNCHANGED <<equity, surplus>>

Plus(e, a, x) == [e EXCEPT ![a] = @ + x]

\* The buyer can pay the price and sets it aside; an escrow with a surplus in
\* it does not take a price.
Hold(k) ==
    /\ surplus[k] = 0
    /\ Enter(k, "offered", "held")
    /\ price[k] <= equity[BuyerOf(k)]
    /\ equity' = Plus(equity, BuyerOf(k), -price[k])
    /\ UNCHANGED <<price, surplus>>

Deliver(k) ==
    /\ Enter(k, "held", "delivered")
    /\ UNCHANGED <<price, equity, surplus>>

Void(k) ==
    /\ Enter(k, "offered", "void")
    /\ UNCHANGED <<price, equity, surplus>>

\* The surplus of a job's escrow ends up with its buyer.
SweepTo(k, e) ==
    /\ surplus' = [surplus EXCEPT ![k] = 0]
    /\ equity' = Plus(e, BuyerOf(k), surplus[k])
    /\ UNCHANGED price

\* What was set aside is the provider's.
Pay(k) ==
    /\ Enter(k, "delivered", "paid")
    /\ SweepTo(k, Plus(equity, ProviderOf(k), price[k]))

\* It is the buyer's again.
Return(k) ==
    /\ Enter(k, "held", "returned")
    /\ SweepTo(k, Plus(equity, BuyerOf(k), price[k]))

\* It is the buyer's again, and a stake of the provider's with it.
Award(k) ==
    /\ Enter(k, "delivered", "awarded")
    /\ \E stake \in 1 .. equity[ProviderOf(k)] :
          SweepTo(k, Plus(Plus(equity, ProviderOf(k), -stake),
                          BuyerOf(k), price[k] + stake))

Forget(k) ==
    /\ stage[k] \in Closed
    /\ stage' = [stage EXCEPT ![k] = "idle"]
    /\ price' = [price EXCEPT ![k] = 0]
    /\ UNCHANGED <<equity, surplus>>

\* A party gives a token away, to a job's escrow or to where it is lost.
Give(a) ==
    /\ equity' = [equity EXCEPT ![a] = @ - 1]
    /\ \/ UNCHANGED surplus
       \/ \E k \in Jobs : surplus' = [surplus EXCEPT ![k] = @ + 1]
    /\ UNCHANGED <<stage, price>>

Next ==
    \/ \E k \in Jobs :
          \/ Offer(k) \/ Hold(k) \/ Deliver(k) \/ Void(k)
          \/ Pay(k) \/ Return(k) \/ Award(k) \/ Forget(k)
    \/ \E a \in Parties : Give(a)

Spec == Init /\ [][Next]_vars
==============================================================================
