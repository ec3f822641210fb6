------------------------- MODULE AgentBondExchange --------------------------
(***************************************************************************)
(* The AgentBond program implements FairExchange: the mapping that sees    *)
(* every token the program keeps as the property of one party, or as the   *)
(* price set aside for one job.                                            *)
(***************************************************************************)
EXTENDS AgentBond

StageOf == [None |-> "idle", Created |-> "offered", Funded |-> "held",
            Accepted |-> "held", Submitted |-> "delivered",
            Challenged |-> "delivered", Settled |-> "paid",
            Refunded |-> "returned", Expired |-> "void", Slashed |-> "awarded"]

Principal(k) == IF job[k].state \in HeldStates THEN job[k].amount ELSE 0

\* A party owns its wallet and what it has deposited as a bond.
Equity(a) == wallet[a] + (IF a \in Providers THEN bond[a].deposited ELSE 0)

Exchange == INSTANCE FairExchange WITH
    Jobs <- JobKeys,
    Prices <- Amounts,
    InitialEquity <- InitialWallet,
    stage <- [k \in JobKeys |-> StageOf[job[k].state]],
    price <- [k \in JobKeys |-> job[k].amount],
    equity <- [a \in Parties |-> Equity(a)],
    surplus <- [k \in JobKeys |-> escrow[k] - Principal(k)]

\* Every instruction of the program, in any order, is a step of the fair
\* exchange or leaves all parties' equity and every job's stage alone: tokens
\* change owner only by paying for a delivered job or by slashing its provider.
ImplementsFairExchange == Exchange!Spec

==============================================================================
