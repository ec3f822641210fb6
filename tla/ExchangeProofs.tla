---------------------------- MODULE ExchangeProofs ---------------------------
(***************************************************************************)
(* Proofs about what the AgentBond program promises and about the clients  *)
(* that end its jobs: the program implements FairExchange, and the plans   *)
(* that clients make are the ones the program executes.                    *)
(***************************************************************************)
EXTENDS AgentBondProofs, PlannedExchange

-----------------------------------------------------------------------------
(* The fair exchange that a state of the program stands for *)

StageMap   == [k \in JobKeys |-> StageOf[job[k].state]]
PriceMap   == [k \in JobKeys |-> job[k].amount]
EquityMap  == [a \in Parties |-> Equity(a)]
SurplusMap == [k \in JobKeys |-> escrow[k] - Principal(k)]

\* What a party owns and what is set aside are natural numbers, and no escrow
\* holds less than its principal.
LEMMA MapTypes ==
    ASSUME AccountingInv
    PROVE  /\ \A a \in Parties : wallet[a] \in Nat /\ Equity(a) \in Nat
           /\ \A p \in Providers : bond[p].deposited \in Nat
           /\ \A k \in JobKeys : /\ job[k].amount \in Nat /\ escrow[k] \in Nat
                                 /\ Principal(k) \in Nat
<1>1. /\ \A a \in Parties : wallet[a] \in Nat
      /\ \A k \in JobKeys : escrow[k] \in Nat
  BY DEF AccountingInv, TypeOK
<1>2. \A p \in Providers : bond[p].deposited \in Nat
  BY BondFields DEF AccountingInv
<1>3. \A k \in JobKeys : job[k].amount \in Nat
  BY JobFields DEF AccountingInv
<1> QED
  BY <1>1, <1>2, <1>3 DEF Equity, Principal

\* A job that changes its state and keeps its amount.
LEMMA StageStep ==
    ASSUME TypeOK, NEW k \in JobKeys, NEW j \in JobRecord, NEW to, j.state = to,
           job' = [job EXCEPT ![k] = j]
    PROVE  /\ StageMap' = [StageMap EXCEPT ![k] = StageOf[to]]
           /\ PriceMap' = [PriceMap EXCEPT ![k] = j.amount]
           /\ j.amount = job[k].amount => PriceMap' = PriceMap
           /\ \A l \in JobKeys : l # k => Principal(l)' = Principal(l)
           /\ Principal(k)' = IF to \in HeldStates THEN j.amount ELSE 0
<1>1. job \in [JobKeys -> JobRecord]
  BY DEF TypeOK
<1>2. /\ job'[k] = j
      /\ \A l \in JobKeys : l # k => job'[l] = job[l]
  BY <1>1
<1>3. StageMap' = [StageMap EXCEPT ![k] = StageOf[to]]
  <2>1. /\ StageMap' = [l \in JobKeys |-> StageOf[job'[l].state]]
        /\ StageMap = [l \in JobKeys |-> StageOf[job[l].state]]
    BY DEF StageMap
  <2>2. \A l \in JobKeys : StageOf[job'[l].state] = IF l = k THEN StageOf[to]
                                                    ELSE StageOf[job[l].state]
    BY <1>2
  <2> QED BY <2>1, <2>2
<1>4. PriceMap' = [PriceMap EXCEPT ![k] = j.amount]
  <2>1. /\ PriceMap' = [l \in JobKeys |-> job'[l].amount]
        /\ PriceMap = [l \in JobKeys |-> job[l].amount]
    BY DEF PriceMap
  <2>2. \A l \in JobKeys : job'[l].amount = IF l = k THEN j.amount ELSE job[l].amount
    BY <1>2
  <2> QED BY <2>1, <2>2
<1>5. j.amount = job[k].amount => PriceMap' = PriceMap
  BY <1>2 DEF PriceMap
<1> QED
  BY <1>2, <1>3, <1>4, <1>5 DEF Principal

\* A step that changes neither jobs, escrows nor equity stutters.
LEMMA StutterStep ==
    ASSUME StageMap' = StageMap, PriceMap' = PriceMap, EquityMap' = EquityMap,
           SurplusMap' = SurplusMap
    PROVE  UNCHANGED Exchange!vars
BY DEF Exchange!vars, StageMap, PriceMap, EquityMap, SurplusMap

\* An escrow whose balance becomes x while its principal becomes y.
LEMMA SurplusStep ==
    ASSUME TypeOK, NEW k \in JobKeys, NEW x \in Int, NEW y \in Int,
           escrow' = [escrow EXCEPT ![k] = x], Principal(k)' = y,
           \A l \in JobKeys : l # k => Principal(l)' = Principal(l)
    PROVE  SurplusMap' = [SurplusMap EXCEPT ![k] = x - y]
<1>1. /\ SurplusMap' = [l \in JobKeys |-> escrow'[l] - Principal(l)']
      /\ SurplusMap = [l \in JobKeys |-> escrow[l] - Principal(l)]
  BY DEF SurplusMap
<1>2. escrow \in [JobKeys -> Nat]
  BY DEF TypeOK
<1>3. \A l \in JobKeys : escrow'[l] - Principal(l)' = IF l = k THEN x - y
                                                      ELSE escrow[l] - Principal(l)
  BY <1>2
<1> QED
  BY <1>1, <1>3

\* Escrows and principals that stay leave every surplus alone.
LEMMA SurplusStays ==
    ASSUME escrow' = escrow, \A l \in JobKeys : Principal(l)' = Principal(l)
    PROVE  SurplusMap' = SurplusMap
BY DEF SurplusMap

\* Wallets and deposits that stay leave every party's equity alone.
LEMMA EquityStays ==
    ASSUME wallet' = wallet, \A p \in Providers : bond'[p].deposited = bond[p].deposited
    PROVE  EquityMap' = EquityMap
<1>1. \A a \in Parties : Equity(a)' = Equity(a)
  BY DEF Equity
<1> QED
  BY <1>1 DEF EquityMap

\* Locking and unlocking a share does not touch the deposit.
LEMMA LockKeepsDeposit ==
    ASSUME TypeOK, NEW p \in Providers, NEW x, bond' = [bond EXCEPT ![p].locked = x]
    PROVE  \A q \in Providers : bond'[q].deposited = bond[q].deposited
<1>1. bond \in [Providers -> BondRecord]
  BY DEF TypeOK
<1> QED
  BY <1>1 DEF BondRecord

\* The record that a transition leaves behind.
LEMMA TransitionFields ==
    ASSUME TypeOK, NEW k \in JobKeys, NEW to \in JobStates, NEW j,
           \/ j = TransitionJob(job[k], to)
           \/ \E x \in Nat : j = [TransitionJob(job[k], to) EXCEPT !.lockedBond = x]
           \/ \E r \in Receipts : j = [TransitionJob(job[k], to) EXCEPT !.receipt = r]
    PROVE  j \in JobRecord /\ j.state = to /\ j.amount = job[k].amount
<1>1. job[k] \in JobRecord
  BY DEF TypeOK
<1>2. j \in JobRecord
  BY <1>1, JobUpdate
<1> QED
  BY <1>1, <1>2 DEF TransitionJob, JobRecord

-----------------------------------------------------------------------------
(* Each instruction is one step of the exchange *)

\* An instruction that changes a job's state and its record's share or receipt.
LEMMA MoveStep ==
    ASSUME TypeOK, NEW k \in JobKeys, NEW to \in JobStates, NEW j,
           \/ j = TransitionJob(job[k], to)
           \/ \E x \in Nat : j = [TransitionJob(job[k], to) EXCEPT !.lockedBond = x]
           \/ \E r \in Receipts : j = [TransitionJob(job[k], to) EXCEPT !.receipt = r],
           job' = [job EXCEPT ![k] = j]
    PROVE  /\ StageMap' = [StageMap EXCEPT ![k] = StageOf[to]]
           /\ PriceMap' = PriceMap
           /\ \A l \in JobKeys : l # k => Principal(l)' = Principal(l)
           /\ Principal(k)' = IF to \in HeldStates THEN job[k].amount ELSE 0
<1>1. j \in JobRecord /\ j.state = to /\ j.amount = job[k].amount
  BY TransitionFields
<1> QED
  BY <1>1, StageStep, ZenonT(60)

\* CreateJob offers a job.
LEMMA CreateStep ==
    ASSUME AccountingInv, NEW k \in JobKeys, NEW x \in Amounts,
           NEW r \in Requests \cup {ZeroHash}, NEW d \in Schedules, CreateJob(k, x, r, d)
    PROVE  Exchange!Next
<1> DEFINE j == [state |-> "Created", amount |-> x, deadline |-> d,
                 request |-> r, receipt |-> NoReceipt, lockedBond |-> 0]
<1>1. TypeOK /\ job' = [job EXCEPT ![k] = j] /\ x # 0 /\ job[k].state = "None"
  BY DEF CreateJob, AccountingInv
<1>2. j \in JobRecord /\ j.state = "Created" /\ j.amount = x
  BY PayloadAssumption DEF JobRecord, JobStates
<1> HIDE DEF j
<1>3. /\ StageMap' = [StageMap EXCEPT ![k] = StageOf["Created"]]
      /\ PriceMap' = [PriceMap EXCEPT ![k] = x]
      /\ \A l \in JobKeys : l # k => Principal(l)' = Principal(l)
      /\ Principal(k)' = IF "Created" \in HeldStates THEN x ELSE 0
  BY <1>1, <1>2, StageStep
<1>4. \A l \in JobKeys : Principal(l)' = Principal(l)
  BY <1>1, <1>3 DEF Principal, HeldStates
<1>5. EquityMap' = EquityMap /\ SurplusMap' = SurplusMap
  BY <1>4, SurplusStays, EquityStays DEF CreateJob, ledger
<1>6. StageMap[k] = "idle" /\ StageOf["Created"] = "offered"
  BY <1>1 DEF StageMap, StageOf
<1>7. Exchange!Offer(k)
  BY <1>1, <1>3, <1>5, <1>6, Zenon
  DEF Exchange!Offer, Exchange!Enter, StageMap, PriceMap, EquityMap, SurplusMap
<1> QED
  BY <1>7 DEF Exchange!Next

\* FundJob sets the price aside.
LEMMA FundStep ==
    ASSUME AccountingInv, NEW k \in JobKeys, FundJob(k)
    PROVE  Exchange!Next
<1> DEFINE b == BuyerOf(k)
           x == job[k].amount
<1>1. /\ TypeOK /\ job[k].state = "Created" /\ escrow[k] = 0 /\ wallet[b] >= x
      /\ wallet' = [wallet EXCEPT ![b] = @ - x]
      /\ escrow' = [escrow EXCEPT ![k] = x] /\ bond' = bond
      /\ job' = [job EXCEPT ![k] = TransitionJob(job[k], "Funded")]
  BY DEF FundJob, AccountingInv
<1>2. /\ StageMap' = [StageMap EXCEPT ![k] = StageOf["Funded"]]
      /\ PriceMap' = PriceMap
      /\ \A l \in JobKeys : l # k => Principal(l)' = Principal(l)
      /\ Principal(k)' = x
  <2>1. "Funded" \in JobStates /\ "Funded" \in HeldStates
    BY DEF JobStates, HeldStates
  <2> QED
    BY <1>1, <2>1, MoveStep
<1>3. /\ b \in Parties /\ x \in Nat /\ Equity(b) \in Nat /\ wallet[b] \in Nat
      /\ wallet \in [Parties -> Nat] /\ x <= Equity(b)
  <2>1. b \in Parties /\ wallet \in [Parties -> Nat]
    BY <1>1, JobKeyParts DEF TypeOK
  <2>2. x \in Nat /\ wallet[b] \in Nat /\ Equity(b) \in Nat
    BY <2>1, MapTypes
  <2>3. (b \in Providers => bond[b].deposited \in Nat)
    BY MapTypes
  <2> QED
    BY <1>1, <2>1, <2>2, <2>3 DEF Equity
<1>4. SurplusMap[k] = 0 /\ SurplusMap' = SurplusMap
  <2>1. Principal(k) = 0
    BY <1>1 DEF Principal, HeldStates
  <2> HIDE DEF b, x
  <2>5. x \in Int
    BY <1>3
  <2>2. SurplusMap' = [SurplusMap EXCEPT ![k] = x - x]
    <3>1. TypeOK /\ escrow' = [escrow EXCEPT ![k] = x] /\ Principal(k)' = x
      BY <1>1, <1>2
    <3> QED
      BY <3>1, <1>2, <2>5, SurplusStep, Zenon
  <2>3. SurplusMap[k] = 0
    BY <1>1, <2>1, MapTypes DEF SurplusMap
  <2>4. SurplusMap' = [SurplusMap EXCEPT ![k] = SurplusMap[k]]
    <3>1. x - x = 0
      BY <2>5
    <3> QED
      BY <3>1, <2>2, <2>3, Zenon
  <2> QED
    BY <2>3, <2>4 DEF SurplusMap
<1>5. EquityMap' = [EquityMap EXCEPT ![b] = @ + (-x)]
  <2>1. \A a \in Parties : Equity(a) \in Nat /\ wallet[a] \in Nat
    BY MapTypes
  <2>2. \A a \in Parties : wallet'[a] = IF a = b THEN wallet[b] - x ELSE wallet[a]
    BY <1>1, <1>3
  <2>3. \A a \in Parties : Equity(a)' = IF a = b THEN Equity(b) + (-x) ELSE Equity(a)
    <3> TAKE a \in Parties
    <3>1. a \in Providers => bond[a].deposited \in Nat
      BY MapTypes
    <3> HIDE DEF b, x
    <3> QED
      BY <1>1, <1>3, <2>1, <2>2, <3>1 DEF Equity
  <2>4. /\ EquityMap' = [a \in Parties |-> Equity(a)']
        /\ EquityMap = [a \in Parties |-> Equity(a)]
    BY DEF EquityMap
  <2> HIDE DEF b, x
  <2> QED
    BY <1>3, <2>3, <2>4
<1>6. StageMap[k] = "offered" /\ StageOf["Funded"] = "held"
  BY <1>1 DEF StageMap, StageOf
<1>7. PriceMap[k] = x /\ EquityMap[b] = Equity(b)
  BY <1>3 DEF PriceMap, EquityMap
<1>8. Exchange!Hold(k)
  BY <1>2, <1>3, <1>4, <1>5, <1>6, <1>7
  DEF Exchange!Hold, Exchange!Enter, Exchange!Plus, StageMap, PriceMap, EquityMap, SurplusMap
<1> QED
  BY <1>8 DEF Exchange!Next

\* AcceptJob and ChallengeWork are no step of the exchange; SubmitReceipt
\* delivers the job.
LEMMA ProgressStep ==
    ASSUME AccountingInv, NEW k \in JobKeys,
           \/ AcceptJob(k)
           \/ ChallengeWork(k)
           \/ \E r \in Receipts, key \in Keys : SubmitReceipt(k, r, key)
    PROVE  [Exchange!Next]_(Exchange!vars)
<1>0. TypeOK
  BY DEF AccountingInv
<1>1. ASSUME NEW to \in {"Accepted", "Submitted", "Challenged"}, NEW j,
             job[k].state \in HeldStates,
             \/ j = TransitionJob(job[k], to)
             \/ \E x \in Nat : j = [TransitionJob(job[k], to) EXCEPT !.lockedBond = x]
             \/ \E r \in Receipts : j = [TransitionJob(job[k], to) EXCEPT !.receipt = r],
             job' = [job EXCEPT ![k] = j], escrow' = escrow, wallet' = wallet,
             \A p \in Providers : bond'[p].deposited = bond[p].deposited
      PROVE  /\ StageMap' = [StageMap EXCEPT ![k] = StageOf[to]]
             /\ PriceMap' = PriceMap /\ EquityMap' = EquityMap /\ SurplusMap' = SurplusMap
  <2>1. to \in JobStates /\ to \in HeldStates
    BY <1>1 DEF JobStates, HeldStates
  <2>2. /\ StageMap' = [StageMap EXCEPT ![k] = StageOf[to]]
        /\ PriceMap' = PriceMap
        /\ \A l \in JobKeys : l # k => Principal(l)' = Principal(l)
        /\ Principal(k)' = job[k].amount
    BY <1>0, <1>1, <2>1, MoveStep
  <2>3. \A l \in JobKeys : Principal(l)' = Principal(l)
    BY <1>1, <2>2 DEF Principal
  <2> QED
    BY <1>1, <2>2, <2>3, SurplusStays, EquityStays
<1>2. CASE AcceptJob(k)
  <2>1. /\ job[k].state = "Funded" /\ config.minBond \in Nat
        /\ job' = [job EXCEPT ![k] =
                     [TransitionJob(job[k], "Accepted") EXCEPT !.lockedBond = config.minBond]]
        /\ escrow' = escrow /\ wallet' = wallet
    BY <1>0, <1>2 DEF AcceptJob, ledger, TypeOK, ConfigRecord
  <2>2. \A p \in Providers : bond'[p].deposited = bond[p].deposited
    BY <1>0, <1>2, JobKeyParts, LockKeepsDeposit DEF AcceptJob
  <2>6. /\ job[k].state \in HeldStates /\ "Accepted" \in {"Accepted", "Submitted", "Challenged"}
        /\ \E x \in Nat : [TransitionJob(job[k], "Accepted") EXCEPT !.lockedBond = config.minBond]
                           = [TransitionJob(job[k], "Accepted") EXCEPT !.lockedBond = x]
    BY <2>1 DEF HeldStates
  <2>3. /\ StageMap' = [StageMap EXCEPT ![k] = StageOf["Accepted"]]
        /\ PriceMap' = PriceMap /\ EquityMap' = EquityMap /\ SurplusMap' = SurplusMap
    BY <1>1, <2>1, <2>2, <2>6, Zenon
  <2>4. StageMap[k] = "held" /\ StageOf["Accepted"] = "held"
    BY <2>1 DEF StageMap, StageOf
  <2>5. StageMap' = StageMap
    BY <2>3, <2>4 DEF StageMap
  <2> QED
    BY <2>3, <2>5, StutterStep
<1>3. CASE ChallengeWork(k)
  <2>1. /\ job[k].state = "Submitted"
        /\ job' = [job EXCEPT ![k] = TransitionJob(job[k], "Challenged")]
        /\ escrow' = escrow /\ wallet' = wallet /\ bond' = bond
    BY <1>3 DEF ChallengeWork, ledger
  <2>2. /\ job[k].state \in HeldStates /\ "Challenged" \in {"Accepted", "Submitted", "Challenged"}
        /\ \A p \in Providers : bond'[p].deposited = bond[p].deposited
    BY <2>1 DEF HeldStates
  <2>3. /\ StageMap' = [StageMap EXCEPT ![k] = StageOf["Challenged"]]
        /\ PriceMap' = PriceMap /\ EquityMap' = EquityMap /\ SurplusMap' = SurplusMap
    BY <1>1, <2>1, <2>2, Zenon
  <2>4. StageMap[k] = "delivered" /\ StageOf["Challenged"] = "delivered"
    BY <2>1 DEF StageMap, StageOf
  <2>5. StageMap' = StageMap
    BY <2>3, <2>4 DEF StageMap
  <2> QED
    BY <2>3, <2>5, StutterStep
<1>4. ASSUME NEW r \in Receipts, NEW key \in Keys, SubmitReceipt(k, r, key)
      PROVE  [Exchange!Next]_(Exchange!vars)
  <2>1. /\ job[k].state = "Accepted"
        /\ job' = [job EXCEPT ![k] = [TransitionJob(job[k], "Submitted") EXCEPT !.receipt = r]]
        /\ escrow' = escrow /\ wallet' = wallet /\ bond' = bond
    BY <1>4 DEF SubmitReceipt, ledger
  <2>5. /\ job[k].state \in HeldStates /\ "Submitted" \in {"Accepted", "Submitted", "Challenged"}
        /\ \A p \in Providers : bond'[p].deposited = bond[p].deposited
        /\ \E q \in Receipts : [TransitionJob(job[k], "Submitted") EXCEPT !.receipt = r]
                                = [TransitionJob(job[k], "Submitted") EXCEPT !.receipt = q]
    BY <2>1 DEF HeldStates
  <2>2. /\ StageMap' = [StageMap EXCEPT ![k] = StageOf["Submitted"]]
        /\ PriceMap' = PriceMap /\ EquityMap' = EquityMap /\ SurplusMap' = SurplusMap
    BY <1>1, <2>1, <2>5, Zenon
  <2>3. StageMap[k] = "held" /\ StageOf["Submitted"] = "delivered"
    BY <2>1 DEF StageMap, StageOf
  <2>4. Exchange!Deliver(k)
    BY <2>2, <2>3, Zenon
    DEF Exchange!Deliver, Exchange!Enter, StageMap, PriceMap, EquityMap, SurplusMap
  <2> QED
    BY <2>4 DEF Exchange!Next
<1> QED
  BY <1>2, <1>3, <1>4

\* A payout ends a held job and empties its escrow.
LEMMA PayoutStep ==
    ASSUME AccountingInv, NEW k \in JobKeys, NEW to \in {"Settled", "Refunded", "Slashed"},
           job[k].state \in HeldStates, escrow' = [escrow EXCEPT ![k] = 0],
           job' = [job EXCEPT ![k] = [TransitionJob(@, to) EXCEPT !.lockedBond = 0]]
    PROVE  /\ StageMap' = [StageMap EXCEPT ![k] = StageOf[to]]
           /\ PriceMap' = PriceMap
           /\ SurplusMap' = [SurplusMap EXCEPT ![k] = 0]
           /\ SurplusMap[k] = escrow[k] - job[k].amount
           /\ PriceMap[k] = job[k].amount
<1>1. TypeOK /\ to \in JobStates /\ to \notin HeldStates
  BY DEF AccountingInv, JobStates, HeldStates
<1> DEFINE j == [TransitionJob(job[k], to) EXCEPT !.lockedBond = 0]
<1>2. job' = [job EXCEPT ![k] = j] /\ \E x \in Nat : j = [TransitionJob(job[k], to) EXCEPT !.lockedBond = x]
  OBVIOUS
<1> HIDE DEF j
<1>3. /\ StageMap' = [StageMap EXCEPT ![k] = StageOf[to]]
      /\ PriceMap' = PriceMap
      /\ \A l \in JobKeys : l # k => Principal(l)' = Principal(l)
      /\ Principal(k)' = 0
  <2>1. /\ StageMap' = [StageMap EXCEPT ![k] = StageOf[to]]
        /\ PriceMap' = PriceMap
        /\ \A l \in JobKeys : l # k => Principal(l)' = Principal(l)
        /\ Principal(k)' = IF to \in HeldStates THEN job[k].amount ELSE 0
    BY <1>1, <1>2, MoveStep, Zenon
  <2> QED
    BY <1>1, <2>1
<1>4. SurplusMap' = [SurplusMap EXCEPT ![k] = 0]
  <2>1. PICK z \in Int : z = 0
    OBVIOUS
  <2>2. escrow' = [escrow EXCEPT ![k] = z] /\ Principal(k)' = z
    BY <1>3, <2>1
  <2>3. SurplusMap' = [SurplusMap EXCEPT ![k] = z - z]
    BY <1>1, <1>3, <2>2, SurplusStep, Zenon
  <2>4. z - z = 0
    BY <2>1
  <2> QED
    BY <2>3, <2>4, Zenon
<1>5. SurplusMap[k] = escrow[k] - job[k].amount /\ PriceMap[k] = job[k].amount
  BY DEF SurplusMap, PriceMap, Principal
<1> QED
  BY <1>3, <1>4, <1>5

\* What each party owns after its wallet and its deposit have changed.
LEMMA EquityStep ==
    ASSUME NEW e, \A a \in Parties : Equity(a)' = e[a], e = [a \in Parties |-> e[a]]
    PROVE  EquityMap' = e
<1>1. EquityMap' = [a \in Parties |-> Equity(a)']
  BY DEF EquityMap
<1> QED
  BY <1>1, Zenon

\* One credit to a wallet.
LEMMA CreditFacts ==
    ASSUME NEW w \in [Parties -> Int], NEW a \in Parties, NEW x \in Int
    PROVE  /\ Credit(w, a, x) \in [Parties -> Int]
           /\ \A c \in Parties : Credit(w, a, x)[c] = w[c] + (IF c = a THEN x ELSE 0)
<1>1. w[a] + x \in Int
  OBVIOUS
<1> QED
  BY <1>1 DEF Credit

\* One addition to what parties own.
LEMMA PlusFacts ==
    ASSUME NEW e \in [Parties -> Int], NEW a \in Parties, NEW x \in Int
    PROVE  /\ Exchange!Plus(e, a, x) \in [Parties -> Int]
           /\ \A c \in Parties :
                 Exchange!Plus(e, a, x)[c] = e[c] + (IF c = a THEN x ELSE 0)
<1>1. e[a] + x \in Int
  OBVIOUS
<1> QED
  BY <1>1 DEF Exchange!Plus

\* A settlement pays for a delivered job: the price goes to the provider and
\* the rest of the escrow to the buyer, who may be the same party.
LEMMA PayStep ==
    ASSUME AccountingInv, NEW k \in JobKeys, job[k].state \in {"Submitted", "Challenged"},
           SettlePayout(k), UnlockJobBond(k),
           job' = [job EXCEPT ![k] = [TransitionJob(@, "Settled") EXCEPT !.lockedBond = 0]]
    PROVE  Exchange!Next
<1> DEFINE b == BuyerOf(k)
           p == ProviderOf(k)
           x == job[k].amount
           y == escrow[k] - job[k].amount
           e == Exchange!Plus(Exchange!Plus(EquityMap, p, x), b, y)
<1>1. /\ TypeOK /\ wallet \in [Parties -> Nat] /\ x \in Nat /\ escrow[k] \in Nat
      /\ b \in Parties /\ p \in Parties /\ p \in Providers /\ y \in Int
      /\ wallet' = Credit(Credit(wallet, b, y), p, x)
      /\ escrow' = [escrow EXCEPT ![k] = 0]
  BY JobKeyParts, JobFields DEF SettlePayout, AccountingInv, TypeOK
<1>2. /\ StageMap' = [StageMap EXCEPT ![k] = StageOf["Settled"]]
      /\ PriceMap' = PriceMap
      /\ SurplusMap' = [SurplusMap EXCEPT ![k] = 0]
      /\ SurplusMap[k] = y /\ PriceMap[k] = x
  <2>1. job[k].state \in HeldStates /\ "Settled" \in {"Settled", "Refunded", "Slashed"}
    BY DEF HeldStates
  <2> QED
    BY <1>1, <2>1, PayoutStep
<1>3. \A q \in Providers : bond'[q].deposited = bond[q].deposited
  BY <1>1, LockKeepsDeposit DEF UnlockJobBond
<1> HIDE DEF b, p, x, y
<1>4. \A a \in Parties : wallet'[a] = wallet[a] + (IF a = b THEN y ELSE 0)
                                                + (IF a = p THEN x ELSE 0)
  <2>1. wallet \in [Parties -> Int] /\ x \in Int
    BY <1>1
  <2>2. /\ Credit(wallet, b, y) \in [Parties -> Int]
        /\ \A a \in Parties : Credit(wallet, b, y)[a] = wallet[a] + (IF a = b THEN y ELSE 0)
    BY <1>1, <2>1, CreditFacts
  <2>3. \A a \in Parties : wallet'[a] = Credit(wallet, b, y)[a] + (IF a = p THEN x ELSE 0)
    <3> DEFINE w == Credit(wallet, b, y)
    <3>1. w \in [Parties -> Int] /\ p \in Parties /\ x \in Int /\ wallet' = Credit(w, p, x)
      BY <1>1, <2>1, <2>2
    <3> HIDE DEF w
    <3>2. \A a \in Parties : Credit(w, p, x)[a] = w[a] + (IF a = p THEN x ELSE 0)
      BY <3>1, CreditFacts, ZenonT(60)
    <3>3. \A a \in Parties : wallet'[a] = w[a] + (IF a = p THEN x ELSE 0)
      BY <3>1, <3>2, Zenon
    <3> QED
      BY <3>3 DEF w
  <2> QED
    BY <2>2, <2>3
<1>5. EquityMap \in [Parties -> Int] /\ \A a \in Parties : EquityMap[a] = Equity(a)
  BY MapTypes DEF EquityMap
<1>6. /\ e = [a \in Parties |-> e[a]]
      /\ \A a \in Parties : e[a] = Equity(a) + (IF a = p THEN x ELSE 0)
                                             + (IF a = b THEN y ELSE 0)
  <2>1. x \in Int
    BY <1>1
  <2>2. Exchange!Plus(EquityMap, p, x) \in [Parties -> Int] /\ e \in [Parties -> Int]
    BY <1>1, <1>5, <2>1, PlusFacts
  <2>3. \A a \in Parties : e[a] = Exchange!Plus(EquityMap, p, x)[a] + (IF a = b THEN y ELSE 0)
    BY <1>1, <2>2, PlusFacts
  <2>4. \A a \in Parties :
           Exchange!Plus(EquityMap, p, x)[a] = EquityMap[a] + (IF a = p THEN x ELSE 0)
    BY <1>1, <1>5, <2>1, PlusFacts
  <2> HIDE DEF e
  <2> QED
    BY <1>5, <2>2, <2>3, <2>4
<1>7. \A a \in Parties : Equity(a)' = e[a]
  <2> HIDE DEF e
  <2> TAKE a \in Parties
  <2>1. wallet[a] \in Nat /\ (a \in Providers => bond[a].deposited \in Nat)
    BY MapTypes
  <2> QED
    BY <1>1, <1>3, <1>4, <1>6, <2>1 DEF Equity
<1>8. EquityMap' = e
  BY <1>6, <1>7, EquityStep
<1>9. StageMap[k] = "delivered" /\ StageOf["Settled"] = "paid"
  BY DEF StageMap, StageOf
<1>10. Exchange!Pay(k)
  BY <1>2, <1>8, <1>9, Zenon
  DEF Exchange!Pay, Exchange!Enter, Exchange!SweepTo,
      StageMap, PriceMap, EquityMap, SurplusMap, b, p
<1> QED
  BY <1>10 DEF Exchange!Next

\* A refund returns the price and the rest of the escrow to the buyer.
LEMMA ReturnStep ==
    ASSUME AccountingInv, NEW k \in JobKeys, NEW f \in BOOLEAN, RefundInternal(k, f)
    PROVE  Exchange!Next
<1> DEFINE b == BuyerOf(k)
           x == job[k].amount
           y == escrow[k] - job[k].amount
           e == Exchange!Plus(Exchange!Plus(EquityMap, b, x), b, y)
<1>1. /\ TypeOK /\ wallet \in [Parties -> Nat] /\ x \in Nat /\ escrow[k] \in Nat
      /\ b \in Parties /\ y \in Int /\ escrow[k] = x + y
      /\ wallet' = Credit(wallet, b, escrow[k])
      /\ job[k].state \in {"Funded", "Accepted"}
      /\ escrow' = [escrow EXCEPT ![k] = 0]
      /\ job' = [job EXCEPT ![k] = [TransitionJob(@, "Refunded") EXCEPT !.lockedBond = 0]]
  <2>1. /\ TypeOK /\ wallet \in [Parties -> Nat] /\ x \in Nat /\ escrow[k] \in Nat
        /\ b \in Parties
    BY JobKeyParts, JobFields DEF AccountingInv, TypeOK
  <2> QED
    BY <2>1 DEF RefundInternal, RefundPrincipal, CanTimeoutRefund
<1>2. /\ StageMap' = [StageMap EXCEPT ![k] = StageOf["Refunded"]]
      /\ PriceMap' = PriceMap
      /\ SurplusMap' = [SurplusMap EXCEPT ![k] = 0]
      /\ SurplusMap[k] = y /\ PriceMap[k] = x
  <2>1. job[k].state \in HeldStates /\ "Refunded" \in {"Settled", "Refunded", "Slashed"}
    BY <1>1 DEF HeldStates
  <2> QED
    BY <1>1, <2>1, PayoutStep
<1>3. \A q \in Providers : bond'[q].deposited = bond[q].deposited
  BY <1>1, JobKeyParts, LockKeepsDeposit DEF RefundInternal, UnlockJobBond
<1> HIDE DEF b, x, y
<1>4. \A a \in Parties : wallet'[a] = wallet[a] + (IF a = b THEN escrow[k] ELSE 0)
  BY <1>1 DEF Credit
<1>5. EquityMap \in [Parties -> Int] /\ \A a \in Parties : EquityMap[a] = Equity(a)
  BY MapTypes DEF EquityMap
<1>6. /\ e = [a \in Parties |-> e[a]]
      /\ \A a \in Parties : e[a] = Equity(a) + (IF a = b THEN escrow[k] ELSE 0)
  <2>1. x \in Int
    BY <1>1
  <2>2. Exchange!Plus(EquityMap, b, x) \in [Parties -> Int] /\ e \in [Parties -> Int]
    BY <1>1, <1>5, <2>1, PlusFacts
  <2>3. \A a \in Parties : e[a] = Exchange!Plus(EquityMap, b, x)[a] + (IF a = b THEN y ELSE 0)
    BY <1>1, <2>2, PlusFacts
  <2>4. \A a \in Parties :
           Exchange!Plus(EquityMap, b, x)[a] = EquityMap[a] + (IF a = b THEN x ELSE 0)
    BY <1>1, <1>5, <2>1, PlusFacts
  <2>5. \A a \in Parties : EquityMap[a] \in Int
    BY <1>5
  <2> HIDE DEF e
  <2> QED
    BY <1>1, <1>5, <2>1, <2>2, <2>3, <2>4, <2>5
<1>7. \A a \in Parties : Equity(a)' = e[a]
  <2> HIDE DEF e
  <2> TAKE a \in Parties
  <2>1. wallet[a] \in Nat /\ (a \in Providers => bond[a].deposited \in Nat)
    BY MapTypes
  <2> QED
    BY <1>1, <1>3, <1>4, <1>6, <2>1 DEF Equity
<1>8. EquityMap' = e
  BY <1>6, <1>7, EquityStep
<1>9. StageMap[k] = "held" /\ StageOf["Refunded"] = "returned"
  BY <1>1 DEF StageMap, StageOf
<1>10. Exchange!Return(k)
  BY <1>2, <1>8, <1>9, Zenon
  DEF Exchange!Return, Exchange!Enter, Exchange!SweepTo,
      StageMap, PriceMap, EquityMap, SurplusMap, b
<1> QED
  BY <1>10 DEF Exchange!Next

\* A slash awards the price, the rest of the escrow and the job's share of the
\* provider's deposit to the buyer.
LEMMA AwardStep ==
    ASSUME AccountingInv, NEW k \in JobKeys, NEW s \in Parties, SlashBond(s, k)
    PROVE  Exchange!Next
<1> DEFINE b == BuyerOf(k)
           p == ProviderOf(k)
           x == job[k].amount
           y == escrow[k] - job[k].amount
           z == job[k].lockedBond
           m == Exchange!Plus(EquityMap, p, -z)
           n == Exchange!Plus(m, b, x + z)
           e == Exchange!Plus(n, b, y)
<1>1. /\ TypeOK /\ wallet \in [Parties -> Nat] /\ x \in Nat /\ escrow[k] \in Nat /\ z \in Nat
      /\ b \in Parties /\ p \in Parties /\ p \in Providers /\ y \in Int /\ escrow[k] = x + y
      /\ wallet' = Credit(Credit(wallet, b, z), b, escrow[k])
      /\ job[k].state = "Challenged" /\ z # 0 /\ z <= bond[p].deposited
      /\ escrow' = [escrow EXCEPT ![k] = 0]
      /\ job' = [job EXCEPT ![k] = [TransitionJob(@, "Slashed") EXCEPT !.lockedBond = 0]]
  <2>1. /\ TypeOK /\ wallet \in [Parties -> Nat] /\ x \in Nat /\ escrow[k] \in Nat
        /\ z \in Nat /\ b \in Parties /\ p \in Parties /\ p \in Providers
    BY JobKeyParts, JobFields DEF AccountingInv, TypeOK
  <2>2. bond[p].deposited \in Nat
    BY <2>1, MapTypes
  <2> QED
    BY <2>1, <2>2 DEF SlashBond, RefundPrincipal
<1>2. /\ StageMap' = [StageMap EXCEPT ![k] = StageOf["Slashed"]]
      /\ PriceMap' = PriceMap
      /\ SurplusMap' = [SurplusMap EXCEPT ![k] = 0]
      /\ SurplusMap[k] = y /\ PriceMap[k] = x
  <2>1. job[k].state \in HeldStates /\ "Slashed" \in {"Settled", "Refunded", "Slashed"}
    BY <1>1 DEF HeldStates
  <2> QED
    BY <1>1, <2>1, PayoutStep
<1>3. \A q \in Providers :
         bond'[q].deposited = bond[q].deposited - (IF q = p THEN z ELSE 0)
  <2>1. bond' = [bond EXCEPT ![p] = [deposited |-> bond[p].deposited - z,
                                     locked |-> bond[p].locked - z]]
    BY DEF SlashBond
  <2>2. bond \in [Providers -> BondRecord]
    BY <1>1 DEF TypeOK
  <2>3. \A q \in Providers : bond[q].deposited \in Nat
    BY MapTypes
  <2> HIDE DEF p, z
  <2> QED
    BY <1>1, <2>1, <2>2, <2>3
<1> HIDE DEF b, p, x, y, z
<1>4. \A a \in Parties : wallet'[a] = wallet[a] + (IF a = b THEN z ELSE 0)
                                                + (IF a = b THEN escrow[k] ELSE 0)
  <2>1. wallet \in [Parties -> Int] /\ z \in Int /\ escrow[k] \in Int
    BY <1>1
  <2>2. /\ Credit(wallet, b, z) \in [Parties -> Int]
        /\ \A a \in Parties : Credit(wallet, b, z)[a] = wallet[a] + (IF a = b THEN z ELSE 0)
    BY <1>1, <2>1, CreditFacts, ZenonT(60)
  <2>3. \A a \in Parties :
           wallet'[a] = Credit(wallet, b, z)[a] + (IF a = b THEN escrow[k] ELSE 0)
    <3>1. b \in Parties /\ wallet' = Credit(Credit(wallet, b, z), b, escrow[k])
      BY <1>1
    <3> DEFINE w == Credit(wallet, b, z)
    <3>2. w \in [Parties -> Int] /\ wallet' = Credit(w, b, escrow[k])
      BY <2>2, <3>1
    <3> HIDE DEF w
    <3>3. \A a \in Parties : Credit(w, b, escrow[k])[a] = w[a] + (IF a = b THEN escrow[k] ELSE 0)
      BY <2>1, <3>1, <3>2, CreditFacts, ZenonT(60)
    <3>4. \A a \in Parties : wallet'[a] = w[a] + (IF a = b THEN escrow[k] ELSE 0)
      BY <3>2, <3>3
    <3> QED
      BY <3>4 DEF w
  <2> QED
    BY <2>2, <2>3
<1>5. EquityMap \in [Parties -> Int] /\ \A a \in Parties : EquityMap[a] = Equity(a)
  BY MapTypes DEF EquityMap
<1>6. /\ e = [a \in Parties |-> e[a]]
      /\ \A a \in Parties : e[a] = Equity(a) - (IF a = p THEN z ELSE 0)
                                     + (IF a = b THEN z + escrow[k] ELSE 0)
  <2>1. x \in Int /\ -z \in Int /\ x + z \in Int
    BY <1>1
  <2>2. m \in [Parties -> Int]
    BY <1>1, <1>5, <2>1, PlusFacts
  <2>3. \A a \in Parties : m[a] = EquityMap[a] + (IF a = p THEN -z ELSE 0)
    BY <1>1, <1>5, <2>1, PlusFacts, ZenonT(60)
  <2> HIDE DEF m
  <2>4. n \in [Parties -> Int]
    BY <1>1, <2>1, <2>2, PlusFacts
  <2>5. \A a \in Parties : n[a] = m[a] + (IF a = b THEN x + z ELSE 0)
    BY <1>1, <2>1, <2>2, PlusFacts, ZenonT(60)
  <2> HIDE DEF n
  <2>6. e \in [Parties -> Int]
    BY <1>1, <2>4, PlusFacts
  <2>7. \A a \in Parties : e[a] = n[a] + (IF a = b THEN y ELSE 0)
    BY <1>1, <2>4, PlusFacts
  <2> HIDE DEF e
  <2>8. \A a \in Parties : EquityMap[a] \in Int /\ EquityMap[a] = Equity(a)
    BY <1>5
  <2> QED
    BY <1>1, <2>1, <2>3, <2>5, <2>6, <2>7, <2>8
<1>7. \A a \in Parties : Equity(a)' = e[a]
  <2> HIDE DEF e
  <2> TAKE a \in Parties
  <2>1. wallet[a] \in Nat /\ (a \in Providers => bond[a].deposited \in Nat)
    BY MapTypes
  <2> QED
    BY <1>1, <1>3, <1>4, <1>6, <2>1 DEF Equity
<1>8. EquityMap' = e
  BY <1>6, <1>7, EquityStep
<1>9. StageMap[k] = "delivered" /\ StageOf["Slashed"] = "awarded"
  BY <1>1 DEF StageMap, StageOf
<1>10. z \in 1 .. EquityMap[p]
  <2>1. wallet[p] \in Nat /\ bond[p].deposited \in Nat
    BY <1>1, MapTypes
  <2> QED
    BY <1>1, <1>5, <2>1 DEF Equity
<1>11. Exchange!Award(k)
  BY <1>2, <1>8, <1>9, <1>10, Zenon
  DEF Exchange!Award, Exchange!Enter, Exchange!SweepTo,
      StageMap, PriceMap, EquityMap, SurplusMap, b, p
<1> QED
  BY <1>11 DEF Exchange!Next

\* Two terminal instructions do not move tokens.
LEMMA EndStep ==
    ASSUME AccountingInv, NEW k \in JobKeys,
           ExpireUnfunded(k) \/ \E w \in BOOLEAN : CloseJob(k, w)
    PROVE  Exchange!Next
<1>0. TypeOK
  BY DEF AccountingInv
<1>1. CASE ExpireUnfunded(k)
  <2>1. /\ job[k].state = "Created"
        /\ job' = [job EXCEPT ![k] = TransitionJob(job[k], "Expired")]
        /\ escrow' = escrow /\ wallet' = wallet /\ bond' = bond
    BY <1>1 DEF ExpireUnfunded, ledger
  <2>2. "Expired" \in JobStates /\ "Expired" \notin HeldStates /\ job[k].state \notin HeldStates
    BY <2>1 DEF JobStates, HeldStates
  <2>3. /\ StageMap' = [StageMap EXCEPT ![k] = StageOf["Expired"]]
        /\ PriceMap' = PriceMap
        /\ \A l \in JobKeys : l # k => Principal(l)' = Principal(l)
        /\ Principal(k)' = IF "Expired" \in HeldStates THEN job[k].amount ELSE 0
    BY <1>0, <2>1, <2>2, MoveStep
  <2>4. \A l \in JobKeys : Principal(l)' = Principal(l)
    BY <2>2, <2>3 DEF Principal
  <2>5. EquityMap' = EquityMap /\ SurplusMap' = SurplusMap
    BY <2>1, <2>4, SurplusStays, EquityStays
  <2>6. StageMap[k] = "offered" /\ StageOf["Expired"] = "void"
    BY <2>1 DEF StageMap, StageOf
  <2>7. Exchange!Void(k)
    BY <2>3, <2>5, <2>6, Zenon
    DEF Exchange!Void, Exchange!Enter, StageMap, PriceMap, EquityMap, SurplusMap
  <2> QED
    BY <2>7 DEF Exchange!Next
<1>2. ASSUME NEW w \in BOOLEAN, CloseJob(k, w) PROVE Exchange!Next
  <2>1. /\ job[k].state \in Terminal /\ job' = [job EXCEPT ![k] = NoJob]
        /\ escrow' = escrow /\ wallet' = wallet /\ bond' = bond
    BY <1>2 DEF CloseJob, ledger
  <2>2. NoJob \in JobRecord /\ NoJob.state = "None" /\ NoJob.amount = 0
    BY PayloadAssumption DEF NoJob, ZeroSchedule, JobRecord, Schedule, Time
  <2>3. job[k].state \notin HeldStates /\ "None" \notin HeldStates
    BY <2>1 DEF Terminal, HeldStates
  <2>4. /\ StageMap' = [StageMap EXCEPT ![k] = StageOf["None"]]
        /\ PriceMap' = [PriceMap EXCEPT ![k] = 0]
        /\ \A l \in JobKeys : l # k => Principal(l)' = Principal(l)
        /\ Principal(k)' = IF "None" \in HeldStates THEN NoJob.amount ELSE 0
    BY <1>0, <2>1, <2>2, StageStep
  <2>5. \A l \in JobKeys : Principal(l)' = Principal(l)
    BY <2>3, <2>4 DEF Principal
  <2>6. EquityMap' = EquityMap /\ SurplusMap' = SurplusMap
    BY <2>1, <2>5, SurplusStays, EquityStays
  <2>7. StageMap[k] \in {"paid", "returned", "awarded", "void"} /\ StageOf["None"] = "idle"
    BY <2>1 DEF StageMap, StageOf, Terminal
  <2>8. Exchange!Forget(k)
    BY <2>4, <2>6, <2>7, Zenon
    DEF Exchange!Forget, Exchange!Closed, StageMap, PriceMap, EquityMap, SurplusMap
  <2> QED
    BY <2>8 DEF Exchange!Next
<1> QED
  BY <1>1, <1>2

-----------------------------------------------------------------------------
(* All other steps, and the theorem *)

\* Deposits and withdrawals stay with the same party, a donation is a gift,
\* and the rest moves no tokens.
LEMMA OtherStep ==
    ASSUME AccountingInv, ConfigNext \/ ProviderNext \/ EnvironmentNext \/ UNCHANGED vars
    PROVE  [Exchange!Next]_(Exchange!vars)
<1>0. TypeOK /\ bond \in [Providers -> BondRecord] /\ wallet \in [Parties -> Nat]
  BY DEF AccountingInv, TypeOK
<1>1. ASSUME job' = job PROVE /\ StageMap' = StageMap /\ PriceMap' = PriceMap
                              /\ \A l \in JobKeys : Principal(l)' = Principal(l)
  BY <1>1 DEF StageMap, PriceMap, Principal
<1>2. CASE job' = job /\ escrow' = escrow /\ wallet' = wallet /\ bond' = bond
  <2>1. EquityMap' = EquityMap /\ SurplusMap' = SurplusMap
    BY <1>1, <1>2, SurplusStays, EquityStays
  <2> QED
    BY <1>1, <1>2, <2>1, StutterStep
<1>3. ASSUME NEW p \in Providers, NEW x \in Int, job' = job, escrow' = escrow,
             wallet' = [wallet EXCEPT ![p] = @ - x],
             bond' = [bond EXCEPT ![p].deposited = @ + x]
      PROVE  [Exchange!Next]_(Exchange!vars)
  <2>1. p \in Parties
    BY PartyAssumption
  <2>2. \A a \in Parties : wallet'[a] = wallet[a] - (IF a = p THEN x ELSE 0)
    BY <1>0, <1>3, <2>1
  <2>3. \A q \in Providers :
           bond'[q].deposited = bond[q].deposited + (IF q = p THEN x ELSE 0)
    <3>1. \A q \in Providers : bond[q] \in BondRecord /\ bond[q].deposited \in Nat
      BY <1>0, MapTypes
    <3> QED
      BY <1>0, <1>3, <3>1 DEF BondRecord
  <2>4. \A a \in Parties : Equity(a)' = Equity(a)
    <3> TAKE a \in Parties
    <3>1. wallet[a] \in Nat /\ (a \in Providers => bond[a].deposited \in Nat)
      BY MapTypes
    <3> QED
      BY <1>3, <2>2, <2>3, <3>1 DEF Equity
  <2>5. EquityMap' = EquityMap
    BY <2>4 DEF EquityMap
  <2>6. SurplusMap' = SurplusMap
    BY <1>1, <1>3, SurplusStays
  <2> QED
    BY <1>1, <1>3, <2>5, <2>6, StutterStep
<1>4. ASSUME NEW a \in Parties, job' = job, bond' = bond, wallet' = [wallet EXCEPT ![a] = @ - 1],
             \/ escrow' = escrow
             \/ \E k \in JobKeys : escrow' = [escrow EXCEPT ![k] = @ + 1]
      PROVE  [Exchange!Next]_(Exchange!vars)
  <2>1. EquityMap' = [EquityMap EXCEPT ![a] = @ - 1]
    <3>1. \A c \in Parties : wallet'[c] = wallet[c] - (IF c = a THEN 1 ELSE 0)
      BY <1>0, <1>4
    <3>2. \A c \in Parties : Equity(c)' = IF c = a THEN Equity(a) - 1 ELSE Equity(c)
      <4> TAKE c \in Parties
      <4>1. wallet[c] \in Nat /\ (c \in Providers => bond[c].deposited \in Nat)
        BY MapTypes
      <4> QED
        BY <1>4, <3>1, <4>1 DEF Equity
    <3>3. /\ EquityMap' = [c \in Parties |-> Equity(c)']
          /\ EquityMap = [c \in Parties |-> Equity(c)]
      BY DEF EquityMap
    <3> QED
      BY <1>4, <3>2, <3>3
  <2>2. CASE escrow' = escrow
    <3>1. SurplusMap' = SurplusMap
      BY <1>1, <1>4, <2>2, SurplusStays
    <3>2. Exchange!Give(a)
      BY <1>1, <1>4, <2>1, <3>1, Zenon
      DEF Exchange!Give, StageMap, PriceMap, EquityMap, SurplusMap
    <3> QED
      BY <1>4, <3>2 DEF Exchange!Next
  <2>3. ASSUME NEW k \in JobKeys, escrow' = [escrow EXCEPT ![k] = @ + 1]
        PROVE  [Exchange!Next]_(Exchange!vars)
    <3>1. SurplusMap' = [SurplusMap EXCEPT ![k] = @ + 1]
      <4>1. \A l \in JobKeys : escrow[l] \in Nat /\ Principal(l) \in Nat
        BY MapTypes
      <4>2. \A l \in JobKeys : escrow'[l] = escrow[l] + (IF l = k THEN 1 ELSE 0)
        BY <1>0, <2>3, <4>1 DEF TypeOK
      <4>3. \A l \in JobKeys : escrow'[l] - Principal(l)'
               = IF l = k THEN (escrow[k] - Principal(k)) + 1 ELSE escrow[l] - Principal(l)
        BY <1>1, <1>4, <4>1, <4>2
      <4>4. /\ SurplusMap' = [l \in JobKeys |-> escrow'[l] - Principal(l)']
            /\ SurplusMap = [l \in JobKeys |-> escrow[l] - Principal(l)]
        BY DEF SurplusMap
      <4> QED
        BY <2>3, <4>3, <4>4
    <3>2. Exchange!Give(a)
      BY <1>1, <1>4, <2>1, <2>3, <3>1, Zenon
      DEF Exchange!Give, StageMap, PriceMap, EquityMap, SurplusMap
    <3> QED
      BY <1>4, <3>2 DEF Exchange!Next
  <2> QED
    BY <1>4, <2>2, <2>3
<1>5. CASE ConfigNext \/ Tick \/ UNCHANGED vars
  BY <1>2, <1>5, Zenon DEF ConfigNext, InitializeConfig, SetPaused, Tick, vars, ledger
<1>6. CASE ProviderNext
  <2> PICK p \in Providers :
         \/ RegisterProvider(p)
         \/ \E key \in Keys : AddExecutionKey(p, key) \/ RevokeExecutionKey(p, key)
         \/ \E amount \in Amounts : DepositBond(p, amount) \/ WithdrawBond(p, amount)
    BY <1>6 DEF ProviderNext
  <2>1. CASE \/ RegisterProvider(p)
             \/ \E key \in Keys : AddExecutionKey(p, key) \/ RevokeExecutionKey(p, key)
    BY <1>2, <2>1, Zenon DEF RegisterProvider, AddExecutionKey, RevokeExecutionKey, ledger
  <2>2. ASSUME NEW x \in Amounts, DepositBond(p, x) PROVE [Exchange!Next]_(Exchange!vars)
    <3>1. x \in Int
      BY PayloadAssumption
    <3> QED
      BY <1>3, <2>2, <3>1 DEF DepositBond
  <2>3. ASSUME NEW x \in Amounts, WithdrawBond(p, x) PROVE [Exchange!Next]_(Exchange!vars)
    <3>1. x \in Nat /\ -x \in Int /\ p \in Parties
      BY PayloadAssumption, PartyAssumption
    <3>2. wallet' = [wallet EXCEPT ![p] = @ - (-x)]
      <4>1. wallet[p] \in Nat /\ wallet[p] + x = wallet[p] - (-x)
        BY <1>0, <3>1
      <4> QED
        BY <2>3, <4>1 DEF WithdrawBond, Credit
    <3>3. bond' = [bond EXCEPT ![p].deposited = @ + (-x)]
      <4>1. bond[p].deposited - x = bond[p].deposited + (-x)
        BY <3>1, MapTypes
      <4> QED
        BY <2>3, <4>1 DEF WithdrawBond
    <3> QED
      BY <1>3, <2>3, <3>1, <3>2, <3>3 DEF WithdrawBond
  <2> QED
    BY <2>1, <2>2, <2>3
<1>7. CASE EnvironmentNext
  <2>1. ASSUME NEW a \in Parties, NEW k \in JobKeys, DonateToEscrow(a, k)
        PROVE  [Exchange!Next]_(Exchange!vars)
    BY <1>4, <2>1 DEF DonateToEscrow
  <2>2. ASSUME NEW a \in Parties, NEW p \in Providers, DonateToVault(a, p)
        PROVE  [Exchange!Next]_(Exchange!vars)
    BY <1>4, <2>2 DEF DonateToVault
  <2> QED
    BY <1>5, <1>7, <2>1, <2>2 DEF EnvironmentNext
<1> QED
  BY <1>5, <1>6, <1>7

\* The program starts where the exchange does.
LEMMA InitExchange == Init => Exchange!Init
<1> SUFFICES ASSUME Init PROVE Exchange!Init
  OBVIOUS
<1>1. /\ \A k \in JobKeys : StageOf[job[k].state] = "idle" /\ job[k].amount = 0
      /\ \A k \in JobKeys : escrow[k] - Principal(k) = 0
      /\ \A a \in Parties : Equity(a) = InitialWallet[a]
  <2>1. /\ \A k \in JobKeys : job[k].state = "None" /\ job[k].amount = 0 /\ escrow[k] = 0
        /\ \A p \in Providers : bond[p].deposited = 0
        /\ wallet = InitialWallet
    BY DEF Init, NoJob
  <2>2. \A a \in Parties : wallet[a] \in Nat
    BY <2>1, WalletAssumption
  <2> QED
    BY <2>1, <2>2 DEF StageOf, Principal, HeldStates, Equity
<1>2. InitialWallet = [a \in Parties |-> InitialWallet[a]]
  BY WalletAssumption
<1> QED
  BY <1>1, <1>2 DEF Exchange!Init

\* Every instruction of the program, any donation and any pause is a step of
\* the fair exchange or none at all: whatever the deadlines, bonds and prices,
\* tokens change owner only by paying for a delivered job or by slashing its
\* provider, and no party loses any otherwise.
THEOREM ExchangeCorrect == Spec => ImplementsFairExchange
<1>1. AccountingInv /\ [Next]_vars => [Exchange!Next]_(Exchange!vars)
  <2> SUFFICES ASSUME AccountingInv, [Next]_vars PROVE [Exchange!Next]_(Exchange!vars)
    OBVIOUS
  <2>1. CASE JobNext
    <3> PICK k \in JobKeys :
          \/ \E x \in Amounts, r \in Requests \cup {ZeroHash}, d \in Schedules :
                CreateJob(k, x, r, d)
          \/ FundJob(k)
          \/ AcceptJob(k)
          \/ \E r \in Receipts, key \in Keys : SubmitReceipt(k, r, key)
          \/ AcceptWork(k)
          \/ ChallengeWork(k)
          \/ ResolveTimeoutSettle(k)
          \/ ResolveTimeoutRefund(k)
          \/ ExpireUnaccepted(k)
          \/ ExpireUnfunded(k)
          \/ \E s \in Parties : SlashBond(s, k)
          \/ \E w \in BOOLEAN : CloseJob(k, w)
      BY <2>1 DEF JobNext
    <3>1. CASE AcceptWork(k) \/ ResolveTimeoutSettle(k)
      BY <3>1, PayStep DEF AcceptWork, ResolveTimeoutSettle, CanTimeoutSettle
    <3>2. CASE ResolveTimeoutRefund(k) \/ ExpireUnaccepted(k)
      BY <3>2, ReturnStep DEF ResolveTimeoutRefund, ExpireUnaccepted
    <3> QED
      BY <3>1, <3>2, CreateStep, FundStep, ProgressStep, AwardStep, EndStep
  <2> QED
    BY <2>1, OtherStep DEF Next
<1> QED
  BY <1>1, InitExchange, AccountingCorrect, PTL DEF Spec, ImplementsFairExchange, Exchange!Spec

-----------------------------------------------------------------------------
(* What the SDK lists is what the program takes *)

\* An account of a plan is one the handler accepts.
Accepted(meta, taken) ==
    /\ meta.role = taken.role
    /\ meta.writable \in taken.writable /\ meta.writable \in BOOLEAN
    /\ meta.signer \in taken.signer /\ meta.signer \in BOOLEAN

\* An account that is still accepted when the transaction strengthens its flags.
Grows(taken) ==
    /\ taken.writable = BOOLEAN \/ taken.writable = {TRUE}
    /\ taken.signer = BOOLEAN \/ taken.signer = {TRUE}

\* A plan of n accounts that a handler accepts, although a role may be repeated.
Listed(metas, takes, n) ==
    /\ Len(metas) = n /\ Len(takes) = n /\ DOMAIN metas = 1 .. n
    /\ \A i \in 1 .. n : Accepted(metas[i], takes[i])
    /\ \A i, j \in 1 .. n : metas[i].role = metas[j].role => i = j \/ Grows(takes[i])

\* An account whose role is listed once keeps its own flags.
LEMMA MergedAlone ==
    ASSUME NEW metas, NEW i \in DOMAIN metas,
           \A j \in DOMAIN metas : metas[j].role = metas[i].role => j = i,
           metas[i].writable \in BOOLEAN, metas[i].signer \in BOOLEAN
    PROVE  /\ Merged(metas, i).role = metas[i].role
           /\ Merged(metas, i).writable = metas[i].writable
           /\ Merged(metas, i).signer = metas[i].signer
<1>1. {j \in DOMAIN metas : metas[j].role = metas[i].role} = {i}
  OBVIOUS
<1> QED
  BY <1>1, Zenon DEF Merged

\* One whose flags may grow is accepted with those of the other.
LEMMA MergedGrows ==
    ASSUME NEW metas, NEW i \in DOMAIN metas, NEW taken,
           Accepted(metas[i], taken), Grows(taken)
    PROVE  Accepted(Merged(metas, i), taken)
<1> DEFINE same == {j \in DOMAIN metas : metas[j].role = metas[i].role}
           w == \E j \in same : metas[j].writable
           g == \E j \in same : metas[j].signer
<1>1. i \in same
  OBVIOUS
<1>2. /\ Merged(metas, i).role = metas[i].role
      /\ Merged(metas, i).writable = w
      /\ Merged(metas, i).signer = g
  BY Zenon DEF Merged
<1>3. w \in taken.writable /\ w \in BOOLEAN
  <2>1. (metas[i].writable => w) /\ w \in BOOLEAN
    BY <1>1, Zenon
  <2> HIDE DEF w
  <2>2. CASE metas[i].writable = TRUE
    BY <2>1, <2>2, Zenon DEF Grows
  <2>3. CASE metas[i].writable = FALSE
    BY <2>1, <2>3, Zenon DEF Grows, Accepted
  <2> QED
    BY <2>2, <2>3, Zenon DEF Accepted
<1>4. g \in taken.signer /\ g \in BOOLEAN
  <2>1. (metas[i].signer => g) /\ g \in BOOLEAN
    BY <1>1, Zenon
  <2> HIDE DEF g
  <2>2. CASE metas[i].signer = TRUE
    BY <2>1, <2>2, Zenon DEF Grows
  <2>3. CASE metas[i].signer = FALSE
    BY <2>1, <2>3, Zenon DEF Grows, Accepted
  <2> QED
    BY <2>2, <2>3, Zenon DEF Accepted
<1> HIDE DEF w, g
<1> QED
  BY <1>2, <1>3, <1>4, Zenon DEF Accepted

\* A list that a handler accepts fits.
LEMMA ListedFits ==
    ASSUME NEW plan, NEW n \in Nat, NEW metas, NEW takes, Planned(plan) = metas,
           Consumed[plan] = takes, Listed(metas, takes, n)
    PROVE  AccountsFit(plan)
<1>1. ASSUME NEW i \in 1 .. n PROVE Accepted(Merged(metas, i), takes[i])
  <2>1. Accepted(metas[i], takes[i]) /\ i \in DOMAIN metas
    BY <1>1, Zenon DEF Listed
  <2>2. CASE \A j \in DOMAIN metas : metas[j].role = metas[i].role => j = i
    <3>1. /\ Merged(metas, i).role = metas[i].role
          /\ Merged(metas, i).writable = metas[i].writable
          /\ Merged(metas, i).signer = metas[i].signer
      BY <2>1, <2>2, MergedAlone, Zenon DEF Accepted
    <3> QED
      BY <2>1, <3>1, Zenon DEF Accepted
  <2>3. CASE Grows(takes[i])
    BY <2>1, <2>3, MergedGrows, Zenon
  <2> QED
    BY <1>1, <2>2, <2>3, Zenon DEF Listed
<1> QED
  BY <1>1, Zenon DEF AccountsFit, Accepted, Listed

\* The role of an account the SDK lists.
LEMMA Roles ==
    \A r : W(r).role = r /\ R(r).role = r /\ WS(r).role = r /\ RS(r).role = r
BY Zenon DEF W, R, WS, RS

\* Which accounts a handler accepts.
LEMMA Takers ==
    \A r : /\ Accepted(W(r), Writes(r)) /\ Accepted(W(r), Reads(r))
           /\ Accepted(R(r), Reads(r)) /\ Accepted(R(r), ReadOnly(r))
           /\ Accepted(RS(r), Signed(r)) /\ Accepted(RS(r), Reads(r))
           /\ Accepted(WS(r), Pays(r))
BY Zenon DEF W, R, WS, RS, Writes, Reads, ReadOnly, Pays, Signed, Accepted

\* All but the read-only ones may be strengthened.
LEMMA Growing ==
    \A r : Grows(Writes(r)) /\ Grows(Reads(r)) /\ Grows(Signed(r)) /\ Grows(Pays(r))
BY Zenon DEF Writes, Reads, Pays, Signed, Grows

\* The positions of a list, one by one.
LEMMA Positions ==
    /\ \A i \in 1 .. 2 : i = 1 \/ i = 2
    /\ \A i \in 1 .. 3 : i = 1 \/ i = 2 \/ i = 3
    /\ \A i \in 1 .. 4 : i = 1 \/ i = 2 \/ i = 3 \/ i = 4
    /\ \A i \in 1 .. 5 : i = 1 \/ i = 2 \/ i = 3 \/ i = 4 \/ i = 5
    /\ \A i \in 1 .. 6 : i = 1 \/ i = 2 \/ i = 3 \/ i = 4 \/ i = 5 \/ i = 6
    /\ \A i \in 1 .. 7 : i = 1 \/ i = 2 \/ i = 3 \/ i = 4 \/ i = 5 \/ i = 6 \/ i = 7
    /\ \A i \in 1 .. 8 : i = 1 \/ i = 2 \/ i = 3 \/ i = 4 \/ i = 5 \/ i = 6 \/ i = 7 \/ i = 8
    /\ \A i \in 1 .. 9 : i = 1 \/ i = 2 \/ i = 3 \/ i = 4 \/ i = 5
                      \/ i = 6 \/ i = 7 \/ i = 8 \/ i = 9
    /\ \A i \in 1 .. 10 : i = 1 \/ i = 2 \/ i = 3 \/ i = 4 \/ i = 5
                       \/ i = 6 \/ i = 7 \/ i = 8 \/ i = 9 \/ i = 10
    /\ \A i \in 1 .. 11 : i = 1 \/ i = 2 \/ i = 3 \/ i = 4 \/ i = 5
                       \/ i = 6 \/ i = 7 \/ i = 8 \/ i = 9 \/ i = 10 \/ i = 11
OBVIOUS

\* The two sides of each plan.
LEMMA PlanTables ==
    /\ Planned("initialize_config") = ConfigPlans.initialize_config
    /\ Consumed["initialize_config"] = InitializeConfigTakes
    /\ Planned("set_paused") = ConfigPlans.set_paused
    /\ Consumed["set_paused"] = SetPausedTakes
    /\ Planned("register_provider") = ProviderPlans.register_provider
    /\ Consumed["register_provider"] = RegisterProviderTakes
    /\ Planned("add_execution_key") = ProviderPlans.add_execution_key
    /\ Consumed["add_execution_key"] = ExecutionKeysTake
    /\ Planned("revoke_execution_key") = ProviderPlans.revoke_execution_key
    /\ Consumed["revoke_execution_key"] = ExecutionKeysTake
    /\ Planned("deposit_bond") = BondPlans.deposit_bond
    /\ Consumed["deposit_bond"] = DepositBondTakes
    /\ Planned("withdraw_bond") = BondPlans.withdraw_bond
    /\ Consumed["withdraw_bond"] = WithdrawBondTakes
    /\ Planned("create_job") = OpeningPlans.create_job
    /\ Consumed["create_job"] = CreateJobTakes
    /\ Planned("fund_job") = OpeningPlans.fund_job
    /\ Consumed["fund_job"] = FundJobTakes
    /\ Planned("accept_job") = OpeningPlans.accept_job
    /\ Consumed["accept_job"] = AcceptJobTakes
    /\ Planned("submit_receipt") = DeliveryPlans.submit_receipt
    /\ Consumed["submit_receipt"] = SubmitReceiptTakes
    /\ Planned("accept_work") = DeliveryPlans.accept_work
    /\ Consumed["accept_work"] = AcceptWorkTakes
    /\ Planned("challenge_work") = DeliveryPlans.challenge_work
    /\ Consumed["challenge_work"] = ChallengeWorkTakes
    /\ Planned("settle") = TimeoutPlans.settle
    /\ Consumed["settle"] = SettleTakes(Reads("buyer"))
    /\ Planned("settle_challenge") = TimeoutPlans.settle_challenge
    /\ Consumed["settle_challenge"] =
         Append(SettleTakes(Writes("buyer")), Writes("challenge"))
    /\ Planned("refund") = TimeoutPlans.refund
    /\ Consumed["refund"] = RefundTakes
    /\ Planned("expire_unfunded") = TimeoutPlans.expire_unfunded
    /\ Consumed["expire_unfunded"] = ExpireUnfundedTakes
    /\ Planned("expire_unaccepted") = TimeoutPlans.expire_unaccepted
    /\ Consumed["expire_unaccepted"] = RefundTakes
    /\ Planned("slash_bond") = ClosingPlans.slash_bond
    /\ Consumed["slash_bond"] = SlashBondTakes
    /\ Planned("close_job") = ClosingPlans.close_job
    /\ Consumed["close_job"] = CloseJobTakes
    /\ Planned("close_job_escrow") = ClosingPlans.close_job_escrow
    /\ Consumed["close_job_escrow"]
         = Append(Append(CloseJobTakes, Writes("escrow")), Reads("token"))
<1>1. /\ Planned("initialize_config") = ConfigPlans.initialize_config
      /\ Planned("set_paused") = ConfigPlans.set_paused
  BY DEF Planned, ConfigPlans, ProviderPlans, BondPlans, OpeningPlans, DeliveryPlans,
         TimeoutPlans, ClosingPlans
<1>2. /\ Planned("register_provider") = ProviderPlans.register_provider
      /\ Planned("add_execution_key") = ProviderPlans.add_execution_key
      /\ Planned("revoke_execution_key") = ProviderPlans.revoke_execution_key
  BY DEF Planned, ConfigPlans, ProviderPlans, BondPlans, OpeningPlans, DeliveryPlans,
         TimeoutPlans, ClosingPlans
<1>3. /\ Planned("deposit_bond") = BondPlans.deposit_bond
      /\ Planned("withdraw_bond") = BondPlans.withdraw_bond
  BY DEF Planned, ConfigPlans, ProviderPlans, BondPlans, OpeningPlans, DeliveryPlans,
         TimeoutPlans, ClosingPlans
<1>4. /\ Planned("create_job") = OpeningPlans.create_job
      /\ Planned("fund_job") = OpeningPlans.fund_job
      /\ Planned("accept_job") = OpeningPlans.accept_job
  BY DEF Planned, ConfigPlans, ProviderPlans, BondPlans, OpeningPlans, DeliveryPlans,
         TimeoutPlans, ClosingPlans
<1>5. /\ Planned("submit_receipt") = DeliveryPlans.submit_receipt
      /\ Planned("accept_work") = DeliveryPlans.accept_work
      /\ Planned("challenge_work") = DeliveryPlans.challenge_work
  BY DEF Planned, ConfigPlans, ProviderPlans, BondPlans, OpeningPlans, DeliveryPlans,
         TimeoutPlans, ClosingPlans
<1>6. /\ Planned("settle") = TimeoutPlans.settle
      /\ Planned("settle_challenge") = TimeoutPlans.settle_challenge
      /\ Planned("refund") = TimeoutPlans.refund
      /\ Planned("expire_unfunded") = TimeoutPlans.expire_unfunded
      /\ Planned("expire_unaccepted") = TimeoutPlans.expire_unaccepted
  BY DEF Planned, ConfigPlans, ProviderPlans, BondPlans, OpeningPlans, DeliveryPlans,
         TimeoutPlans, ClosingPlans
<1>7. /\ Planned("slash_bond") = ClosingPlans.slash_bond
      /\ Planned("close_job") = ClosingPlans.close_job
      /\ Planned("close_job_escrow") = ClosingPlans.close_job_escrow
  BY DEF Planned, ConfigPlans, ProviderPlans, BondPlans, OpeningPlans, DeliveryPlans,
         TimeoutPlans, ClosingPlans
<1>8. /\ Consumed["initialize_config"] = InitializeConfigTakes
      /\ Consumed["set_paused"] = SetPausedTakes
      /\ Consumed["register_provider"] = RegisterProviderTakes
      /\ Consumed["add_execution_key"] = ExecutionKeysTake
      /\ Consumed["revoke_execution_key"] = ExecutionKeysTake
      /\ Consumed["deposit_bond"] = DepositBondTakes
      /\ Consumed["withdraw_bond"] = WithdrawBondTakes
      /\ Consumed["create_job"] = CreateJobTakes
      /\ Consumed["fund_job"] = FundJobTakes
      /\ Consumed["accept_job"] = AcceptJobTakes
      /\ Consumed["submit_receipt"] = SubmitReceiptTakes
      /\ Consumed["accept_work"] = AcceptWorkTakes
      /\ Consumed["challenge_work"] = ChallengeWorkTakes
      /\ Consumed["settle"] = SettleTakes(Reads("buyer"))
      /\ Consumed["settle_challenge"] =
           Append(SettleTakes(Writes("buyer")), Writes("challenge"))
      /\ Consumed["refund"] = RefundTakes
      /\ Consumed["expire_unfunded"] = ExpireUnfundedTakes
      /\ Consumed["expire_unaccepted"] = RefundTakes
      /\ Consumed["slash_bond"] = SlashBondTakes
      /\ Consumed["close_job"] = CloseJobTakes
      /\ Consumed["close_job_escrow"]
           = Append(Append(CloseJobTakes, Writes("escrow")), Reads("token"))
  BY DEF Consumed
<1> QED
  BY <1>1, <1>2, <1>3, <1>4, <1>5, <1>6, <1>7, <1>8, Zenon

\* The accounts of every plan are those its handler takes.
LEMMA EveryPlanFits == \A plan \in DOMAIN Discriminator : AccountsFit(plan)
<1>1. AccountsFit("initialize_config")
  <2>1. Listed(ConfigPlans.initialize_config, InitializeConfigTakes, 3)
    BY Positions, Takers, Roles DEF Listed, ConfigPlans, InitializeConfigTakes
  <2> QED
    BY <2>1, PlanTables, ListedFits
<1>2. AccountsFit("set_paused")
  <2>1. Listed(ConfigPlans.set_paused, SetPausedTakes, 2)
    BY Positions, Takers, Roles DEF Listed, ConfigPlans, SetPausedTakes
  <2> QED
    BY <2>1, PlanTables, ListedFits
<1>3. AccountsFit("register_provider")
  <2>1. Listed(ProviderPlans.register_provider, RegisterProviderTakes, 4)
    BY Positions, Takers, Roles DEF Listed, ProviderPlans, RegisterProviderTakes
  <2> QED
    BY <2>1, PlanTables, ListedFits
<1>4. AccountsFit("add_execution_key")
  <2>1. Listed(ProviderPlans.add_execution_key, ExecutionKeysTake, 2)
    BY Positions, Takers, Roles DEF Listed, ProviderPlans, ExecutionKeysTake
  <2> QED
    BY <2>1, PlanTables, ListedFits
<1>5. AccountsFit("revoke_execution_key")
  <2>1. Listed(ProviderPlans.revoke_execution_key, ExecutionKeysTake, 2)
    BY Positions, Takers, Roles DEF Listed, ProviderPlans, ExecutionKeysTake
  <2> QED
    BY <2>1, PlanTables, ListedFits
<1>6. AccountsFit("deposit_bond")
  <2>1. Listed(BondPlans.deposit_bond, DepositBondTakes, 9)
    BY Positions, Takers, Roles DEF Listed, BondPlans, DepositBondTakes
  <2> QED
    BY <2>1, PlanTables, ListedFits
<1>7. AccountsFit("withdraw_bond")
  <2>1. Listed(BondPlans.withdraw_bond, WithdrawBondTakes, 6)
    BY Positions, Takers, Roles DEF Listed, BondPlans, WithdrawBondTakes
  <2> QED
    BY <2>1, PlanTables, ListedFits
<1>8. AccountsFit("create_job")
  <2>1. Listed(OpeningPlans.create_job, CreateJobTakes, 5)
    BY Positions, Takers, Roles DEF Listed, OpeningPlans, CreateJobTakes
  <2> QED
    BY <2>1, PlanTables, ListedFits
<1>9. AccountsFit("fund_job")
  <2>1. Listed(OpeningPlans.fund_job, FundJobTakes, 7)
    BY Positions, Takers, Roles DEF Listed, OpeningPlans, FundJobTakes
  <2> QED
    BY <2>1, PlanTables, ListedFits
<1>10. AccountsFit("accept_job")
  <2>1. Listed(OpeningPlans.accept_job, AcceptJobTakes, 5)
    BY Positions, Takers, Roles DEF Listed, OpeningPlans, AcceptJobTakes
  <2> QED
    BY <2>1, PlanTables, ListedFits
<1>11. AccountsFit("submit_receipt")
  <2>1. Listed(DeliveryPlans.submit_receipt, SubmitReceiptTakes, 4)
    BY Positions, Takers, Roles DEF Listed, DeliveryPlans, SubmitReceiptTakes
  <2> QED
    BY <2>1, PlanTables, ListedFits
<1>12. AccountsFit("accept_work")
  <2>1. Listed(DeliveryPlans.accept_work, AcceptWorkTakes, 8)
    BY Positions, Takers, Roles DEF Listed, DeliveryPlans, AcceptWorkTakes
  <2> QED
    BY <2>1, PlanTables, ListedFits
<1>13. AccountsFit("challenge_work")
  <2>1. Listed(DeliveryPlans.challenge_work, ChallengeWorkTakes, 5)
    BY Positions, Takers, Roles DEF Listed, DeliveryPlans, ChallengeWorkTakes
  <2> QED
    BY <2>1, PlanTables, ListedFits
<1>14. AccountsFit("settle")
  <2>1. Listed(TimeoutPlans.settle, SettleTakes(Reads("buyer")), 9)
    BY Positions, Takers, Roles DEF Listed, TimeoutPlans, SettleTakes, SettleAccounts
  <2> QED
    BY <2>1, PlanTables, ListedFits
<1>15. AccountsFit("settle_challenge")
  <2>1. Listed(TimeoutPlans.settle_challenge,
               Append(SettleTakes(Writes("buyer")), Writes("challenge")), 10)
    BY Positions, Takers, Roles DEF Listed, TimeoutPlans, SettleTakes, SettleAccounts
  <2> QED
    BY <2>1, PlanTables, ListedFits
<1>16. AccountsFit("refund")
  <2>1. Listed(TimeoutPlans.refund, RefundTakes, 8)
    BY Positions, Takers, Roles DEF Listed, TimeoutPlans, RefundTakes, RefundAccounts
  <2> QED
    BY <2>1, PlanTables, ListedFits
<1>17. AccountsFit("expire_unfunded")
  <2>1. Listed(TimeoutPlans.expire_unfunded, ExpireUnfundedTakes, 2)
    BY Positions, Takers, Roles DEF Listed, TimeoutPlans, ExpireUnfundedTakes
  <2> QED
    BY <2>1, PlanTables, ListedFits
<1>18. AccountsFit("expire_unaccepted")
  <2>1. Listed(TimeoutPlans.expire_unaccepted, RefundTakes, 8)
    BY Positions, Takers, Roles DEF Listed, TimeoutPlans, RefundTakes, RefundAccounts
  <2> QED
    BY <2>1, PlanTables, ListedFits
<1>19. AccountsFit("slash_bond")
  <2>1. Listed(ClosingPlans.slash_bond, SlashBondTakes, 11)
    BY Positions, Takers, Roles DEF Listed, ClosingPlans, SlashBondTakes
  <2> QED
    BY <2>1, PlanTables, ListedFits
<1>20. AccountsFit("close_job")
  <2>1. Listed(ClosingPlans.close_job, CloseJobTakes, 3)
    BY Positions, Takers, Roles, Growing DEF Listed, ClosingPlans, CloseJobTakes
  <2> QED
    BY <2>1, PlanTables, ListedFits
<1>21. AccountsFit("close_job_escrow")
  <2>1. Listed(ClosingPlans.close_job_escrow,
               Append(Append(CloseJobTakes, Writes("escrow")), Reads("token")), 5)
    BY Positions, Takers, Roles, Growing DEF Listed, ClosingPlans, CloseJobTakes
  <2> QED
    BY <2>1, PlanTables, ListedFits
<1> QED
  BY <1>1, <1>2, <1>3, <1>4, <1>5, <1>6, <1>7, <1>8, <1>9, <1>10, <1>11, <1>12, <1>13,
     <1>14, <1>15, <1>16, <1>17, <1>18, <1>19, <1>20, <1>21 DEF Discriminator

\* The fields that the parser reads are the encoder's and fill the payload.
LEMMA FieldsFit ==
    ASSUME NEW plan, NEW d, NEW n \in Nat, NEW fields, Discriminator[plan] = d,
           PayloadLen(d) = n, Parsed(d) = fields,
           {Field(f.name, f.from - 1, f.to - 1) : f \in Encoded(d)} = fields,
           \A i \in 0 .. n - 1 : \E f \in fields : f.from <= i /\ i < f.to,
           \A f \in fields : f.to <= n
    PROVE  DataFits(plan)
BY Zenon DEF DataFits

\* An instruction without a payload.
LEMMA EmptyFits ==
    ASSUME NEW plan, NEW d \in {1, 7, 8, 10, 12, 13, 14, 15, 16, 17},
           Discriminator[plan] = d
    PROVE  DataFits(plan)
<1>1. PayloadLen(d) = 0 /\ Parsed(d) = {} /\ Encoded(d) = {}
  BY DEF PayloadLen, Parsed, Encoded
<1> QED
  BY <1>1 DEF DataFits

\* An instruction with one field.
LEMMA OneFieldFits ==
    ASSUME NEW plan, NEW d, NEW n \in Nat, NEW name,
           Discriminator[plan] = d, PayloadLen(d) = n,
           Encoded(d) = {Field(name, 1, n + 1)}, Parsed(d) = {Field(name, 0, n)}
    PROVE  DataFits(plan)
<1>1. Field(name, 0, n).from = 0 /\ Field(name, 0, n).to = n
  BY DEF Field
<1>2. {Field(f.name, f.from - 1, f.to - 1) : f \in Encoded(d)} = {Field(name, 0, n)}
  <2>1. Field(name, 1, n + 1).name = name /\ Field(name, 1, n + 1).from - 1 = 0
        /\ Field(name, 1, n + 1).to - 1 = n
    BY DEF Field
  <2> QED
    BY <2>1
<1>3. \A i \in 0 .. n - 1 : \E f \in {Field(name, 0, n)} : f.from <= i /\ i < f.to
  BY <1>1
<1>4. \A f \in {Field(name, 0, n)} : f.to <= n
  BY <1>1
<1> QED
  BY <1>2, <1>3, <1>4, FieldsFit, Zenon

\* The six fields of InitializeConfig.
LEMMA ConfigDataFits == DataFits("initialize_config")
<1> DEFINE fields == {Field("genesis_hash", 0, 32),
                   Field("allowed_mint", 32, 64),
                   Field("token_program", 64, 96),
                   Field("mint_decimals", 96, 97),
                   Field("min_provider_bond", 97, 105),
                   Field("challenge_duration_seconds", 105, 113)}
<1>1. PICK d \in Nat, n \in Nat : d = 0 /\ n = 113
  OBVIOUS
<1>2. Discriminator["initialize_config"] = d /\ PayloadLen(d) = n
  BY <1>1 DEF Discriminator, PayloadLen
<1>3. Parsed(d) = fields
  BY <1>1 DEF Parsed, Field, Key, I64, Byte
<1>4. {Field(f.name, f.from - 1, f.to - 1) : f \in Encoded(d)} = fields
  BY <1>1 DEF Encoded, Field
<1>5. \A i \in 0 .. n - 1 : \E f \in fields : f.from <= i /\ i < f.to
  BY <1>1 DEF Field
<1>6. \A f \in fields : f.to <= n
  BY <1>1 DEF Field
<1> HIDE DEF fields
<1> QED
  BY <1>2, <1>3, <1>4, <1>5, <1>6, FieldsFit, Zenon

\* The seven fields of CreateJob.
LEMMA JobDataFits == DataFits("create_job")
<1> DEFINE fields == {Field("job_nonce", 0, 8),
                   Field("amount", 8, 16),
                   Field("request_hash", 16, 48),
                   Field("fund_deadline", 48, 56),
                   Field("accept_deadline", 56, 64),
                   Field("work_deadline", 64, 72),
                   Field("auto_settle_deadline", 72, 80)}
<1>1. PICK d \in Nat, n \in Nat : d = 6 /\ n = 80
  OBVIOUS
<1>2. Discriminator["create_job"] = d /\ PayloadLen(d) = n
  BY <1>1 DEF Discriminator, PayloadLen
<1>3. Parsed(d) = fields
  BY <1>1 DEF Parsed, Field, Key, I64, Byte
<1>4. {Field(f.name, f.from - 1, f.to - 1) : f \in Encoded(d)} = fields
  BY <1>1 DEF Encoded, Field
<1>5. \A i \in 0 .. n - 1 : \E f \in fields : f.from <= i /\ i < f.to
  BY <1>1 DEF Field
<1>6. \A f \in fields : f.to <= n
  BY <1>1 DEF Field
<1> HIDE DEF fields
<1> QED
  BY <1>2, <1>3, <1>4, <1>5, <1>6, FieldsFit, Zenon

\* The parser reads every instruction as the SDK encodes it.
LEMMA EveryDataFits == \A plan \in DOMAIN Discriminator : DataFits(plan)
<1>1. /\ DataFits("register_provider")
      /\ DataFits("fund_job")
      /\ DataFits("accept_job")
      /\ DataFits("accept_work")
      /\ DataFits("settle")
      /\ DataFits("settle_challenge")
      /\ DataFits("refund")
      /\ DataFits("expire_unfunded")
      /\ DataFits("expire_unaccepted")
      /\ DataFits("slash_bond")
      /\ DataFits("close_job")
      /\ DataFits("close_job_escrow")
  BY EmptyFits DEF Discriminator
<1>2. DataFits("add_execution_key")
  <2>1. /\ Discriminator["add_execution_key"] = 2 /\ PayloadLen(2) = 32
        /\ Encoded(2) = {Field("key", 1, 32 + 1)}
        /\ Parsed(2) = {Field("key", 0, 32)}
    BY DEF Discriminator, PayloadLen, Encoded, Parsed, Field, Key, I64, Byte
  <2> QED
    BY <2>1, OneFieldFits
<1>3. DataFits("revoke_execution_key")
  <2>1. /\ Discriminator["revoke_execution_key"] = 3 /\ PayloadLen(3) = 32
        /\ Encoded(3) = {Field("key", 1, 32 + 1)}
        /\ Parsed(3) = {Field("key", 0, 32)}
    BY DEF Discriminator, PayloadLen, Encoded, Parsed, Field, Key, I64, Byte
  <2> QED
    BY <2>1, OneFieldFits
<1>4. DataFits("deposit_bond")
  <2>1. /\ Discriminator["deposit_bond"] = 4 /\ PayloadLen(4) = 8
        /\ Encoded(4) = {Field("amount", 1, 8 + 1)}
        /\ Parsed(4) = {Field("amount", 0, 8)}
    BY DEF Discriminator, PayloadLen, Encoded, Parsed, Field, Key, I64, Byte
  <2> QED
    BY <2>1, OneFieldFits
<1>5. DataFits("withdraw_bond")
  <2>1. /\ Discriminator["withdraw_bond"] = 5 /\ PayloadLen(5) = 8
        /\ Encoded(5) = {Field("amount", 1, 8 + 1)}
        /\ Parsed(5) = {Field("amount", 0, 8)}
    BY DEF Discriminator, PayloadLen, Encoded, Parsed, Field, Key, I64, Byte
  <2> QED
    BY <2>1, OneFieldFits
<1>6. DataFits("submit_receipt")
  <2>1. /\ Discriminator["submit_receipt"] = 9 /\ PayloadLen(9) = 334
        /\ Encoded(9) = {Field("receipt", 1, 334 + 1)}
        /\ Parsed(9) = {Field("receipt", 0, 334)}
    BY DEF Discriminator, PayloadLen, Encoded, Parsed, Field, Key, I64, Byte
  <2> QED
    BY <2>1, OneFieldFits
<1>7. DataFits("challenge_work")
  <2>1. /\ Discriminator["challenge_work"] = 11 /\ PayloadLen(11) = 32
        /\ Encoded(11) = {Field("reason_hash", 1, 32 + 1)}
        /\ Parsed(11) = {Field("reason_hash", 0, 32)}
    BY DEF Discriminator, PayloadLen, Encoded, Parsed, Field, Key, I64, Byte
  <2> QED
    BY <2>1, OneFieldFits
<1>8. DataFits("set_paused")
  <2>1. /\ Discriminator["set_paused"] = 18 /\ PayloadLen(18) = 1
        /\ Encoded(18) = {Field("paused", 1, 1 + 1)}
        /\ Parsed(18) = {Field("paused", 0, 1)}
    BY DEF Discriminator, PayloadLen, Encoded, Parsed, Field, Key, I64, Byte
  <2> QED
    BY <2>1, OneFieldFits
<1> QED
  BY <1>1, <1>2, <1>3, <1>4, <1>5, <1>6, <1>7, <1>8, ConfigDataFits, JobDataFits DEF Discriminator

\* There is no instruction that the SDK plans in one way and the program reads
\* in another.
LEMMA EveryPlanUnderstood == Understood = DOMAIN Discriminator
BY EveryPlanFits, EveryDataFits, Zenon DEF Understood

-----------------------------------------------------------------------------
(* The clients that end jobs *)

\* Whatever the clients do, the program takes a step of its own or none.
LEMMA PlannedStep == PlannedNext => [Next]_vars
<1> SUFFICES ASSUME PlannedNext PROVE [Next]_vars
  OBVIOUS
<1>1. CASE ClientNext
  <2>1. PICK k \in JobKeys :
            \/ InspectJob(k) \/ ReadClock(k) \/ ReadChallenge(k)
            \/ Abandon(k) \/ Execute(k) \/ Rejected(k)
    BY <1>1 DEF ClientNext
  <2>2. CASE Execute(k)
    <3>1. ExpireUnfunded(k) \/ ResolveTimeoutRefund(k) \/ ResolveTimeoutSettle(k)
      BY <2>2 DEF Execute
    <3> QED
      BY <3>1 DEF Next, JobNext
  <2>3. CASE \/ InspectJob(k) \/ ReadClock(k) \/ ReadChallenge(k)
             \/ Abandon(k) \/ Rejected(k)
    BY <2>3 DEF InspectJob, ReadClock, ReadChallenge, Abandon, Rejected, Advance
  <2> QED
    BY <2>1, <2>2, <2>3
<1>2. CASE Next /\ UNCHANGED request
  BY <1>2
<1> QED
  BY <1>1, <1>2 DEF PlannedNext

\* What is proved of the program holds with the clients too.
THEOREM PlannedImplements == PlannedSpec => Spec
<1>1. PlannedInit => Init
  BY DEF PlannedInit
<1>2. [PlannedNext]_pvars => [Next]_vars
  BY PlannedStep DEF pvars
<1> QED
  BY <1>1, <1>2, PTL DEF PlannedSpec, Spec

\* A plan that was made from the job and challenge of request r is right at
\* time t.
PlanSound(r, t) ==
    IF r.job.state = "Challenged"
    THEN /\ r.plan = "settle_challenge"
         /\ r.challenge.status = "open"
         /\ r.challenge.deadline <= t
    ELSE r.plan = TimeoutPlanFor(r.job, t) /\ r.plan # "none"

\* What a request knows when it waits for its challenge or for its answer.
RequestSound(r, t) ==
    /\ r.pc = "challenge" => r.job.state = "Challenged" /\ r.now <= t
    /\ r.pc = "built" => PlanSound(r, t)

RequestsSound ==
    /\ request \in [JobKeys -> RequestRecord]
    /\ \A k \in JobKeys : RequestSound(request[k], now)

\* The plan of a request for an unchallenged job.
LEMMA TimeoutPlanNames ==
    ASSUME NEW j, NEW t
    PROVE  TimeoutPlanFor(j, t) \in {"none"} \cup DOMAIN TimeoutPlans
BY DEF TimeoutPlanFor, TimeoutPlans

\* A plan that is due stays due.
LEMMA TimeoutPlanStays ==
    ASSUME NEW j \in JobRecord, NEW t \in Time, NEW u \in Time, t <= u,
           TimeoutPlanFor(j, t) # "none"
    PROVE  TimeoutPlanFor(j, u) = TimeoutPlanFor(j, t)
<1>1. /\ j.deadline.fund \in Int /\ j.deadline.accept \in Int
      /\ j.deadline.work \in Int /\ j.deadline.auto \in Int
  BY PayloadAssumption DEF JobRecord, Schedule, Time
<1> DEFINE fund == j.deadline.fund
           accept == j.deadline.accept
           work == j.deadline.work
           auto == j.deadline.auto
<1>2. /\ t >= fund => u >= fund
      /\ t >= accept => u >= accept
      /\ t > work => u > work
      /\ t >= auto => u >= auto
  BY <1>1, PayloadAssumption DEF Time
<1>3. CASE j.state = "Created" /\ t >= fund
  BY <1>2, <1>3 DEF TimeoutPlanFor
<1>4. CASE j.state = "Funded" /\ t >= accept
  BY <1>2, <1>4 DEF TimeoutPlanFor
<1>5. CASE j.state = "Accepted" /\ t > work
  BY <1>2, <1>5 DEF TimeoutPlanFor
<1>6. CASE j.state = "Submitted" /\ t >= auto
  BY <1>2, <1>6 DEF TimeoutPlanFor
<1> QED
  BY <1>3, <1>4, <1>5, <1>6 DEF TimeoutPlanFor

\* A request that is sound stays so while time passes.
LEMMA RequestStays ==
    ASSUME NEW r \in RequestRecord, NEW t \in Time, NEW u \in Time, t <= u,
           RequestSound(r, t)
    PROVE  RequestSound(r, u)
<1>1. r.job \in JobRecord /\ r.now \in Int /\ r.challenge.deadline \in Int /\ t \in Int /\ u \in Int
  BY PayloadAssumption DEF RequestRecord, ChallengeRecord, Time
<1>2. r.now <= t => r.now <= u
  BY <1>1
<1>3. r.challenge.deadline <= t => r.challenge.deadline <= u
  BY <1>1
<1>4. TimeoutPlanFor(r.job, t) # "none" => TimeoutPlanFor(r.job, u) = TimeoutPlanFor(r.job, t)
  BY <1>1, TimeoutPlanStays
<1> QED
  BY <1>2, <1>3, <1>4 DEF RequestSound, PlanSound

\* A request that has nothing yet.
LEMMA NoRequestSound == NoRequest \in RequestRecord /\ \A t : RequestSound(NoRequest, t)
BY PayloadAssumption DEF NoRequest, RequestRecord, RequestSound, NoJob, JobRecord,
    ZeroSchedule, Schedule, Time, NoChallenge, ChallengeRecord

\* No step of the program turns the clock back.
LEMMA ClockStep ==
    ASSUME TypeOK, [Next]_vars
    PROVE  now \in Time /\ now' \in Time /\ now <= now'
<1>1. now \in Time /\ now' \in Time
  BY NextType DEF TypeOK
<1>2. now' = now \/ now' = now + 1
  <2>1. CASE ConfigNext
    BY <2>1 DEF ConfigNext, InitializeConfig, SetPaused
  <2>2. CASE ProviderNext
    BY <2>2 DEF ProviderNext, RegisterProvider, AddExecutionKey, RevokeExecutionKey,
                DepositBond, WithdrawBond
  <2>3. CASE JobNext
    <3>1. PICK k \in JobKeys :
              \/ \E amount \in Amounts, hash \in Requests \cup {ZeroHash}, d \in Schedules :
                    CreateJob(k, amount, hash, d)
              \/ FundJob(k)
              \/ AcceptJob(k)
              \/ \E receipt \in Receipts, signer \in Keys : SubmitReceipt(k, receipt, signer)
              \/ AcceptWork(k)
              \/ ChallengeWork(k)
              \/ ResolveTimeoutSettle(k)
              \/ ResolveTimeoutRefund(k)
              \/ ExpireUnaccepted(k)
              \/ ExpireUnfunded(k)
              \/ \E s \in Parties : SlashBond(s, k)
              \/ \E withEscrow \in BOOLEAN : CloseJob(k, withEscrow)
      BY <2>3, Zenon DEF JobNext
    <3>2. CASE \E amount \in Amounts, hash \in Requests \cup {ZeroHash}, d \in Schedules :
                  CreateJob(k, amount, hash, d)
      BY <3>2, Zenon DEF CreateJob
    <3>3. CASE FundJob(k) \/ AcceptJob(k)
      BY <3>3 DEF FundJob, AcceptJob
    <3>4. CASE \E receipt \in Receipts, signer \in Keys : SubmitReceipt(k, receipt, signer)
      BY <3>4, Zenon DEF SubmitReceipt
    <3>5. CASE AcceptWork(k) \/ ChallengeWork(k)
      BY <3>5 DEF AcceptWork, ChallengeWork
    <3>6. CASE ResolveTimeoutSettle(k) \/ ResolveTimeoutRefund(k) \/ ExpireUnaccepted(k)
      BY <3>6 DEF ResolveTimeoutSettle, ResolveTimeoutRefund, ExpireUnaccepted, RefundInternal
    <3>7. CASE ExpireUnfunded(k)
      BY <3>7 DEF ExpireUnfunded
    <3>8. CASE \E s \in Parties : SlashBond(s, k)
      BY <3>8, Zenon DEF SlashBond
    <3>9. CASE \E withEscrow \in BOOLEAN : CloseJob(k, withEscrow)
      BY <3>9, Zenon DEF CloseJob
    <3> QED
      BY <3>1, <3>2, <3>3, <3>4, <3>5, <3>6, <3>7, <3>8, <3>9
  <2>4. CASE EnvironmentNext
    BY <2>4 DEF EnvironmentNext, Tick, DonateToEscrow, DonateToVault
  <2>5. CASE UNCHANGED vars
    BY <2>5 DEF vars
  <2> QED
    BY <2>1, <2>2, <2>3, <2>4, <2>5 DEF Next
<1> QED
  BY <1>1, <1>2, PayloadAssumption DEF Time

\* The next request of one job, while the clock does not go back.
LEMMA RequestStep ==
    ASSUME RequestsSound, NEW k \in JobKeys, NEW r \in RequestRecord,
           now \in Time, now' \in Time, now <= now',
           RequestSound(r, now'), request' = [request EXCEPT ![k] = r]
    PROVE  RequestsSound'
<1>1. request' \in [JobKeys -> RequestRecord]
  BY DEF RequestsSound
<1>2. ASSUME NEW l \in JobKeys PROVE RequestSound(request'[l], now')
  <2>1. CASE l = k
    <3>1. request'[l] = r
      BY <2>1 DEF RequestsSound
    <3> QED
      BY <3>1
  <2>2. CASE l # k
    <3>1. request'[l] = request[l] /\ request[l] \in RequestRecord
      BY <2>2 DEF RequestsSound
    <3>2. RequestSound(request[l], now)
      BY DEF RequestsSound
    <3>3. RequestSound(request[l], now')
      BY <3>1, <3>2, RequestStays
    <3> QED
      BY <3>1, <3>3
  <2> QED
    BY <2>1, <2>2
<1> QED
  BY <1>1, <1>2 DEF RequestsSound

\* The records that a request goes through are of its type.
LEMMA RequestUpdates ==
    ASSUME TypeOK, RequestsSound, NEW k \in JobKeys
    PROVE  /\ request[k] \in RequestRecord
           /\ [request[k] EXCEPT !.pc = "clock", !.job = job[k]] \in RequestRecord
           /\ [request[k] EXCEPT !.pc = "challenge", !.now = now] \in RequestRecord
           /\ \A plan \in DOMAIN TimeoutPlans :
                 /\ [request[k] EXCEPT !.pc = "built", !.plan = plan] \in RequestRecord
                 /\ [request[k] EXCEPT !.pc = "built", !.now = 0, !.challenge = challenge[k],
                                       !.plan = plan] \in RequestRecord
<1>1. request[k] \in RequestRecord
  BY DEF RequestsSound
<1>2. /\ job[k] \in JobRecord /\ challenge[k] \in ChallengeRecord
      /\ now \in Time /\ 0 \in Time
  BY PayloadAssumption DEF TypeOK, Time
<1> HIDE DEF JobRecord
<1> QED
  BY <1>1, <1>2 DEF RequestRecord

\* A client that reads the job, the clock or the challenge, or gives up.
LEMMA ReadStep ==
    ASSUME TypeOK, RequestsSound, NEW k \in JobKeys,
           \/ InspectJob(k) \/ ReadClock(k) \/ ReadChallenge(k)
           \/ Abandon(k) \/ Rejected(k)
    PROVE  RequestsSound'
<1> DEFINE r == request[k]
<1>1. ASSUME NEW next \in RequestRecord, RequestSound(next, now), Advance(k, next)
      PROVE  RequestsSound'
  <2>1. now \in Time /\ now' = now /\ now <= now'
    BY <1>1, PayloadAssumption DEF Advance, vars, TypeOK, Time
  <2>2. RequestSound(next, now') /\ request' = [request EXCEPT ![k] = next]
    BY <1>1, <2>1 DEF Advance
  <2> QED
    BY <2>1, <2>2, RequestStep
<1>2. CASE InspectJob(k)
  <2> DEFINE next == [r EXCEPT !.pc = "clock", !.job = job[k]]
  <2>1. next \in RequestRecord /\ next.pc = "clock"
    BY RequestUpdates DEF RequestRecord
  <2>2. RequestSound(next, now)
    BY <2>1 DEF RequestSound
  <2>3. Advance(k, next)
    BY <1>2 DEF InspectJob
  <2> QED
    BY <1>1, <2>1, <2>2, <2>3
<1>3. CASE ReadClock(k)
  <2> DEFINE plan == TimeoutPlanFor(r.job, now)
             asks == [r EXCEPT !.pc = "challenge", !.now = now]
             built == [r EXCEPT !.pc = "built", !.plan = plan]
  <2>1. asks \in RequestRecord /\ r \in RequestRecord
    BY RequestUpdates
  <2>2. CASE r.job.state = "Challenged"
    <3>1. asks.pc = "challenge" /\ asks.job = r.job /\ asks.now = now /\ now <= now
      BY <2>1, PayloadAssumption DEF RequestRecord, TypeOK, Time
    <3>2. RequestSound(asks, now)
      BY <2>2, <3>1 DEF RequestSound
    <3>3. Advance(k, asks)
      BY <1>3, <2>2 DEF ReadClock
    <3> QED
      BY <1>1, <2>1, <3>2, <3>3
  <2>3. CASE r.job.state # "Challenged" /\ plan # "none"
    <3>1. built \in RequestRecord
      BY <2>3, RequestUpdates, TimeoutPlanNames
    <3>2. built.pc = "built" /\ built.job = r.job /\ built.plan = plan
      BY <2>1 DEF RequestRecord
    <3>3. RequestSound(built, now)
      BY <2>3, <3>2 DEF RequestSound, PlanSound
    <3>4. Advance(k, built)
      BY <1>3, <2>3 DEF ReadClock
    <3> QED
      BY <1>1, <3>1, <3>3, <3>4
  <2>4. CASE r.job.state # "Challenged" /\ plan = "none"
    <3>1. Advance(k, NoRequest)
      BY <1>3, <2>4 DEF ReadClock
    <3> QED
      BY <1>1, <3>1, NoRequestSound
  <2> QED
    BY <2>2, <2>3, <2>4
<1>4. CASE ReadChallenge(k)
  <2> DEFINE built == [r EXCEPT !.pc = "built", !.now = 0, !.challenge = challenge[k],
                                !.plan = "settle_challenge"]
  <2>1. r.pc = "challenge"
    BY <1>4 DEF ReadChallenge
  <2>2. r.job.state = "Challenged" /\ r.now <= now
    BY <2>1 DEF RequestsSound, RequestSound
  <2>3. CASE challenge[k].status = "open" /\ r.now >= challenge[k].deadline
    <3>1. r \in RequestRecord /\ built \in RequestRecord
      BY RequestUpdates DEF TimeoutPlans
    <3>2. /\ built.pc = "built" /\ built.job = r.job /\ built.plan = "settle_challenge"
          /\ built.challenge = challenge[k]
      BY <3>1 DEF RequestRecord
    <3>3. challenge[k].deadline <= now
      <4>1. r.now \in Int /\ now \in Int /\ challenge[k].deadline \in Int
        BY <3>1, PayloadAssumption DEF RequestRecord, TypeOK, ChallengeRecord, Time
      <4> QED
        BY <2>2, <2>3, <4>1
    <3>4. RequestSound(built, now)
      BY <2>2, <2>3, <3>2, <3>3 DEF RequestSound, PlanSound
    <3>5. Advance(k, built)
      BY <1>4, <2>3 DEF ReadChallenge
    <3> QED
      BY <1>1, <3>1, <3>4, <3>5
  <2>4. CASE ~(challenge[k].status = "open" /\ r.now >= challenge[k].deadline)
    <3>1. Advance(k, NoRequest)
      BY <1>4, <2>4 DEF ReadChallenge
    <3> QED
      BY <1>1, <3>1, NoRequestSound
  <2> QED
    BY <2>3, <2>4
<1>5. CASE Abandon(k) \/ Rejected(k)
  <2>1. Advance(k, NoRequest)
    BY <1>5 DEF Abandon, Rejected
  <2> QED
    BY <1>1, <2>1, NoRequestSound
<1> QED
  BY <1>2, <1>3, <1>4, <1>5

\* Requests stay sound whatever the program and its clients do.
LEMMA NextRequests == TypeOK /\ RequestsSound /\ [PlannedNext]_pvars => RequestsSound'
<1> SUFFICES ASSUME TypeOK, RequestsSound, [PlannedNext]_pvars
             PROVE  RequestsSound'
  OBVIOUS
<1>1. [Next]_vars
  BY PlannedStep DEF pvars
<1>2. now \in Time /\ now' \in Time /\ now <= now'
  BY <1>1, ClockStep
<1>3. CASE ClientNext
  <2>1. PICK k \in JobKeys :
            \/ InspectJob(k) \/ ReadClock(k) \/ ReadChallenge(k)
            \/ Abandon(k) \/ Execute(k) \/ Rejected(k)
    BY <1>3 DEF ClientNext
  <2>2. CASE Execute(k)
    <3>1. request' = [request EXCEPT ![k] = NoRequest]
      BY <2>2 DEF Execute
    <3>2. NoRequest \in RequestRecord /\ RequestSound(NoRequest, now')
      BY NoRequestSound
    <3> QED
      BY <1>2, <3>1, <3>2, RequestStep
  <2>3. CASE \/ InspectJob(k) \/ ReadClock(k) \/ ReadChallenge(k)
             \/ Abandon(k) \/ Rejected(k)
    BY <2>3, ReadStep
  <2> QED
    BY <2>1, <2>2, <2>3
<1>4. CASE UNCHANGED request
  <2>1. ASSUME NEW k \in JobKeys PROVE RequestSound(request[k], now')
    <3>1. request[k] \in RequestRecord /\ RequestSound(request[k], now)
      BY DEF RequestsSound
    <3> QED
      BY <1>2, <3>1, RequestStays
  <2> QED
    BY <1>4, <2>1 DEF RequestsSound
<1> QED
  BY <1>3, <1>4 DEF PlannedNext, pvars

\* Initially there are no requests.
LEMMA InitRequests == PlannedInit => RequestsSound
<1> SUFFICES ASSUME PlannedInit PROVE RequestsSound
  OBVIOUS
<1>1. request = [k \in JobKeys |-> NoRequest]
  BY DEF PlannedInit
<1>2. \A k \in JobKeys : request[k] = NoRequest
  BY <1>1
<1>3. NoRequest \in RequestRecord /\ RequestSound(NoRequest, now)
  BY NoRequestSound
<1>4. request \in [JobKeys -> RequestRecord]
  BY <1>1, <1>3
<1> QED
  BY <1>2, <1>3, <1>4 DEF RequestsSound

\* A job that is due finds what it pays out and what it unlocks.
LEMMA DueJobResolves ==
    ASSUME AccountingInv, NEW k \in JobKeys,
           job[k].state = "Created" \/ job[k].state \in HeldStates
    PROVE  /\ escrow[k] >= job[k].amount \/ job[k].state = "Created"
           /\ CanUnlock(k)
<1>1. bond[ProviderOf(k)].locked \in Nat
  BY JobKeyParts, BondFields DEF AccountingInv
<1>2. CASE job[k].state \in BondedStates
  BY <1>2, ShareCovered DEF CanUnlock, AccountingInv, EscrowBacked, HeldStates, BondedStates
<1>3. CASE job[k].state \in {"Created", "Funded"}
  <2>1. job[k].lockedBond = 0
    BY <1>3 DEF AccountingInv, JobBondExact, BondedStates
  <2>2. CanUnlock(k)
    BY <1>1, <2>1 DEF CanUnlock
  <2> QED
    BY <1>3, <2>2 DEF AccountingInv, EscrowBacked, HeldStates
<1> QED
  BY <1>2, <1>3 DEF HeldStates, BondedStates

\* The program executes a plan made from its accounts as they still are.
LEMMA SoundPlanExecutes ==
    ASSUME AccountingInv, RequestsSound, NEW k \in JobKeys,
           request[k].pc = "built", job[k] = request[k].job,
           request[k].plan = "settle_challenge" => challenge[k] = request[k].challenge
    PROVE  Executable(k)
<1> DEFINE r == request[k]
           plan == request[k].plan
           due == CASE plan = "expire_unfunded" ->
                         job[k].state = "Created" /\ now >= job[k].deadline.fund
                    [] plan = "refund" -> CanTimeoutRefund(k, FALSE)
                    [] OTHER -> CanTimeoutSettle(k) /\ HasChallenge(k)
<1>1. PlanSound(r, now)
  BY DEF RequestsSound, RequestSound
<1>2. now \in Int
  BY PayloadAssumption DEF AccountingInv, TypeOK, Time
<1>3. CASE job[k].state = "Challenged"
  <2>1. plan = "settle_challenge" /\ challenge[k].status = "open"
        /\ challenge[k].deadline <= now
    BY <1>1, <1>3 DEF PlanSound
  <2>2. challenge[k].deadline \in Int
    BY PayloadAssumption DEF AccountingInv, TypeOK, ChallengeRecord, Time
  <2>3. due
    BY <1>2, <1>3, <2>1, <2>2 DEF CanTimeoutSettle, HasChallenge
  <2>4. plan \in Understood
    BY <2>1, EveryPlanUnderstood DEF Discriminator
  <2>5. CanUnlock(k) /\ (escrow[k] >= job[k].amount \/ job[k].state = "Created")
    BY <1>3, DueJobResolves DEF HeldStates
  <2> QED
    BY <2>3, <2>4, <2>5 DEF Executable
<1>4. CASE job[k].state # "Challenged"
  <2>1. plan = TimeoutPlanFor(job[k], now) /\ plan # "none"
    BY <1>1, <1>4 DEF PlanSound
  <2>2. \/ /\ plan = "expire_unfunded"
           /\ job[k].state = "Created" /\ now >= job[k].deadline.fund
        \/ /\ plan = "refund"
           /\ job[k].state = "Funded" /\ now >= job[k].deadline.accept
        \/ /\ plan = "refund"
           /\ job[k].state = "Accepted" /\ now > job[k].deadline.work
        \/ /\ plan = "settle"
           /\ job[k].state = "Submitted" /\ now >= job[k].deadline.auto
    BY <2>1 DEF TimeoutPlanFor
  <2>3. due
    BY <1>4, <2>2 DEF CanTimeoutSettle, CanTimeoutRefund, HasChallenge
  <2>4. plan \in Understood
    BY <2>2, EveryPlanUnderstood DEF Discriminator
  <2>5. CanUnlock(k) /\ (escrow[k] >= job[k].amount \/ job[k].state = "Created")
    BY <2>2, DueJobResolves DEF HeldStates
  <2> QED
    BY <2>3, <2>4, <2>5 DEF Executable
<1> QED
  BY <1>3, <1>4

\* A timeout plan that build_timeout_plan returned is executed, however long it
\* takes to arrive, unless someone else resolved the job in the meantime.
THEOREM PlanFitsCorrect == PlannedSpec => []PlanFits
<1>1. PlannedSpec => []TypeOK /\ []AccountingInv
  BY PlannedImplements, TypeCorrect, AccountingCorrect, PTL
<1>2. PlannedSpec => []RequestsSound
  <2>1. PlannedSpec => RequestsSound
    BY InitRequests DEF PlannedSpec
  <2> QED
    BY <1>1, <2>1, NextRequests, PTL DEF PlannedSpec
<1>3. AccountingInv /\ RequestsSound => PlanFits
  BY SoundPlanExecutes DEF PlanFits
<1> QED
  BY <1>1, <1>2, <1>3, PTL

\* Whatever instruction the program executes, the SDK accepts its arguments and
\* the program finds in the plan every account and every field at its place.
THEOREM PlansCorrect == Spec => PlanForEveryInstruction
<1> DEFINE Plans ==
       /\ \A s \in Parties :
            /\ \A m \in MinBonds, d \in Durations : InitializeConfig(s, m, d) =>
                  PlansConfig(m, d) /\ "initialize_config" \in Understood
            /\ \A p \in BOOLEAN : SetPaused(s, p) => "set_paused" \in Understood
       /\ \A p \in Providers :
            /\ RegisterProvider(p) => "register_provider" \in Understood
            /\ \A key \in Keys :
                 /\ AddExecutionKey(p, key) => "add_execution_key" \in Understood
                 /\ RevokeExecutionKey(p, key) => "revoke_execution_key" \in Understood
            /\ \A a \in Amounts :
                 /\ DepositBond(p, a) => PlansAmount(a) /\ "deposit_bond" \in Understood
                 /\ WithdrawBond(p, a) => PlansAmount(a) /\ "withdraw_bond" \in Understood
       /\ \A k \in JobKeys :
            /\ \A a \in Amounts, h \in Requests \cup {ZeroHash}, d \in Schedules :
                 CreateJob(k, a, h, d) =>
                    /\ \A t \in 0 .. now : PlansJob(a, h, d, t)
                    /\ "create_job" \in Understood
            /\ FundJob(k) => "fund_job" \in Understood
            /\ AcceptJob(k) => "accept_job" \in Understood
            /\ \A r \in Receipts, key \in Keys : SubmitReceipt(k, r, key) =>
                  /\ \A t \in 0 .. now : PlansReceipt(k, r, t)
                  /\ "submit_receipt" \in Understood
            /\ AcceptWork(k) => "accept_work" \in Understood
            /\ ChallengeWork(k) => "challenge_work" \in Understood
            /\ ResolveTimeoutSettle(k) =>
                  {"settle", "settle_challenge"} \subseteq Understood
            /\ ResolveTimeoutRefund(k) => "refund" \in Understood
            /\ ExpireUnaccepted(k) => "expire_unaccepted" \in Understood
            /\ ExpireUnfunded(k) => "expire_unfunded" \in Understood
            /\ \A s \in Parties : SlashBond(s, k) => "slash_bond" \in Understood
            /\ CloseJob(k, TRUE) => "close_job_escrow" \in Understood
            /\ CloseJob(k, FALSE) => "close_job" \in Understood
<1>1. ASSUME TypeOK PROVE Plans
  <2>1. Understood = DOMAIN Discriminator
    BY EveryPlanUnderstood
  <2>2. {"initialize_config", "set_paused", "register_provider", "add_execution_key",
         "revoke_execution_key", "deposit_bond", "withdraw_bond", "create_job", "fund_job",
         "accept_job", "submit_receipt", "accept_work", "challenge_work", "settle",
         "settle_challenge", "refund", "expire_unaccepted", "expire_unfunded",
         "slash_bond", "close_job_escrow", "close_job"} \subseteq Understood
    BY <2>1 DEF Discriminator
  <2>3. ASSUME NEW s, NEW m, NEW d, InitializeConfig(s, m, d)
        PROVE  PlansConfig(m, d)
    BY <2>3 DEF InitializeConfig, PlansConfig
  <2>4. ASSUME NEW p, NEW a, DepositBond(p, a) \/ WithdrawBond(p, a)
        PROVE  PlansAmount(a)
    BY <2>4 DEF DepositBond, WithdrawBond, PlansAmount
  <2>5. now \in Int
    BY <1>1, PayloadAssumption DEF TypeOK, Time
  <2>6. ASSUME NEW k, NEW a, NEW h, NEW d \in Schedules, CreateJob(k, a, h, d),
               NEW t \in 0 .. now
        PROVE  PlansJob(a, h, d, t)
    <3>1. d.fund \in Int
      BY PayloadAssumption DEF Schedule, Time
    <3>2. t < d.fund
      BY <2>5, <2>6, <3>1 DEF CreateJob
    <3> QED
      BY <2>6, <3>2 DEF CreateJob, PlansJob, PlansAmount
  <2>7. ASSUME NEW k, NEW r \in Receipts, NEW key, SubmitReceipt(k, r, key),
               NEW t \in 0 .. now
        PROVE  PlansReceipt(k, r, t)
    <3>1. r.window.expires \in Int
      BY PayloadAssumption DEF Receipts, Window, Time
    <3>2. t <= r.window.expires
      BY <2>5, <2>7, <3>1 DEF SubmitReceipt
    <3> QED
      BY <2>7, <3>2 DEF SubmitReceipt, PlansReceipt
  <2> QED
    BY <2>2, <2>3, <2>4, <2>6, <2>7
<1>2. Plans => [Plans]_vars
  OBVIOUS
<1>3. Spec => [][Plans]_vars
  BY <1>1, <1>2, TypeCorrect, PTL DEF Spec
<1> QED
  BY <1>3 DEF PlanForEveryInstruction
==============================================================================
