--------------------------- MODULE AgentBondProofs ---------------------------
(* Proofs about the AgentBond program for all parties, nonces and payloads. *)
EXTENDS AgentBond, FiniteSetTheorems, TLAPS

-----------------------------------------------------------------------------
(* Type correctness *)

\* A job address is made of its buyer, its provider and a nonce.
LEMMA JobKeyParts ==
    ASSUME NEW k \in JobKeys
    PROVE  /\ BuyerOf(k) \in Buyers
           /\ BuyerOf(k) \in Parties
           /\ ProviderOf(k) \in Providers
           /\ ProviderOf(k) \in Parties
BY PartyAssumption DEF JobKeys, BuyerOf, ProviderOf

\* Swap-removing a key leaves a list of keys.
LEMMA SwapRemoveType ==
    ASSUME NEW s \in Seq(Keys), NEW i \in 1 .. Len(s)
    PROVE  SwapRemove(s, i) \in Seq(Keys)
<1>1. Len(s) \in Nat /\ Len(s) >= 1
  OBVIOUS
<1>2. \A j \in 1 .. Len(s) : s[j] \in Keys
  OBVIOUS
<1>3. SwapRemove(s, i) \in [1 .. Len(s) - 1 -> Keys]
  BY <1>1, <1>2 DEF SwapRemove
<1> QED
  BY <1>1, <1>3

\* Updates of one account keep a table of accounts well typed.
LEMMA KeysUpdate ==
    ASSUME NEW f \in [Providers -> ProviderRecord], NEW p \in Providers,
           NEW s \in Seq(Keys)
    PROVE  [f EXCEPT ![p].keys = s] \in [Providers -> ProviderRecord]
<1>1. ASSUME NEW D, NEW A, NEW S, NEW g \in [D -> [status: A, keys: S]],
             NEW d \in D, NEW t \in S
      PROVE  [g EXCEPT ![d].keys = t] \in [D -> [status: A, keys: S]]
  OBVIOUS
<1> QED
  BY <1>1 DEF ProviderRecord

\* A bond whose deposit changes to a natural number stays well typed.
LEMMA DepositedUpdate ==
    ASSUME NEW f \in [Providers -> BondRecord], NEW p \in Providers, NEW x \in Nat
    PROVE  [f EXCEPT ![p].deposited = x] \in [Providers -> BondRecord]
BY DEF BondRecord

\* A bond whose locked part changes to a natural number stays well typed.
LEMMA LockedUpdate ==
    ASSUME NEW f \in [Providers -> BondRecord], NEW p \in Providers, NEW x \in Nat
    PROVE  [f EXCEPT ![p].locked = x] \in [Providers -> BondRecord]
BY DEF BondRecord

\* The two fields of a bond account are natural numbers.
LEMMA BondFields ==
    ASSUME TypeOK, NEW p \in Providers
    PROVE  bond[p].deposited \in Nat /\ bond[p].locked \in Nat
BY DEF TypeOK, BondRecord

\* The fields of a job account have their types.
LEMMA JobFields ==
    ASSUME TypeOK, NEW k \in JobKeys
    PROVE  /\ job[k].state \in JobStates \cup {"None"}
           /\ job[k].amount \in Nat
           /\ job[k].lockedBond \in Nat
           /\ job[k].deadline \in Schedule
BY DEF TypeOK, JobRecord

\* A job that changes its state, its receipt or its locked bond is well typed.
LEMMA JobUpdate ==
    ASSUME NEW j \in JobRecord, NEW to \in JobStates
    PROVE  /\ TransitionJob(j, to) \in JobRecord
           /\ \A x \in Nat : [TransitionJob(j, to) EXCEPT !.lockedBond = x] \in JobRecord
           /\ \A r \in Receipts : [TransitionJob(j, to) EXCEPT !.receipt = r] \in JobRecord
BY DEF TransitionJob, JobRecord

\* A balance that gains or loses what it can afford stays a natural number.
LEMMA BalanceUpdate ==
    ASSUME NEW D, NEW f \in [D -> Nat], NEW d \in D, NEW x \in Nat
    PROVE  /\ [f EXCEPT ![d] = @ + x] \in [D -> Nat]
           /\ [f EXCEPT ![d] = x] \in [D -> Nat]
           /\ f[d] >= x => [f EXCEPT ![d] = @ - x] \in [D -> Nat]
OBVIOUS

\* Credit adds to one balance.
LEMMA CreditType ==
    ASSUME NEW w \in [Parties -> Nat], NEW a \in Parties, NEW x \in Nat
    PROVE  Credit(w, a, x) \in [Parties -> Nat]
BY DEF Credit

\* The initial accounts have their types.
LEMMA InitType == Init => TypeOK
BY PayloadAssumption, WalletAssumption
DEF Init, TypeOK, NoJob, NoChallenge, ZeroSchedule, Time, Schedule, JobRecord, JobStates,
    ConfigRecord, ProviderRecord, BondRecord, ChallengeRecord

\* Configuration instructions keep every account well typed.
LEMMA ConfigType ==
    ASSUME TypeOK, ConfigNext
    PROVE  TypeOK'
<1>1. ASSUME NEW s \in Parties, NEW m \in MinBonds, NEW d \in Durations,
             InitializeConfig(s, m, d)
      PROVE  TypeOK'
  BY <1>1, PayloadAssumption DEF InitializeConfig, TypeOK, ledger, ConfigRecord
<1>2. ASSUME NEW s \in Parties, NEW paused \in BOOLEAN, SetPaused(s, paused)
      PROVE  TypeOK'
  BY <1>2 DEF SetPaused, TypeOK, ledger, ConfigRecord
<1> QED
  BY <1>1, <1>2 DEF ConfigNext

\* Provider instructions keep every account well typed.
LEMMA ProviderType ==
    ASSUME TypeOK, ProviderNext
    PROVE  TypeOK'
<1>1. ASSUME NEW p \in Providers, RegisterProvider(p)
      PROVE  TypeOK'
  BY <1>1 DEF RegisterProvider, TypeOK, ledger, ProviderRecord
<1>2. ASSUME NEW p \in Providers, NEW key \in Keys, AddExecutionKey(p, key)
      PROVE  TypeOK'
  <2>1. Append(provider[p].keys, key) \in Seq(Keys)
    BY DEF TypeOK, ProviderRecord
  <2>2. provider' \in [Providers -> ProviderRecord]
    BY <1>2, <2>1, KeysUpdate DEF AddExecutionKey, TypeOK
  <2> QED
    BY <1>2, <2>2 DEF AddExecutionKey, TypeOK, ledger
<1>3. ASSUME NEW p \in Providers, NEW key \in Keys, RevokeExecutionKey(p, key)
      PROVE  TypeOK'
  <2>1. PICK i \in 1 .. Len(provider[p].keys) :
            provider' = [provider EXCEPT ![p].keys = SwapRemove(@, i)]
    BY <1>3 DEF RevokeExecutionKey
  <2>2. provider[p].keys \in Seq(Keys)
    BY DEF TypeOK, ProviderRecord
  <2>3. SwapRemove(provider[p].keys, i) \in Seq(Keys)
    BY <2>2, SwapRemoveType
  <2>4. provider' \in [Providers -> ProviderRecord]
    BY <2>1, <2>3, KeysUpdate DEF TypeOK
  <2> QED
    BY <1>3, <2>4 DEF RevokeExecutionKey, TypeOK, ledger
<1>4. ASSUME NEW p \in Providers, NEW x \in Amounts, DepositBond(p, x)
      PROVE  TypeOK'
  <2>1. x \in Nat /\ p \in Parties
    BY PayloadAssumption, PartyAssumption
  <2>2. bond' \in [Providers -> BondRecord]
    <3>1. bond[p].deposited + x \in Nat
      BY <2>1, BondFields
    <3> QED
      BY <1>4, <3>1, DepositedUpdate DEF DepositBond, TypeOK
  <2>3. vault' \in [Providers -> Nat] /\ wallet' \in [Parties -> Nat]
    BY <1>4, <2>1, BalanceUpdate DEF DepositBond, TypeOK
  <2> QED
    BY <1>4, <2>2, <2>3 DEF DepositBond, TypeOK
<1>5. ASSUME NEW p \in Providers, NEW x \in Amounts, WithdrawBond(p, x)
      PROVE  TypeOK'
  <2>1. x \in Nat /\ p \in Parties
    BY PayloadAssumption, PartyAssumption
  <2>2. bond[p].deposited - x \in Nat
    BY <1>5, <2>1, BondFields DEF WithdrawBond, Unlocked
  <2>3. bond' \in [Providers -> BondRecord]
    BY <1>5, <2>2, DepositedUpdate DEF WithdrawBond, TypeOK
  <2>4. vault' \in [Providers -> Nat] /\ wallet' \in [Parties -> Nat]
    BY <1>5, <2>1, BalanceUpdate, CreditType DEF WithdrawBond, TypeOK
  <2> QED
    BY <1>5, <2>3, <2>4 DEF WithdrawBond, TypeOK
<1> QED
  BY <1>1, <1>2, <1>3, <1>4, <1>5 DEF ProviderNext

\* The environment's steps keep every account well typed.
LEMMA EnvironmentType ==
    ASSUME TypeOK, EnvironmentNext
    PROVE  TypeOK'
<1>1. ASSUME Tick
      PROVE  TypeOK'
  BY <1>1, PayloadAssumption DEF Tick, TypeOK, ledger, Time
<1>2. ASSUME NEW a \in Parties, NEW k \in JobKeys, DonateToEscrow(a, k)
      PROVE  TypeOK'
  BY <1>2, BalanceUpdate DEF DonateToEscrow, TypeOK
<1>3. ASSUME NEW a \in Parties, NEW p \in Providers, DonateToVault(a, p)
      PROVE  TypeOK'
  BY <1>3, BalanceUpdate DEF DonateToVault, TypeOK
<1> QED
  BY <1>1, <1>2, <1>3 DEF EnvironmentNext

\* Both payouts empty the escrow into well-typed wallets.
LEMMA PayoutType ==
    ASSUME TypeOK, NEW k \in JobKeys,
           \/ SettlePayout(k)
           \/ RefundPrincipal(k, wallet)
           \/ RefundPrincipal(k, Credit(wallet, BuyerOf(k), job[k].lockedBond))
    PROVE  escrow' \in [JobKeys -> Nat] /\ wallet' \in [Parties -> Nat]
<1>1. job[k].amount \in Nat /\ job[k].lockedBond \in Nat /\ escrow[k] \in Nat
  BY JobFields DEF TypeOK
<1>2. wallet \in [Parties -> Nat] /\ BuyerOf(k) \in Parties /\ ProviderOf(k) \in Parties
  BY JobKeyParts DEF TypeOK
<1>3. escrow' \in [JobKeys -> Nat]
  <2>1. escrow' = [escrow EXCEPT ![k] = 0]
    BY DEF SettlePayout, RefundPrincipal
  <2> QED
    BY <2>1 DEF TypeOK
<1>4. CASE SettlePayout(k)
  <2>1. escrow[k] - job[k].amount \in Nat
    BY <1>1, <1>4 DEF SettlePayout
  <2>2. Credit(wallet, BuyerOf(k), escrow[k] - job[k].amount) \in [Parties -> Nat]
    BY <1>2, <2>1, CreditType
  <2> QED
    BY <1>1, <1>2, <1>3, <1>4, <2>2, CreditType DEF SettlePayout
<1>5. CASE RefundPrincipal(k, wallet)
  BY <1>1, <1>2, <1>3, <1>5, CreditType DEF RefundPrincipal
<1>6. CASE RefundPrincipal(k, Credit(wallet, BuyerOf(k), job[k].lockedBond))
  <2>1. Credit(wallet, BuyerOf(k), job[k].lockedBond) \in [Parties -> Nat]
    BY <1>1, <1>2, CreditType
  <2> QED
    BY <1>1, <1>2, <1>3, <1>6, <2>1, CreditType DEF RefundPrincipal
<1> QED
  BY <1>4, <1>5, <1>6

\* Unlocking leaves a well-typed bond.
LEMMA UnlockType ==
    ASSUME TypeOK, NEW k \in JobKeys, CanUnlock(k), UnlockJobBond(k)
    PROVE  bond' \in [Providers -> BondRecord]
<1>1. bond[ProviderOf(k)].locked - job[k].lockedBond \in Nat
  BY JobKeyParts, JobFields, BondFields DEF CanUnlock
<1> QED
  BY <1>1, JobKeyParts, LockedUpdate DEF UnlockJobBond, TypeOK

\* Job instructions keep every account well typed.
LEMMA JobType ==
    ASSUME TypeOK, NEW k \in JobKeys
    PROVE  /\ \A x \in Amounts, r \in Requests \cup {ZeroHash}, d \in Schedules :
                 CreateJob(k, x, r, d) => TypeOK'
           /\ FundJob(k) => TypeOK'
           /\ AcceptJob(k) => TypeOK'
           /\ \A r \in Receipts, key \in Keys : SubmitReceipt(k, r, key) => TypeOK'
           /\ AcceptWork(k) => TypeOK'
           /\ ChallengeWork(k) => TypeOK'
           /\ ResolveTimeoutSettle(k) => TypeOK'
           /\ \A f \in BOOLEAN : RefundInternal(k, f) => TypeOK'
           /\ ExpireUnfunded(k) => TypeOK'
           /\ \A s \in Parties : SlashBond(s, k) => TypeOK'
           /\ \A w \in BOOLEAN : CloseJob(k, w) => TypeOK'
<1>1. /\ job \in [JobKeys -> JobRecord]
      /\ \A to \in JobStates : TransitionJob(job[k], to) \in JobRecord
      /\ \A to \in JobStates, x \in Nat :
            [TransitionJob(job[k], to) EXCEPT !.lockedBond = x] \in JobRecord
      /\ \A to \in JobStates, r \in Receipts :
            [TransitionJob(job[k], to) EXCEPT !.receipt = r] \in JobRecord
  BY JobUpdate DEF TypeOK
<1>2. \A j \in JobRecord : [job EXCEPT ![k] = j] \in [JobKeys -> JobRecord]
  BY <1>1
<1>3. BuyerOf(k) \in Parties /\ ProviderOf(k) \in Providers
  BY JobKeyParts
<1>4. ASSUME NEW x \in Amounts, NEW r \in Requests \cup {ZeroHash}, NEW d \in Schedules,
             CreateJob(k, x, r, d)
      PROVE  TypeOK'
  <2>1. [state |-> "Created", amount |-> x, deadline |-> d, request |-> r,
         receipt |-> NoReceipt, lockedBond |-> 0] \in JobRecord
    BY PayloadAssumption DEF JobRecord, JobStates
  <2> QED
    BY <1>2, <1>4, <2>1 DEF CreateJob, TypeOK, ledger
<1>5. ASSUME FundJob(k)
      PROVE  TypeOK'
  <2>1. job' \in [JobKeys -> JobRecord]
    BY <1>1, <1>2, <1>5 DEF FundJob, JobStates
  <2>2. wallet' \in [Parties -> Nat] /\ escrow' \in [JobKeys -> Nat]
    BY <1>3, <1>5, JobFields, BalanceUpdate DEF FundJob, TypeOK
  <2> QED
    BY <1>5, <2>1, <2>2 DEF FundJob, TypeOK
<1>6. ASSUME AcceptJob(k)
      PROVE  TypeOK'
  <2>1. config.minBond \in Nat
    BY DEF TypeOK, ConfigRecord
  <2>2. job' \in [JobKeys -> JobRecord]
    BY <1>1, <1>2, <1>6, <2>1 DEF AcceptJob, JobStates
  <2>3. bond[ProviderOf(k)].locked + config.minBond \in Nat
    BY <1>3, <2>1, BondFields
  <2>4. bond' \in [Providers -> BondRecord]
    BY <1>3, <1>6, <2>3, LockedUpdate DEF AcceptJob, TypeOK
  <2> QED
    BY <1>6, <2>2, <2>4 DEF AcceptJob, TypeOK, ledger
<1>7. ASSUME NEW r \in Receipts, NEW key \in Keys, SubmitReceipt(k, r, key)
      PROVE  TypeOK'
  <2>1. job' \in [JobKeys -> JobRecord]
    BY <1>1, <1>2, <1>7 DEF SubmitReceipt, JobStates
  <2> QED
    BY <1>7, <2>1 DEF SubmitReceipt, TypeOK, ledger
<1>8. ASSUME AcceptWork(k)
      PROVE  TypeOK'
  <2>1. job' \in [JobKeys -> JobRecord]
    BY <1>1, <1>2, <1>8 DEF AcceptWork, JobStates
  <2> QED
    BY <1>8, <2>1, PayoutType, UnlockType DEF AcceptWork, TypeOK
<1>9. ASSUME ChallengeWork(k)
      PROVE  TypeOK'
  <2>1. job' \in [JobKeys -> JobRecord]
    BY <1>1, <1>2, <1>9 DEF ChallengeWork, JobStates
  <2>2. now + config.duration \in Time
    BY <1>9, PayloadAssumption DEF ChallengeWork, TypeOK, Time, ConfigRecord
  <2>3. challenge' \in [JobKeys -> ChallengeRecord]
    BY <1>9, <2>2 DEF ChallengeWork, TypeOK, ChallengeRecord
  <2> QED
    BY <1>9, <2>1, <2>3 DEF ChallengeWork, TypeOK, ledger
<1>10. NoChallenge \in ChallengeRecord
  BY PayloadAssumption DEF NoChallenge, ChallengeRecord, Time
<1>11. ASSUME ResolveTimeoutSettle(k)
       PROVE  TypeOK'
  <2>1. job' \in [JobKeys -> JobRecord]
    BY <1>1, <1>2, <1>11 DEF ResolveTimeoutSettle, JobStates
  <2>2. challenge' \in [JobKeys -> ChallengeRecord]
    BY <1>10, <1>11 DEF ResolveTimeoutSettle, TypeOK
  <2> QED
    BY <1>11, <2>1, <2>2, PayoutType, UnlockType DEF ResolveTimeoutSettle, TypeOK
<1>12. ASSUME NEW f \in BOOLEAN, RefundInternal(k, f)
       PROVE  TypeOK'
  <2>1. job' \in [JobKeys -> JobRecord]
    BY <1>1, <1>2, <1>12 DEF RefundInternal, JobStates
  <2> QED
    BY <1>12, <2>1, PayoutType, UnlockType DEF RefundInternal, TypeOK
<1>13. ASSUME ExpireUnfunded(k)
       PROVE  TypeOK'
  <2>1. job' \in [JobKeys -> JobRecord]
    BY <1>1, <1>2, <1>13 DEF ExpireUnfunded, JobStates
  <2> QED
    BY <1>13, <2>1 DEF ExpireUnfunded, TypeOK, ledger
<1>14. ASSUME NEW s \in Parties, SlashBond(s, k)
       PROVE  TypeOK'
  <2> DEFINE p == ProviderOf(k)
             x == job[k].lockedBond
  <2>1. job' \in [JobKeys -> JobRecord]
    BY <1>1, <1>2, <1>14 DEF SlashBond, JobStates
  <2>2. challenge' \in [JobKeys -> ChallengeRecord]
    BY <1>10, <1>14 DEF SlashBond, TypeOK
  <2>3. x \in Nat /\ bond[p].deposited - x \in Nat /\ bond[p].locked - x \in Nat
    BY <1>3, <1>14, JobFields, BondFields DEF SlashBond
  <2>4. [deposited |-> bond[p].deposited - x, locked |-> bond[p].locked - x] \in BondRecord
    BY <2>3 DEF BondRecord
  <2>5. bond' = [bond EXCEPT ![p] = [deposited |-> bond[p].deposited - x,
                                      locked |-> bond[p].locked - x]]
    BY <1>14 DEF SlashBond
  <2>6. bond' \in [Providers -> BondRecord]
    BY <1>3, <2>4, <2>5 DEF TypeOK
  <2>7. vault' \in [Providers -> Nat]
    BY <1>3, <1>14, <2>3, BalanceUpdate DEF SlashBond, TypeOK
  <2>8. escrow' \in [JobKeys -> Nat] /\ wallet' \in [Parties -> Nat]
    BY <1>14, PayoutType DEF SlashBond
  <2> QED
    BY <1>14, <2>1, <2>2, <2>6, <2>7, <2>8 DEF SlashBond, TypeOK
<1>15. ASSUME NEW w \in BOOLEAN, CloseJob(k, w)
       PROVE  TypeOK'
  <2>1. NoJob \in JobRecord
    BY PayloadAssumption DEF NoJob, JobRecord, ZeroSchedule, Schedule, Time
  <2> QED
    BY <1>2, <1>15, <2>1 DEF CloseJob, TypeOK, ledger
<1> QED
  BY <1>4, <1>5, <1>6, <1>7, <1>8, <1>9, <1>11, <1>12, <1>13, <1>14, <1>15

\* Every step of the program keeps every account well typed.
LEMMA NextType == TypeOK /\ [Next]_vars => TypeOK'
<1>1. ASSUME TypeOK, JobNext
      PROVE  TypeOK'
  BY <1>1, JobType DEF JobNext, ResolveTimeoutRefund, ExpireUnaccepted
<1>2. ASSUME TypeOK, UNCHANGED vars
      PROVE  TypeOK'
  BY <1>2 DEF TypeOK, vars
<1> QED
  BY <1>1, <1>2, ConfigType, ProviderType, EnvironmentType DEF Next

\* TypeOK holds in every reachable state of the program.
THEOREM TypeCorrect == Spec => []TypeOK
BY InitType, NextType, PTL DEF Spec

-----------------------------------------------------------------------------
(* Bond and escrow accounting *)

\* The bonded jobs of a provider are finitely many.
LEMMA BondedFinite ==
    ASSUME NEW p \in Providers
    PROVE  IsFiniteSet(BondedJobs(p)) /\ Cardinality(BondedJobs(p)) \in Nat
<1>1. BondedJobs(p) \subseteq JobKeys
  BY DEF BondedJobs
<1> QED
  BY <1>1, FiniteAssumption, FS_Subset, FS_CardinalityType

\* A job that becomes bonded counts once more for its provider, and for no
\* other provider.
LEMMA BondedEnter ==
    ASSUME TypeOK, NEW k \in JobKeys, NEW j,
           job' = [job EXCEPT ![k] = j],
           job[k].state \notin BondedStates, j.state \in BondedStates,
           NEW p \in Providers
    PROVE  Cardinality(BondedJobs(p))' =
             IF p = ProviderOf(k) THEN Cardinality(BondedJobs(p)) + 1
                                  ELSE Cardinality(BondedJobs(p))
<1>1. job'[k] = j /\ \A l \in JobKeys : l # k => job'[l] = job[l]
  BY DEF TypeOK
<1>2. CASE p = ProviderOf(k)
  <2>1. BondedJobs(p)' = BondedJobs(p) \cup {k}
    BY <1>1, <1>2 DEF BondedJobs
  <2>2. k \notin BondedJobs(p)
    BY DEF BondedJobs
  <2> QED
    BY <1>2, <2>1, <2>2, BondedFinite, FS_AddElement
<1>3. CASE p # ProviderOf(k)
  <2>1. BondedJobs(p)' = BondedJobs(p)
    BY <1>1, <1>3 DEF BondedJobs
  <2> QED
    BY <1>3, <2>1
<1> QED
  BY <1>2, <1>3

\* A job that leaves the bonded states counts once less.
LEMMA BondedLeave ==
    ASSUME TypeOK, NEW k \in JobKeys, NEW j,
           job' = [job EXCEPT ![k] = j],
           job[k].state \in BondedStates, j.state \notin BondedStates,
           NEW p \in Providers
    PROVE  Cardinality(BondedJobs(p)) =
             IF p = ProviderOf(k) THEN Cardinality(BondedJobs(p))' + 1
                                  ELSE Cardinality(BondedJobs(p))'
<1>1. job'[k] = j /\ \A l \in JobKeys : l # k => job'[l] = job[l]
  BY DEF TypeOK
<1>2. CASE p = ProviderOf(k)
  <2>1. BondedJobs(p)' = BondedJobs(p) \ {k}
    BY <1>1, <1>2 DEF BondedJobs
  <2>2. k \in BondedJobs(p)
    BY <1>2 DEF BondedJobs
  <2>3. Cardinality(BondedJobs(p)') = Cardinality(BondedJobs(p)) - 1
    BY <2>1, <2>2, BondedFinite, FS_RemoveElement
  <2> QED
    BY <1>2, <2>3, BondedFinite
<1>3. CASE p # ProviderOf(k)
  <2>1. BondedJobs(p)' = BondedJobs(p)
    BY <1>1, <1>3 DEF BondedJobs
  <2> QED
    BY <1>3, <2>1
<1> QED
  BY <1>2, <1>3

\* A job that stays on its side of the bonded states does not change the count.
LEMMA BondedStay ==
    ASSUME TypeOK, NEW k \in JobKeys, NEW j,
           job' = [job EXCEPT ![k] = j],
           job[k].state \in BondedStates <=> j.state \in BondedStates,
           NEW p \in Providers
    PROVE  Cardinality(BondedJobs(p))' = Cardinality(BondedJobs(p))
<1>1. job'[k] = j /\ \A l \in JobKeys : l # k => job'[l] = job[l]
  BY DEF TypeOK
<1>2. BondedJobs(p)' = BondedJobs(p)
  BY <1>1 DEF BondedJobs
<1> QED
  BY <1>2

\* One bonded job more is one minimum bond more.
LEMMA Distribute ==
    ASSUME NEW m \in Nat, NEW n \in Nat
    PROVE  m * (n + 1) = m * n + m
OBVIOUS

\* Initially nothing is locked, held or challenged.
LEMMA InitAccounting == Init => AccountingInv
<1> SUFFICES ASSUME Init PROVE AccountingInv
  OBVIOUS
<1>1. TypeOK
  BY InitType
<1>2. \A p \in Providers : BondedJobs(p) = {}
  BY DEF Init, BondedJobs, BondedStates, NoJob
<1>3. LockedBondExact
  <2>1. \A p \in Providers : Cardinality(BondedJobs(p)) = 0 /\ bond[p].locked = 0
    BY <1>2, FS_EmptySet DEF Init
  <2>2. config.minBond = 0
    BY DEF Init
  <2> QED
    BY <2>1, <2>2 DEF LockedBondExact
<1>4. BondBacked
  BY DEF Init, BondBacked
<1>5. EscrowBacked /\ ChallengeMatchesJob /\ JobBondExact /\ ConfigFirst
  BY DEF Init, EscrowBacked, ChallengeMatchesJob, JobBondExact, ConfigFirst,
         NoJob, NoChallenge, HeldStates, BondedStates
<1> QED
  BY <1>1, <1>3, <1>4, <1>5 DEF AccountingInv

\* Steps that leave the jobs, the challenges, what is locked and the minimum
\* bond alone preserve the accounting when they take nothing from an escrow.
LEMMA QuietStep ==
    ASSUME AccountingInv, TypeOK',
           UNCHANGED <<job, challenge>>,
           config'.minBond = config.minBond,
           config'.status = "absent" <=> config.status = "absent",
           \A p \in Providers : bond'[p].locked = bond[p].locked,
           BondBacked',
           \A k \in JobKeys : escrow'[k] >= escrow[k]
    PROVE  AccountingInv'
<1>1. \A p \in Providers : BondedJobs(p)' = BondedJobs(p)
  BY DEF BondedJobs
<1>2. LockedBondExact'
  BY <1>1 DEF AccountingInv, LockedBondExact
<1>3. EscrowBacked'
  <2> SUFFICES ASSUME NEW k \in JobKeys, job[k].state \in HeldStates
               PROVE  escrow'[k] >= job[k].amount
    BY DEF EscrowBacked
  <2>1. escrow[k] >= job[k].amount
    BY DEF AccountingInv, EscrowBacked
  <2>2. escrow[k] \in Nat /\ escrow'[k] \in Nat /\ job[k].amount \in Nat
    BY JobFields DEF AccountingInv, TypeOK
  <2> QED
    BY <2>1, <2>2
<1>4. ChallengeMatchesJob' /\ JobBondExact' /\ ConfigFirst'
  BY DEF AccountingInv, ChallengeMatchesJob, JobBondExact, ConfigFirst
<1> QED
  BY <1>2, <1>3, <1>4 DEF AccountingInv

\* A step of one job preserves the accounting when the bonds are right
\* afterwards and the job's own escrow, challenge and bond share are.
LEMMA JobStep ==
    ASSUME AccountingInv, TypeOK', NEW k \in JobKeys, NEW j,
           job' = [job EXCEPT ![k] = j],
           UNCHANGED config, config.status # "absent",
           \A l \in JobKeys \ {k} : challenge'[l] = challenge[l] /\ escrow'[l] = escrow[l],
           j.state \in HeldStates => escrow'[k] >= j.amount,
           challenge'[k].status = "open" <=> j.state = "Challenged",
           j.lockedBond = IF j.state \in BondedStates THEN config.minBond ELSE 0,
           LockedBondExact', BondBacked'
    PROVE  AccountingInv'
<1>1. job'[k] = j /\ \A l \in JobKeys : l # k => job'[l] = job[l]
  BY DEF AccountingInv, TypeOK
<1>2. EscrowBacked'
  BY <1>1 DEF AccountingInv, EscrowBacked
<1>3. ChallengeMatchesJob'
  BY <1>1 DEF AccountingInv, ChallengeMatchesJob
<1>4. JobBondExact'
  BY <1>1 DEF AccountingInv, JobBondExact
<1>5. ConfigFirst'
  BY DEF AccountingInv, ConfigFirst
<1> QED
  BY <1>2, <1>3, <1>4, <1>5 DEF AccountingInv

\* While a job exists so does the configuration.
LEMMA JobNeedsConfig ==
    ASSUME AccountingInv, NEW k \in JobKeys, job[k].state # "None"
    PROVE  config.status # "absent"
BY DEF AccountingInv, ConfigFirst

\* Bonds stay right in a step that touches neither them nor the set of bonded jobs.
LEMMA BondsStay ==
    ASSUME AccountingInv, NEW k \in JobKeys, NEW j,
           job' = [job EXCEPT ![k] = j], UNCHANGED <<config, vault>>,
           \A p \in Providers : bond'[p] = bond[p],
           job[k].state \in BondedStates <=> j.state \in BondedStates
    PROVE  LockedBondExact' /\ BondBacked'
<1>1. \A p \in Providers : Cardinality(BondedJobs(p))' = Cardinality(BondedJobs(p))
  BY BondedStay DEF AccountingInv
<1> QED
  BY <1>1 DEF AccountingInv, LockedBondExact, BondBacked

\* A job that leaves the bonded states frees its share of the bond.
LEMMA LockedLeave ==
    ASSUME AccountingInv, NEW k \in JobKeys, NEW j,
           job' = [job EXCEPT ![k] = j], UNCHANGED config,
           job[k].state \in BondedStates, j.state \notin BondedStates,
           \A p \in Providers :
              bond'[p].locked = IF p = ProviderOf(k) THEN bond[p].locked - config.minBond
                                                     ELSE bond[p].locked
    PROVE  LockedBondExact'
<1> SUFFICES ASSUME NEW p \in Providers
             PROVE  bond'[p].locked = config.minBond * Cardinality(BondedJobs(p))'
  BY DEF LockedBondExact
<1> DEFINE n == Cardinality(BondedJobs(p))
<1>1. bond[p].locked = config.minBond * n
  BY DEF AccountingInv, LockedBondExact
<1>2. config.minBond \in Nat /\ n \in Nat /\ n' \in Nat
  <2>1. config.minBond \in Nat
    BY DEF AccountingInv, TypeOK, ConfigRecord
  <2>2. n \in Nat
    BY BondedFinite
  <2>3. BondedJobs(p)' \subseteq JobKeys
    BY DEF BondedJobs
  <2>4. n' \in Nat
    BY <2>3, FiniteAssumption, FS_Subset, FS_CardinalityType
  <2> QED
    BY <2>1, <2>2, <2>4
<1>3. n = IF p = ProviderOf(k) THEN n' + 1 ELSE n'
  BY BondedLeave DEF AccountingInv
<1>4. CASE p = ProviderOf(k)
  <2>1. config.minBond * n = config.minBond * n' + config.minBond
    BY <1>2, <1>3, <1>4, Distribute
  <2>2. config.minBond * n' \in Nat
    BY <1>2
  <2> QED
    BY <1>1, <1>2, <1>4, <2>1, <2>2
<1>5. CASE p # ProviderOf(k)
  BY <1>1, <1>3, <1>5
<1> QED
  BY <1>4, <1>5

\* Settling and refunding after acceptance leave the bonds right.
LEMMA UnlockAccounting ==
    ASSUME AccountingInv, NEW k \in JobKeys, NEW j,
           job' = [job EXCEPT ![k] = j], UNCHANGED <<config, vault>>,
           j.state \notin BondedStates, CanUnlock(k), UnlockJobBond(k)
    PROVE  LockedBondExact' /\ BondBacked'
<1>1. /\ ProviderOf(k) \in Providers
      /\ bond \in [Providers -> BondRecord]
      /\ \A p \in Providers : bond[p].deposited \in Nat /\ bond[p].locked \in Nat
      /\ job[k].lockedBond \in Nat
  BY JobKeyParts, JobFields, BondFields DEF AccountingInv, TypeOK
<1>2. \A p \in Providers :
         /\ bond'[p].deposited = bond[p].deposited
         /\ bond'[p].locked = IF p = ProviderOf(k) THEN bond[p].locked - job[k].lockedBond
                                                   ELSE bond[p].locked
  BY <1>1 DEF UnlockJobBond, BondRecord
<1>3. BondBacked'
  <2> SUFFICES ASSUME NEW p \in Providers
               PROVE  bond'[p].locked <= bond'[p].deposited /\ bond'[p].deposited <= vault[p]
    BY DEF BondBacked
  <2>1. bond[p].locked <= bond[p].deposited /\ bond[p].deposited <= vault[p]
    BY DEF AccountingInv, BondBacked
  <2> QED
    BY <1>1, <1>2, <2>1
<1>4. CASE job[k].state \in BondedStates
  <2>1. job[k].lockedBond = config.minBond
    BY <1>4 DEF AccountingInv, JobBondExact
  <2>2. LockedBondExact'
    BY <1>2, <1>4, <2>1, LockedLeave
  <2> QED
    BY <1>3, <2>2
<1>5. CASE job[k].state \notin BondedStates
  <2>1. job[k].lockedBond = 0
    BY <1>5 DEF AccountingInv, JobBondExact
  <2>2. \A p \in Providers : bond'[p].locked = bond[p].locked
    BY <1>1, <1>2, <2>1
  <2>3. \A p \in Providers : Cardinality(BondedJobs(p))' = Cardinality(BondedJobs(p))
    BY <1>5, BondedStay DEF AccountingInv
  <2>4. LockedBondExact'
    BY <2>2, <2>3 DEF AccountingInv, LockedBondExact
  <2> QED
    BY <1>3, <2>4
<1> QED
  BY <1>4, <1>5

\* Configuration and provider instructions and the environment preserve the accounting.
LEMMA OtherAccounting ==
    ASSUME AccountingInv, TypeOK', ConfigNext \/ ProviderNext \/ EnvironmentNext
    PROVE  AccountingInv'
<1> USE DEF ledger
<1>0. /\ TypeOK
      /\ BondBacked
      /\ bond \in [Providers -> BondRecord]
      /\ \A p \in Providers : /\ bond[p].deposited \in Nat
                              /\ bond[p].locked \in Nat
                              /\ vault[p] \in Nat
      /\ \A k \in JobKeys : escrow[k] \in Nat
  BY BondFields DEF AccountingInv, TypeOK
<1>1. ASSUME NEW s \in Parties, NEW m \in MinBonds, NEW d \in Durations,
             InitializeConfig(s, m, d)
      PROVE  AccountingInv'
  <2>1. \A k \in JobKeys : job[k].state = "None"
    BY <1>1 DEF InitializeConfig, AccountingInv, ConfigFirst
  <2>2. \A p \in Providers : BondedJobs(p) = {} /\ BondedJobs(p)' = {}
    BY <1>1, <2>1 DEF BondedJobs, BondedStates, InitializeConfig
  <2>3. config.minBond \in Nat /\ m \in Nat
    BY PayloadAssumption DEF AccountingInv, TypeOK, ConfigRecord
  <2>4. \A p \in Providers : bond[p].locked = 0
    BY <2>2, <2>3, FS_EmptySet DEF AccountingInv, LockedBondExact
  <2>5. LockedBondExact'
    <3>1. config'.minBond = m /\ bond' = bond
      BY <1>1 DEF InitializeConfig
    <3>2. \A p \in Providers : Cardinality(BondedJobs(p)') = 0
      BY <2>2, FS_EmptySet
    <3> QED
      BY <2>3, <2>4, <3>1, <3>2 DEF LockedBondExact
  <2>6. BondBacked' /\ EscrowBacked' /\ ChallengeMatchesJob'
    BY <1>1 DEF InitializeConfig, AccountingInv, BondBacked, EscrowBacked, ChallengeMatchesJob
  <2>7. JobBondExact'
    BY <1>1, <2>1 DEF InitializeConfig, AccountingInv, JobBondExact, BondedStates
  <2>8. ConfigFirst'
    BY <1>1 DEF InitializeConfig, ConfigFirst
  <2> QED
    BY <2>5, <2>6, <2>7, <2>8 DEF AccountingInv
<1>2. ASSUME NEW s \in Parties, NEW paused \in BOOLEAN, SetPaused(s, paused)
      PROVE  AccountingInv'
  <2>1. BondBacked' /\ \A k \in JobKeys : escrow'[k] >= escrow[k]
    BY <1>0, <1>2 DEF SetPaused, BondBacked
  <2>2. config'.minBond = config.minBond /\ config.status # "absent" /\ config'.status # "absent"
    BY <1>0, <1>2 DEF SetPaused, IsAdmin, TypeOK, ConfigRecord
  <2> QED
    BY <1>2, <2>1, <2>2, QuietStep DEF SetPaused
<1>3. ASSUME NEW p \in Providers, NEW key \in Keys,
             AddExecutionKey(p, key) \/ RevokeExecutionKey(p, key)
      PROVE  AccountingInv'
  <2>1. UNCHANGED <<now, config, bond, job, challenge, vault, escrow, wallet>>
    BY <1>3 DEF AddExecutionKey, RevokeExecutionKey
  <2>2. BondBacked' /\ \A k \in JobKeys : escrow'[k] >= escrow[k]
    BY <1>0, <2>1 DEF BondBacked
  <2> QED
    BY <2>1, <2>2, QuietStep
<1>4. ASSUME NEW p \in Providers, RegisterProvider(p)
      PROVE  AccountingInv'
  <2>1. BondBacked' /\ \A k \in JobKeys : escrow'[k] >= escrow[k]
    BY <1>0, <1>4 DEF RegisterProvider, BondBacked
  <2> QED
    BY <1>4, <2>1, QuietStep DEF RegisterProvider
<1>5. ASSUME NEW p \in Providers, NEW x \in Amounts, DepositBond(p, x)
      PROVE  AccountingInv'
  <2>1. \A q \in Providers :
           /\ bond'[q].locked = bond[q].locked
           /\ bond'[q].deposited = IF q = p THEN bond[q].deposited + x ELSE bond[q].deposited
           /\ vault'[q] = IF q = p THEN vault[q] + x ELSE vault[q]
    BY <1>0, <1>5 DEF DepositBond, TypeOK, BondRecord
  <2>2. BondBacked'
    BY <1>0, <2>1, PayloadAssumption DEF BondBacked
  <2>3. \A k \in JobKeys : escrow'[k] >= escrow[k]
    BY <1>0, <1>5 DEF DepositBond
  <2> QED
    BY <1>5, <2>1, <2>2, <2>3, QuietStep DEF DepositBond
<1>6. ASSUME NEW p \in Providers, NEW x \in Amounts, WithdrawBond(p, x)
      PROVE  AccountingInv'
  <2>1. \A q \in Providers :
           /\ bond'[q].locked = bond[q].locked
           /\ bond'[q].deposited = IF q = p THEN bond[q].deposited - x ELSE bond[q].deposited
           /\ vault'[q] = IF q = p THEN vault[q] - x ELSE vault[q]
    BY <1>0, <1>6 DEF WithdrawBond, TypeOK, BondRecord
  <2>2. BondBacked'
    <3>1. x \in Nat /\ x <= bond[p].deposited - bond[p].locked
      BY <1>6, PayloadAssumption DEF WithdrawBond, Unlocked
    <3> QED
      BY <1>0, <2>1, <3>1 DEF BondBacked
  <2>3. \A k \in JobKeys : escrow'[k] >= escrow[k]
    BY <1>0, <1>6 DEF WithdrawBond
  <2> QED
    BY <1>6, <2>1, <2>2, <2>3, QuietStep DEF WithdrawBond
<1>7. ASSUME Tick
      PROVE  AccountingInv'
  <2>1. BondBacked' /\ \A k \in JobKeys : escrow'[k] >= escrow[k]
    BY <1>0, <1>7 DEF Tick, BondBacked
  <2> QED
    BY <1>7, <2>1, QuietStep DEF Tick
<1>8. ASSUME NEW a \in Parties, NEW k \in JobKeys, DonateToEscrow(a, k)
      PROVE  AccountingInv'
  <2>1. BondBacked'
    BY <1>0, <1>8 DEF DonateToEscrow, BondBacked
  <2>2. \A l \in JobKeys : escrow'[l] >= escrow[l]
    BY <1>0, <1>8 DEF DonateToEscrow, TypeOK
  <2> QED
    BY <1>8, <2>1, <2>2, QuietStep DEF DonateToEscrow
<1>9. ASSUME NEW a \in Parties, NEW p \in Providers, DonateToVault(a, p)
      PROVE  AccountingInv'
  <2>1. \A q \in Providers : vault'[q] >= vault[q] /\ vault'[q] \in Nat
    BY <1>0, <1>9 DEF DonateToVault, TypeOK
  <2>2. BondBacked'
    BY <1>0, <1>9, <2>1 DEF DonateToVault, BondBacked
  <2>3. \A l \in JobKeys : escrow'[l] >= escrow[l]
    BY <1>0, <1>9 DEF DonateToVault
  <2> QED
    BY <1>9, <2>2, <2>3, QuietStep DEF DonateToVault
<1> QED
  BY <1>1, <1>2, <1>3, <1>4, <1>5, <1>6, <1>7, <1>8, <1>9
  DEF ConfigNext, ProviderNext, EnvironmentNext

\* A job that becomes bonded locks one minimum bond that was free.
LEMMA LockAccounting ==
    ASSUME AccountingInv, NEW k \in JobKeys, AcceptJob(k)
    PROVE  LockedBondExact' /\ BondBacked'
<1> DEFINE j == [TransitionJob(job[k], "Accepted") EXCEPT !.lockedBond = config.minBond]
           m == config.minBond
<1>1. /\ ProviderOf(k) \in Providers
      /\ bond \in [Providers -> BondRecord]
      /\ \A p \in Providers : /\ bond[p].deposited \in Nat
                              /\ bond[p].locked \in Nat
                              /\ vault[p] \in Nat
      /\ m \in Nat
      /\ job[k] \in JobRecord
  BY JobKeyParts, BondFields DEF AccountingInv, TypeOK, ConfigRecord
<1>2. \A p \in Providers :
         /\ bond'[p].deposited = bond[p].deposited
         /\ bond'[p].locked = IF p = ProviderOf(k) THEN bond[p].locked + m ELSE bond[p].locked
  BY <1>1 DEF AcceptJob, BondRecord
<1>3. BondBacked'
  <2> SUFFICES ASSUME NEW p \in Providers
               PROVE  bond'[p].locked <= bond'[p].deposited /\ bond'[p].deposited <= vault'[p]
    BY DEF BondBacked
  <2>1. bond[p].locked <= bond[p].deposited /\ bond[p].deposited <= vault[p]
    BY DEF AccountingInv, BondBacked
  <2>2. p = ProviderOf(k) => bond[p].deposited - bond[p].locked >= m
    BY DEF AcceptJob, Unlocked
  <2>3. vault' = vault
    BY DEF AcceptJob, ledger
  <2> QED
    BY <1>1, <1>2, <2>1, <2>2, <2>3
<1>4. job' = [job EXCEPT ![k] = j] /\ job[k].state \notin BondedStates
  BY DEF AcceptJob, BondedStates
<1>5. j.state \in BondedStates
  BY <1>1 DEF TransitionJob, BondedStates, JobRecord
<1>6. LockedBondExact'
  <2> SUFFICES ASSUME NEW p \in Providers
               PROVE  bond'[p].locked = config'.minBond * Cardinality(BondedJobs(p))'
    BY DEF LockedBondExact
  <2> DEFINE n == Cardinality(BondedJobs(p))
  <2>1. bond[p].locked = m * n /\ config'.minBond = m
    BY DEF AccountingInv, LockedBondExact, AcceptJob
  <2>2. n' = IF p = ProviderOf(k) THEN n + 1 ELSE n
    <3> HIDE DEF j
    <3> QED
      BY <1>4, <1>5, BondedEnter DEF AccountingInv
  <2>3. n \in Nat
    BY BondedFinite
  <2>4. m * (n + 1) = m * n + m
    BY <1>1, <2>3, Distribute
  <2>5. bond'[p].locked = m * n'
    <3> HIDE DEF n
    <3> QED
      BY <1>2, <2>1, <2>2, <2>4
  <2> QED
    BY <2>1, <2>5
<1> QED
  BY <1>3, <1>6

\* Slashing takes the job's share out of the bond and out of the vault.
LEMMA SlashAccounting ==
    ASSUME AccountingInv, NEW k \in JobKeys, NEW s \in Parties, SlashBond(s, k)
    PROVE  LockedBondExact' /\ BondBacked'
<1> DEFINE j == [TransitionJob(job[k], "Slashed") EXCEPT !.lockedBond = 0]
           x == job[k].lockedBond
<1>1. /\ ProviderOf(k) \in Providers
      /\ bond \in [Providers -> BondRecord]
      /\ vault \in [Providers -> Nat]
      /\ \A p \in Providers : /\ bond[p].deposited \in Nat
                              /\ bond[p].locked \in Nat
                              /\ vault[p] \in Nat
      /\ x \in Nat
      /\ job[k] \in JobRecord
  BY JobKeyParts, JobFields, BondFields DEF AccountingInv, TypeOK
<1>2. /\ bond' = [bond EXCEPT ![ProviderOf(k)] =
                    [deposited |-> bond[ProviderOf(k)].deposited - x,
                     locked |-> bond[ProviderOf(k)].locked - x]]
      /\ vault' = [vault EXCEPT ![ProviderOf(k)] = @ - x]
      /\ job' = [job EXCEPT ![k] = j]
      /\ config' = config
      /\ job[k].state = "Challenged"
      /\ bond[ProviderOf(k)].locked >= x
  BY DEF SlashBond
<1>3. \A p \in Providers :
         IF p = ProviderOf(k)
         THEN /\ bond'[p].deposited = bond[p].deposited - x
              /\ bond'[p].locked = bond[p].locked - x
              /\ vault'[p] = vault[p] - x
         ELSE bond'[p] = bond[p] /\ vault'[p] = vault[p]
  BY <1>1, <1>2
<1>4. BondBacked'
  <2> SUFFICES ASSUME NEW p \in Providers
               PROVE  bond'[p].locked <= bond'[p].deposited /\ bond'[p].deposited <= vault'[p]
    BY DEF BondBacked
  <2>1. bond[p].locked <= bond[p].deposited /\ bond[p].deposited <= vault[p]
    BY DEF AccountingInv, BondBacked
  <2> QED
    BY <1>1, <1>3, <2>1
<1>5. x = config.minBond
  BY <1>2 DEF AccountingInv, JobBondExact, BondedStates
<1>6. job[k].state \in BondedStates /\ j.state \notin BondedStates
  BY <1>1, <1>2 DEF TransitionJob, BondedStates, JobRecord
<1>7. \A p \in Providers :
         bond'[p].locked = IF p = ProviderOf(k) THEN bond[p].locked - config.minBond
                                                ELSE bond[p].locked
  BY <1>3, <1>5
<1> HIDE DEF j, x
<1>8. LockedBondExact'
  BY <1>2, <1>6, <1>7, LockedLeave
<1> QED
  BY <1>4, <1>8

\* Job instructions preserve the accounting.
LEMMA JobAccounting ==
    ASSUME AccountingInv, TypeOK', NEW k \in JobKeys
    PROVE  /\ \A x \in Amounts, r \in Requests \cup {ZeroHash}, d \in Schedules :
                 CreateJob(k, x, r, d) => AccountingInv'
           /\ FundJob(k) => AccountingInv'
           /\ AcceptJob(k) => AccountingInv'
           /\ \A r \in Receipts, key \in Keys : SubmitReceipt(k, r, key) => AccountingInv'
           /\ AcceptWork(k) => AccountingInv'
           /\ ChallengeWork(k) => AccountingInv'
           /\ ResolveTimeoutSettle(k) => AccountingInv'
           /\ \A f \in BOOLEAN : RefundInternal(k, f) => AccountingInv'
           /\ ExpireUnfunded(k) => AccountingInv'
           /\ \A s \in Parties : SlashBond(s, k) => AccountingInv'
           /\ \A w \in BOOLEAN : CloseJob(k, w) => AccountingInv'
<1> USE DEF ledger
<1> DEFINE Moved(to) == TransitionJob(job[k], to)
           Freed(to) == [TransitionJob(job[k], to) EXCEPT !.lockedBond = 0]
<1>0. /\ job[k] \in JobRecord
      /\ escrow \in [JobKeys -> Nat]
      /\ challenge \in [JobKeys -> ChallengeRecord]
      /\ job[k].amount \in Nat
  BY JobFields DEF AccountingInv, TypeOK
<1>1. \A to \in JobStates :
         /\ Moved(to).state = to
         /\ Moved(to).amount = job[k].amount
         /\ Moved(to).lockedBond = job[k].lockedBond
         /\ Freed(to).state = to
         /\ Freed(to).lockedBond = 0
  BY <1>0 DEF TransitionJob, JobRecord
<1>2. /\ challenge[k].status = "open" <=> job[k].state = "Challenged"
      /\ job[k].lockedBond = IF job[k].state \in BondedStates THEN config.minBond ELSE 0
      /\ job[k].state \in HeldStates => escrow[k] >= job[k].amount
  BY DEF AccountingInv, ChallengeMatchesJob, JobBondExact, EscrowBacked
<1>3. ASSUME NEW x \in Amounts, NEW r \in Requests \cup {ZeroHash}, NEW d \in Schedules,
             CreateJob(k, x, r, d)
      PROVE  AccountingInv'
  <2> DEFINE j == [state |-> "Created", amount |-> x, deadline |-> d, request |-> r,
                   receipt |-> NoReceipt, lockedBond |-> 0]
  <2>1. /\ job' = [job EXCEPT ![k] = j]
        /\ j.state = "Created" /\ j.lockedBond = 0
        /\ job[k].state = "None"
        /\ config.status # "absent"
        /\ UNCHANGED <<config, bond, challenge, vault, escrow>>
    BY <1>3 DEF CreateJob, NotPaused
  <2> HIDE DEF j
  <2>2. LockedBondExact' /\ BondBacked'
    BY <2>1, BondsStay DEF BondedStates
  <2> QED
    BY <1>2, <2>1, <2>2, JobStep DEF BondedStates, HeldStates
<1>4. ASSUME FundJob(k)
      PROVE  AccountingInv'
  <2> DEFINE j == Moved("Funded")
  <2>1. /\ job' = [job EXCEPT ![k] = j]
        /\ escrow' = [escrow EXCEPT ![k] = job[k].amount]
        /\ job[k].state = "Created"
        /\ UNCHANGED <<config, bond, challenge, vault>>
    BY <1>4 DEF FundJob
  <2>2. j.state = "Funded" /\ j.amount = job[k].amount /\ j.lockedBond = job[k].lockedBond
    BY <1>1 DEF JobStates
  <2> HIDE DEF j
  <2>3. LockedBondExact' /\ BondBacked'
    BY <2>1, <2>2, BondsStay DEF BondedStates
  <2>4. escrow'[k] >= j.amount /\ \A l \in JobKeys \ {k} : escrow'[l] = escrow[l]
    BY <1>0, <2>1, <2>2
  <2> QED
    BY <1>2, <2>1, <2>2, <2>3, <2>4, JobStep, JobNeedsConfig DEF BondedStates
<1>5. ASSUME AcceptJob(k)
      PROVE  AccountingInv'
  <2> DEFINE j == [TransitionJob(job[k], "Accepted") EXCEPT !.lockedBond = config.minBond]
  <2>1. /\ job' = [job EXCEPT ![k] = j]
        /\ job[k].state = "Funded"
        /\ UNCHANGED <<config, challenge, escrow>>
    BY <1>5 DEF AcceptJob
  <2>2. j.state = "Accepted" /\ j.amount = job[k].amount /\ j.lockedBond = config.minBond
    BY <1>0 DEF TransitionJob, JobRecord
  <2> HIDE DEF j
  <2> QED
    BY <1>2, <1>5, <2>1, <2>2, LockAccounting, JobStep, JobNeedsConfig
    DEF BondedStates, HeldStates
<1>6. ASSUME NEW r \in Receipts, NEW key \in Keys, SubmitReceipt(k, r, key)
      PROVE  AccountingInv'
  <2> DEFINE j == [TransitionJob(job[k], "Submitted") EXCEPT !.receipt = r]
  <2>1. /\ job' = [job EXCEPT ![k] = j]
        /\ job[k].state = "Accepted"
        /\ UNCHANGED <<config, bond, challenge, vault, escrow>>
    BY <1>6 DEF SubmitReceipt
  <2>2. j.state = "Submitted" /\ j.amount = job[k].amount /\ j.lockedBond = job[k].lockedBond
    BY <1>0 DEF TransitionJob, JobRecord
  <2> HIDE DEF j
  <2>3. LockedBondExact' /\ BondBacked'
    BY <2>1, <2>2, BondsStay DEF BondedStates
  <2> QED
    BY <1>2, <2>1, <2>2, <2>3, JobStep, JobNeedsConfig DEF BondedStates, HeldStates
<1>7. ASSUME AcceptWork(k) \/ ResolveTimeoutSettle(k)
      PROVE  AccountingInv'
  <2> DEFINE j == Freed("Settled")
  <2>1. /\ job' = [job EXCEPT ![k] = j]
        /\ job[k].state \in {"Submitted", "Challenged"}
        /\ CanUnlock(k) /\ UnlockJobBond(k)
        /\ escrow' = [escrow EXCEPT ![k] = 0]
        /\ UNCHANGED <<config, vault>>
    BY <1>7 DEF AcceptWork, ResolveTimeoutSettle, CanTimeoutSettle, SettlePayout
  <2>2. j.state = "Settled" /\ j.lockedBond = 0
    BY <1>1 DEF JobStates
  <2>3. challenge'[k].status # "open" /\ \A l \in JobKeys \ {k} : challenge'[l] = challenge[l]
    BY <1>0, <1>2, <1>7 DEF AcceptWork, ResolveTimeoutSettle, NoChallenge
  <2> HIDE DEF j
  <2>4. LockedBondExact' /\ BondBacked'
    BY <2>1, <2>2, UnlockAccounting DEF BondedStates
  <2>5. \A l \in JobKeys \ {k} : escrow'[l] = escrow[l]
    BY <1>0, <2>1
  <2> QED
    BY <2>1, <2>2, <2>3, <2>4, <2>5, JobStep, JobNeedsConfig DEF BondedStates, HeldStates
<1>8. ASSUME ChallengeWork(k)
      PROVE  AccountingInv'
  <2> DEFINE j == Moved("Challenged")
  <2>1. /\ job' = [job EXCEPT ![k] = j]
        /\ job[k].state = "Submitted"
        /\ UNCHANGED <<config, bond, vault, escrow>>
    BY <1>8 DEF ChallengeWork
  <2>2. j.state = "Challenged" /\ j.amount = job[k].amount /\ j.lockedBond = job[k].lockedBond
    BY <1>1 DEF JobStates
  <2>3. challenge'[k].status = "open" /\ \A l \in JobKeys \ {k} : challenge'[l] = challenge[l]
    BY <1>0, <1>8 DEF ChallengeWork
  <2> HIDE DEF j
  <2>4. LockedBondExact' /\ BondBacked'
    BY <2>1, <2>2, BondsStay DEF BondedStates
  <2> QED
    BY <1>2, <2>1, <2>2, <2>3, <2>4, JobStep, JobNeedsConfig DEF BondedStates, HeldStates
<1>9. ASSUME NEW f \in BOOLEAN, RefundInternal(k, f)
      PROVE  AccountingInv'
  <2> DEFINE j == Freed("Refunded")
  <2>1. /\ job' = [job EXCEPT ![k] = j]
        /\ job[k].state \in {"Funded", "Accepted"}
        /\ CanUnlock(k) /\ UnlockJobBond(k)
        /\ escrow' = [escrow EXCEPT ![k] = 0]
        /\ UNCHANGED <<config, vault, challenge>>
    BY <1>9 DEF RefundInternal, CanTimeoutRefund, RefundPrincipal
  <2>2. j.state = "Refunded" /\ j.lockedBond = 0
    BY <1>1 DEF JobStates
  <2> HIDE DEF j
  <2>3. LockedBondExact' /\ BondBacked'
    BY <2>1, <2>2, UnlockAccounting DEF BondedStates
  <2>4. \A l \in JobKeys \ {k} : escrow'[l] = escrow[l]
    BY <1>0, <2>1
  <2> QED
    BY <1>2, <2>1, <2>2, <2>3, <2>4, JobStep, JobNeedsConfig DEF BondedStates, HeldStates
<1>10. ASSUME ExpireUnfunded(k)
       PROVE  AccountingInv'
  <2> DEFINE j == Moved("Expired")
  <2>1. /\ job' = [job EXCEPT ![k] = j]
        /\ job[k].state = "Created"
        /\ UNCHANGED <<config, bond, challenge, vault, escrow>>
    BY <1>10 DEF ExpireUnfunded
  <2>2. j.state = "Expired" /\ j.lockedBond = job[k].lockedBond
    BY <1>1 DEF JobStates
  <2> HIDE DEF j
  <2>3. LockedBondExact' /\ BondBacked'
    BY <2>1, <2>2, BondsStay DEF BondedStates
  <2> QED
    BY <1>2, <2>1, <2>2, <2>3, JobStep, JobNeedsConfig DEF BondedStates, HeldStates
<1>11. ASSUME NEW s \in Parties, SlashBond(s, k)
       PROVE  AccountingInv'
  <2> DEFINE j == Freed("Slashed")
  <2>1. /\ job' = [job EXCEPT ![k] = j]
        /\ job[k].state = "Challenged"
        /\ escrow' = [escrow EXCEPT ![k] = 0]
        /\ challenge' = [challenge EXCEPT ![k] = NoChallenge]
        /\ UNCHANGED config
    BY <1>11 DEF SlashBond, RefundPrincipal
  <2>2. j.state = "Slashed" /\ j.lockedBond = 0
    BY <1>1 DEF JobStates
  <2> HIDE DEF j
  <2>3. /\ challenge'[k].status # "open"
        /\ \A l \in JobKeys \ {k} : challenge'[l] = challenge[l] /\ escrow'[l] = escrow[l]
    BY <1>0, <2>1 DEF NoChallenge
  <2> QED
    BY <1>11, <2>1, <2>2, <2>3, SlashAccounting, JobStep, JobNeedsConfig
    DEF BondedStates, HeldStates
<1>12. ASSUME NEW w \in BOOLEAN, CloseJob(k, w)
       PROVE  AccountingInv'
  <2> DEFINE j == NoJob
  <2>1. /\ job' = [job EXCEPT ![k] = j]
        /\ job[k].state \in Terminal
        /\ UNCHANGED <<config, bond, challenge, vault, escrow>>
    BY <1>12 DEF CloseJob
  <2>2. j.state = "None" /\ j.lockedBond = 0
    BY DEF NoJob
  <2> HIDE DEF j
  <2>3. LockedBondExact' /\ BondBacked'
    BY <2>1, <2>2, BondsStay DEF BondedStates, Terminal
  <2> QED
    BY <1>2, <2>1, <2>2, <2>3, JobStep, JobNeedsConfig DEF BondedStates, HeldStates, Terminal
<1> QED
  BY <1>3, <1>4, <1>5, <1>6, <1>7, <1>8, <1>9, <1>10, <1>11, <1>12

\* Every step of the program preserves the accounting.
LEMMA NextAccounting == AccountingInv /\ [Next]_vars => AccountingInv'
<1> SUFFICES ASSUME AccountingInv, [Next]_vars PROVE AccountingInv'
  OBVIOUS
<1>1. TypeOK'
  BY NextType DEF AccountingInv
<1>2. CASE JobNext
  BY <1>1, <1>2, JobAccounting DEF JobNext, ResolveTimeoutRefund, ExpireUnaccepted
<1>3. CASE ConfigNext \/ ProviderNext \/ EnvironmentNext
  BY <1>1, <1>3, OtherAccounting
<1>4. CASE UNCHANGED vars
  BY <1>4 DEF vars, AccountingInv, TypeOK, LockedBondExact, BondedJobs, BondBacked,
              EscrowBacked, ChallengeMatchesJob, JobBondExact, ConfigFirst
<1> QED
  BY <1>2, <1>3, <1>4 DEF Next

\* The accounting invariant holds in every reachable state of the program.
THEOREM AccountingCorrect == Spec => []AccountingInv
BY InitAccounting, NextAccounting, PTL DEF Spec

\* A provider's locked bond is one minimum bond per unresolved accepted job.
THEOREM LockedBondCorrect == Spec => []LockedBondExact
BY AccountingCorrect, PTL DEF AccountingInv

\* Bond accounts are covered by their vaults.
THEOREM BondBackedCorrect == Spec => []BondBacked
BY AccountingCorrect, PTL DEF AccountingInv

\* The escrow of an unresolved job covers its principal.
THEOREM EscrowBackedCorrect == Spec => []EscrowBacked
BY AccountingCorrect, PTL DEF AccountingInv

\* Challenge accounts exist exactly for challenged jobs.
THEOREM ChallengeCorrect == Spec => []ChallengeMatchesJob
BY AccountingCorrect, PTL DEF AccountingInv

\* The share of a bonded job is part of what its provider has locked.
LEMMA ShareCovered ==
    ASSUME AccountingInv, NEW k \in JobKeys, job[k].state \in BondedStates
    PROVE  /\ job[k].lockedBond = config.minBond
           /\ config.minBond <= bond[ProviderOf(k)].locked
<1> DEFINE p == ProviderOf(k)
           n == Cardinality(BondedJobs(p))
<1>1. p \in Providers /\ config.minBond \in Nat
  BY JobKeyParts DEF AccountingInv, TypeOK, ConfigRecord
<1>2. k \in BondedJobs(p)
  BY DEF BondedJobs
<1>3. n \in Nat /\ n # 0
  BY <1>1, <1>2, BondedFinite, FS_EmptySet
<1>4. PICK i \in Nat : n = i + 1
  <2>1. n - 1 \in Nat /\ n = (n - 1) + 1
    BY <1>3
  <2> QED
    BY <2>1
<1>5. bond[p].locked = config.minBond * n
  BY <1>1 DEF AccountingInv, LockedBondExact
<1>6. config.minBond * (i + 1) = config.minBond * i + config.minBond
  BY <1>1, Distribute
<1>7. config.minBond * i \in Nat
  BY <1>1
<1>8. config.minBond <= bond[p].locked
  BY <1>1, <1>4, <1>5, <1>6, <1>7
<1>9. job[k].lockedBond = config.minBond
  BY DEF AccountingInv, JobBondExact
<1> QED
  BY <1>8, <1>9

\* Timeouts and rulings find the tokens and the locked bond they need.
THEOREM ResolutionCorrect == Spec => []ResolutionNeverFails
<1>1. AccountingInv => ResolutionNeverFails
  <2> SUFFICES ASSUME AccountingInv, NEW k \in JobKeys
               PROVE  LET p == ProviderOf(k) IN
                      /\ CanTimeoutSettle(k) \/ CanTimeoutRefund(k, FALSE) =>
                            escrow[k] >= job[k].amount /\ CanUnlock(k)
                      /\ job[k].state = "Challenged" =>
                            /\ job[k].lockedBond # 0
                            /\ job[k].lockedBond <= bond[p].locked
                            /\ job[k].lockedBond <= bond[p].deposited
                            /\ job[k].lockedBond <= vault[p]
    BY DEF ResolutionNeverFails
  <2> DEFINE p == ProviderOf(k)
  <2>1. /\ p \in Providers
        /\ bond[p].locked \in Nat /\ bond[p].deposited \in Nat /\ vault[p] \in Nat
        /\ job[k].lockedBond \in Nat
    BY JobKeyParts, BondFields, JobFields DEF AccountingInv, TypeOK
  <2>2. bond[p].locked <= bond[p].deposited /\ bond[p].deposited <= vault[p]
    BY <2>1 DEF AccountingInv, BondBacked
  <2>3. job[k].state \in HeldStates => escrow[k] >= job[k].amount /\ CanUnlock(k)
    <3>1. CASE job[k].state \in BondedStates
      BY <3>1, ShareCovered DEF AccountingInv, EscrowBacked, HeldStates, BondedStates, CanUnlock
    <3>2. CASE job[k].state = "Funded"
      <4>1. job[k].lockedBond = 0
        BY <3>2 DEF AccountingInv, JobBondExact, BondedStates
      <4>2. escrow[k] >= job[k].amount
        BY <3>2 DEF AccountingInv, EscrowBacked, HeldStates
      <4> QED
        BY <2>1, <4>1, <4>2 DEF CanUnlock
    <3> QED
      BY <3>1, <3>2 DEF HeldStates, BondedStates
  <2>4. CanTimeoutSettle(k) \/ CanTimeoutRefund(k, FALSE) => job[k].state \in HeldStates
    BY DEF CanTimeoutSettle, CanTimeoutRefund, HeldStates
  <2>5. ASSUME job[k].state = "Challenged"
        PROVE  /\ job[k].lockedBond # 0
               /\ job[k].lockedBond <= bond[p].locked
               /\ job[k].lockedBond <= bond[p].deposited
               /\ job[k].lockedBond <= vault[p]
    <3>1. job[k].lockedBond = config.minBond /\ config.minBond <= bond[p].locked
      BY <2>5, ShareCovered DEF BondedStates
    <3>2. config.minBond # 0
      BY <2>5, JobNeedsConfig DEF AccountingInv, ConfigFirst
    <3> QED
      BY <2>1, <2>2, <3>1, <3>2
  <2> QED
    BY <2>3, <2>4, <2>5
<1> QED
  BY <1>1, AccountingCorrect, PTL
==============================================================================
