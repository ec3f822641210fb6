------------------------- MODULE AgentBondStepProofs -------------------------
(* What a step of the AgentBond program may do: the outcome of a job by the  *)
(* clock, receipts, execution keys and who may lower a deposit.              *)
EXTENDS AgentBondProofs

-----------------------------------------------------------------------------
(* Steps that touch one job *)

\* The steps that leave every job account alone.
LEMMA OtherStepsKeepJobs ==
    ASSUME ConfigNext \/ ProviderNext \/ EnvironmentNext \/ UNCHANGED vars
    PROVE  job' = job
BY DEF ConfigNext, ProviderNext, EnvironmentNext, vars, InitializeConfig, SetPaused,
       RegisterProvider, AddExecutionKey, RevokeExecutionKey, DepositBond, WithdrawBond,
       Tick, DonateToEscrow, DonateToVault

\* A step of job k moves that job alone, and to a state its deadline allows.
LEMMA JobStepOutcome ==
    ASSUME TypeOK, NEW k \in JobKeys,
           \/ \E x \in Amounts, r \in Requests \cup {ZeroHash}, d \in Schedules :
                 CreateJob(k, x, r, d)
           \/ FundJob(k)
           \/ AcceptJob(k)
           \/ \E r \in Receipts, key \in Keys : SubmitReceipt(k, r, key)
           \/ AcceptWork(k)
           \/ ChallengeWork(k)
           \/ ResolveTimeoutSettle(k)
           \/ ResolveTimeoutRefund(k)
           \/ ExpireUnaccepted(k)
           \/ ExpireUnfunded(k)
           \/ \E s \in Parties : SlashBond(s, k)
           \/ \E w \in BOOLEAN : CloseJob(k, w)
    PROVE  /\ MayBecome(k, job'[k].state)
           /\ \A l \in JobKeys : l # k => job'[l] = job[l]
<1>0. /\ job \in [JobKeys -> JobRecord]
      /\ job[k] \in JobRecord
      /\ now \in Int
      /\ job[k].deadline.accept \in Int /\ job[k].deadline.work \in Int
      /\ job[k].deadline.fund \in Int /\ job[k].deadline.auto \in Int
      /\ challenge[k].deadline \in Int
  BY PayloadAssumption DEF TypeOK, JobRecord, Schedule, Time, ChallengeRecord
<1>1. \A to \in JobStates :
         /\ TransitionJob(job[k], to).state = to
         /\ \A x : [TransitionJob(job[k], to) EXCEPT !.lockedBond = x].state = to
         /\ \A r : [TransitionJob(job[k], to) EXCEPT !.receipt = r].state = to
  BY <1>0 DEF TransitionJob, JobRecord
<1>2. ASSUME NEW x \in Amounts, NEW r \in Requests \cup {ZeroHash}, NEW d \in Schedules,
             CreateJob(k, x, r, d)
      PROVE  MayBecome(k, job'[k].state) /\ \A l \in JobKeys : l # k => job'[l] = job[l]
  BY <1>0, <1>2 DEF CreateJob, MayBecome
<1>3. ASSUME FundJob(k)
      PROVE  MayBecome(k, job'[k].state) /\ \A l \in JobKeys : l # k => job'[l] = job[l]
  BY <1>0, <1>1, <1>3 DEF FundJob, MayBecome, JobStates
<1>4. ASSUME AcceptJob(k)
      PROVE  MayBecome(k, job'[k].state) /\ \A l \in JobKeys : l # k => job'[l] = job[l]
  BY <1>0, <1>1, <1>4 DEF AcceptJob, MayBecome, JobStates
<1>5. ASSUME NEW r \in Receipts, NEW key \in Keys, SubmitReceipt(k, r, key)
      PROVE  MayBecome(k, job'[k].state) /\ \A l \in JobKeys : l # k => job'[l] = job[l]
  BY <1>0, <1>1, <1>5 DEF SubmitReceipt, MayBecome, JobStates
<1>6. ASSUME AcceptWork(k)
      PROVE  MayBecome(k, job'[k].state) /\ \A l \in JobKeys : l # k => job'[l] = job[l]
  BY <1>0, <1>1, <1>6 DEF AcceptWork, MayBecome, JobStates
<1>7. ASSUME ChallengeWork(k)
      PROVE  MayBecome(k, job'[k].state) /\ \A l \in JobKeys : l # k => job'[l] = job[l]
  BY <1>0, <1>1, <1>7 DEF ChallengeWork, MayBecome, JobStates
<1>8. ASSUME ResolveTimeoutSettle(k)
      PROVE  MayBecome(k, job'[k].state) /\ \A l \in JobKeys : l # k => job'[l] = job[l]
  BY <1>0, <1>1, <1>8 DEF ResolveTimeoutSettle, CanTimeoutSettle, MayBecome, JobStates
<1>9. ASSUME NEW f \in BOOLEAN, RefundInternal(k, f)
      PROVE  MayBecome(k, job'[k].state) /\ \A l \in JobKeys : l # k => job'[l] = job[l]
  BY <1>0, <1>1, <1>9 DEF RefundInternal, CanTimeoutRefund, MayBecome, JobStates
<1>10. ASSUME ExpireUnfunded(k)
       PROVE  MayBecome(k, job'[k].state) /\ \A l \in JobKeys : l # k => job'[l] = job[l]
  BY <1>0, <1>1, <1>10 DEF ExpireUnfunded, MayBecome, JobStates
<1>11. ASSUME NEW s \in Parties, SlashBond(s, k)
       PROVE  MayBecome(k, job'[k].state) /\ \A l \in JobKeys : l # k => job'[l] = job[l]
  BY <1>0, <1>1, <1>11 DEF SlashBond, MayBecome, JobStates
<1>12. ASSUME NEW w \in BOOLEAN, CloseJob(k, w)
       PROVE  MayBecome(k, job'[k].state) /\ \A l \in JobKeys : l # k => job'[l] = job[l]
  BY <1>0, <1>12 DEF CloseJob, MayBecome, NoJob, Terminal
<1> QED
  BY <1>2, <1>3, <1>4, <1>5, <1>6, <1>7, <1>8, <1>9, <1>10, <1>11, <1>12
  DEF ResolveTimeoutRefund, ExpireUnaccepted

\* Whichever instruction comes first, the clock decides which outcomes a job
\* can still have: the party's own move before the deadline, the permissionless
\* timeout from the deadline on.
THEOREM OutcomeCorrect == Spec => OutcomeByDeadline
<1>1. ASSUME TypeOK, [Next]_vars
      PROVE  \A k \in JobKeys :
                job'[k].state # job[k].state => MayBecome(k, job'[k].state)
  <2>1. CASE JobNext
    <3>1. PICK l \in JobKeys :
              /\ MayBecome(l, job'[l].state)
              /\ \A k \in JobKeys : k # l => job'[k] = job[k]
      BY <1>1, <2>1, JobStepOutcome DEF JobNext
    <3> QED
      BY <3>1
  <2>2. CASE ConfigNext \/ ProviderNext \/ EnvironmentNext \/ UNCHANGED vars
    BY <2>2, OtherStepsKeepJobs
  <2> QED
    BY <1>1, <2>1, <2>2 DEF Next
<1> QED
  BY <1>1, TypeCorrect, PTL DEF Spec, OutcomeByDeadline

-----------------------------------------------------------------------------
(* Receipts *)

\* What ReceiptMatchesState says of a job account j at address k.
ReceiptFits(k, j) ==
    IF j.state \in {"Submitted", "Challenged", "Settled", "Slashed"}
    THEN /\ j.receipt # NoReceipt
         /\ j.receipt.job = k
         /\ j.receipt.request = j.request
         /\ j.receipt.window.created <= j.deadline.work
    ELSE j.receipt = NoReceipt

\* A job's step keeps its receipt in line with its state.
LEMMA JobStepReceipt ==
    ASSUME TypeOK, NEW k \in JobKeys, ReceiptFits(k, job[k]),
           \/ \E x \in Amounts, r \in Requests \cup {ZeroHash}, d \in Schedules :
                 CreateJob(k, x, r, d)
           \/ FundJob(k)
           \/ AcceptJob(k)
           \/ \E r \in Receipts, key \in Keys : SubmitReceipt(k, r, key)
           \/ AcceptWork(k)
           \/ ChallengeWork(k)
           \/ ResolveTimeoutSettle(k)
           \/ ResolveTimeoutRefund(k)
           \/ ExpireUnaccepted(k)
           \/ ExpireUnfunded(k)
           \/ \E s \in Parties : SlashBond(s, k)
           \/ \E w \in BOOLEAN : CloseJob(k, w)
    PROVE  ReceiptFits(k, job'[k])
<1>0. job \in [JobKeys -> JobRecord] /\ job[k] \in JobRecord
  BY DEF TypeOK
<1>1. \A to \in JobStates :
         /\ TransitionJob(job[k], to).state = to
         /\ TransitionJob(job[k], to).receipt = job[k].receipt
         /\ TransitionJob(job[k], to).request = job[k].request
         /\ TransitionJob(job[k], to).deadline = job[k].deadline
         /\ \A x : LET j == [TransitionJob(job[k], to) EXCEPT !.lockedBond = x] IN
               /\ j.state = to /\ j.receipt = job[k].receipt
               /\ j.request = job[k].request /\ j.deadline = job[k].deadline
         /\ \A r : LET j == [TransitionJob(job[k], to) EXCEPT !.receipt = r] IN
               /\ j.state = to /\ j.receipt = r
               /\ j.request = job[k].request /\ j.deadline = job[k].deadline
  BY <1>0 DEF TransitionJob, JobRecord
<1>2. ASSUME NEW x \in Amounts, NEW r \in Requests \cup {ZeroHash}, NEW d \in Schedules,
             CreateJob(k, x, r, d)
      PROVE  ReceiptFits(k, job'[k])
  BY <1>0, <1>2 DEF CreateJob, ReceiptFits
<1>3. ASSUME FundJob(k) \/ AcceptJob(k) \/ ExpireUnfunded(k)
      PROVE  ReceiptFits(k, job'[k])
  <2>1. /\ job'[k].state \in {"Funded", "Accepted", "Expired"}
        /\ job'[k].receipt = job[k].receipt
        /\ job[k].state \in {"Created", "Funded"}
    <3>1. CASE FundJob(k)
      BY <1>0, <1>1, <3>1 DEF FundJob, JobStates
    <3>2. CASE AcceptJob(k)
      BY <1>0, <1>1, <3>2 DEF AcceptJob, JobStates
    <3>3. CASE ExpireUnfunded(k)
      BY <1>0, <1>1, <3>3 DEF ExpireUnfunded, JobStates
    <3> QED
      BY <1>3, <3>1, <3>2, <3>3
  <2> QED
    BY <2>1 DEF ReceiptFits
<1>4. ASSUME NEW r \in Receipts, NEW key \in Keys, SubmitReceipt(k, r, key)
      PROVE  ReceiptFits(k, job'[k])
  <2>1. job'[k] = [TransitionJob(job[k], "Submitted") EXCEPT !.receipt = r]
    BY <1>0, <1>4 DEF SubmitReceipt
  <2>2. /\ job'[k].state = "Submitted" /\ job'[k].receipt = r
        /\ job'[k].request = job[k].request /\ job'[k].deadline = job[k].deadline
    BY <1>1, <2>1, SMTT(30) DEF JobStates
  <2>3. r.window \in Window /\ job[k].deadline \in Schedule /\ now \in Time
    BY <1>0, PayloadAssumption DEF Receipts, JobRecord, TypeOK
  <2>4. r.window.created \in Int /\ job[k].deadline.work \in Int /\ now \in Int
    BY <2>3, PayloadAssumption DEF Window, Schedule, Time
  <2>5. r.window.created <= job[k].deadline.work
    BY <1>4, <2>4 DEF SubmitReceipt
  <2>6. r # NoReceipt
    BY ReceiptAssumption
  <2> QED
    BY <1>4, <2>2, <2>5, <2>6 DEF SubmitReceipt, ReceiptFits
<1>5. ASSUME AcceptWork(k) \/ ChallengeWork(k) \/ ResolveTimeoutSettle(k)
      PROVE  ReceiptFits(k, job'[k])
  <2>1. /\ job'[k].state \in {"Settled", "Challenged"}
        /\ job'[k].receipt = job[k].receipt
        /\ job'[k].request = job[k].request
        /\ job'[k].deadline = job[k].deadline
        /\ job[k].state \in {"Submitted", "Challenged"}
    <3>1. CASE AcceptWork(k)
      BY <1>0, <1>1, <3>1 DEF AcceptWork, JobStates
    <3>2. CASE ChallengeWork(k)
      BY <1>0, <1>1, <3>2 DEF ChallengeWork, JobStates
    <3>3. CASE ResolveTimeoutSettle(k)
      BY <1>0, <1>1, <3>3 DEF ResolveTimeoutSettle, CanTimeoutSettle, JobStates
    <3> QED
      BY <1>5, <3>1, <3>2, <3>3
  <2> QED
    BY <2>1 DEF ReceiptFits
<1>6. ASSUME NEW f \in BOOLEAN, RefundInternal(k, f)
      PROVE  ReceiptFits(k, job'[k])
  BY <1>0, <1>1, <1>6 DEF RefundInternal, CanTimeoutRefund, ReceiptFits, JobStates
<1>7. ASSUME NEW s \in Parties, SlashBond(s, k)
      PROVE  ReceiptFits(k, job'[k])
  BY <1>0, <1>1, <1>7 DEF SlashBond, ReceiptFits, JobStates
<1>8. ASSUME NEW w \in BOOLEAN, CloseJob(k, w)
      PROVE  ReceiptFits(k, job'[k])
  BY <1>0, <1>8 DEF CloseJob, ReceiptFits, NoJob
<1> QED
  BY <1>2, <1>3, <1>4, <1>5, <1>6, <1>7, <1>8 DEF ResolveTimeoutRefund, ExpireUnaccepted

\* A job carries a receipt for its own address and request exactly from its
\* submission on, in every reachable state: a provider is paid only for a job
\* with an accepted receipt, and a refunded job never had one.
THEOREM ReceiptCorrect == Spec => []ReceiptMatchesState
<1> DEFINE AllFit == \A k \in JobKeys : ReceiptFits(k, job[k])
<1>1. Init => AllFit
  BY DEF Init, NoJob, ReceiptFits
<1>2. ASSUME TypeOK, AllFit, [Next]_vars
      PROVE  AllFit'
  <2>1. CASE JobNext
    <3>1. PICK l \in JobKeys :
              /\ ReceiptFits(l, job'[l])
              /\ \A k \in JobKeys : k # l => job'[k] = job[k]
      BY <1>2, <2>1, JobStepOutcome, JobStepReceipt DEF JobNext
    <3>2. \A k \in JobKeys : ReceiptFits(k, job'[k])
      BY <1>2, <3>1
    <3> QED
      BY <3>2 DEF ReceiptFits
  <2>2. CASE ConfigNext \/ ProviderNext \/ EnvironmentNext \/ UNCHANGED vars
    BY <1>2, <2>2, OtherStepsKeepJobs DEF ReceiptFits
  <2> QED
    BY <1>2, <2>1, <2>2 DEF Next
<1>3. AllFit => ReceiptMatchesState
  BY DEF ReceiptFits, ReceiptMatchesState
<1> HIDE DEF AllFit
<1> QED
  BY <1>1, <1>2, <1>3, TypeCorrect, PTL DEF Spec

-----------------------------------------------------------------------------
(* Execution keys *)

\* A key list without duplicates that fits its array.
SoundKeys(s) ==
    /\ Len(s) <= MaxKeys
    /\ \A i, j \in 1 .. Len(s) : s[i] = s[j] => i = j

\* Appending a new key to a list with room keeps the list sound.
LEMMA AppendSound ==
    ASSUME NEW s \in Seq(Keys), SoundKeys(s), Len(s) < MaxKeys, NEW key \in Keys,
           \A i \in 1 .. Len(s) : s[i] # key
    PROVE  SoundKeys(Append(s, key))
<1> DEFINE t == Append(s, key)
<1>1. Len(s) \in Nat /\ Len(t) = Len(s) + 1 /\ t[Len(s) + 1] = key
  OBVIOUS
<1>2. \A i \in 1 .. Len(s) : t[i] = s[i]
  OBVIOUS
<1>3. \A i \in 1 .. Len(t) : i \in 1 .. Len(s) \/ i = Len(s) + 1
  BY <1>1
<1> HIDE DEF t
<1>4. \A i, j \in 1 .. Len(t) : t[i] = t[j] => i = j
  BY <1>1, <1>2, <1>3 DEF SoundKeys
<1>5. Len(t) <= MaxKeys
  BY <1>1, KeyAssumption
<1>6. SoundKeys(t)
  BY <1>4, <1>5 DEF SoundKeys
<1> QED
  BY <1>6 DEF t

\* Swap-removing position i of a sound list keeps the others, once each.
LEMMA SwapRemoveSound ==
    ASSUME NEW s \in Seq(Keys), SoundKeys(s), NEW i \in 1 .. Len(s)
    PROVE  /\ SoundKeys(SwapRemove(s, i))
           /\ Len(SwapRemove(s, i)) = Len(s) - 1
           /\ {SwapRemove(s, i)[j] : j \in 1 .. Len(SwapRemove(s, i))} =
                {s[j] : j \in 1 .. Len(s)} \ {s[i]}
<1> DEFINE t == SwapRemove(s, i)
           n == Len(s)
<1>1. n \in Nat /\ n >= 1
  OBVIOUS
<1>2. t \in Seq(Keys) /\ Len(t) = n - 1
  <2>1. t \in Seq(Keys)
    BY SwapRemoveType
  <2>2. DOMAIN t = 1 .. n - 1
    BY DEF SwapRemove
  <2> QED
    BY <1>1, <2>1, <2>2
<1>3. \A j \in 1 .. n - 1 : t[j] = IF j = i THEN s[n] ELSE s[j]
  BY DEF SwapRemove
<1>4. \A j, l \in 1 .. n : s[j] = s[l] => j = l
  BY DEF SoundKeys
<1> HIDE DEF t
<1>5. SoundKeys(t)
  <2>1. \A j, l \in 1 .. n - 1 : t[j] = t[l] => j = l
    BY <1>1, <1>3, <1>4
  <2>2. n - 1 <= MaxKeys
    BY <1>1, KeyAssumption DEF SoundKeys
  <2> QED
    BY <1>2, <2>1, <2>2 DEF SoundKeys
<1>6. ASSUME NEW j \in 1 .. n - 1
      PROVE  \E l \in 1 .. n : l # i /\ t[j] = s[l]
  <2>1. CASE j = i
    BY <1>1, <1>3, <2>1
  <2>2. CASE j # i
    BY <1>1, <1>3, <2>2
  <2> QED
    BY <2>1, <2>2
<1>7. ASSUME NEW l \in 1 .. n, l # i
      PROVE  \E j \in 1 .. n - 1 : t[j] = s[l]
  <2>1. CASE l = n
    <3>1. i \in 1 .. n - 1
      BY <1>1, <1>7, <2>1
    <3> QED
      BY <1>3, <2>1, <3>1
  <2>2. CASE l # n
    BY <1>1, <1>3, <1>7, <2>2
  <2> QED
    BY <2>1, <2>2
<1>8. {t[j] : j \in 1 .. Len(t)} = {s[j] : j \in 1 .. n} \ {s[i]}
  <2>1. ASSUME NEW j \in 1 .. n - 1
        PROVE  t[j] \in {s[l] : l \in 1 .. n} \ {s[i]}
    BY <1>4, <1>6
  <2>2. ASSUME NEW l \in 1 .. n, s[l] # s[i]
        PROVE  s[l] \in {t[j] : j \in 1 .. n - 1}
    BY <1>7, <2>2
  <2>3. {t[j] : j \in 1 .. n - 1} = {s[j] : j \in 1 .. n} \ {s[i]}
    BY <2>1, <2>2
  <2> QED
    BY <1>2, <2>3
<1> QED
  BY <1>2, <1>5, <1>8 DEF t

\* One provider's account is all that a key or registration step changes.
LEMMA OtherStepsKeepKeys ==
    ASSUME \/ ConfigNext
           \/ \E p \in Providers, x \in Amounts : DepositBond(p, x) \/ WithdrawBond(p, x)
           \/ JobNext
           \/ EnvironmentNext
           \/ UNCHANGED vars
    PROVE  provider' = provider
<1>1. CASE ConfigNext
  BY <1>1 DEF ConfigNext, InitializeConfig, SetPaused
<1>2. ASSUME NEW p \in Providers, NEW x \in Amounts, DepositBond(p, x) \/ WithdrawBond(p, x)
      PROVE  provider' = provider
  BY <1>2 DEF DepositBond, WithdrawBond
<1>3. CASE JobNext
  <2>1. PICK k \in JobKeys :
          \/ \E amount \in Amounts, request \in Requests \cup {ZeroHash}, d \in Schedules :
                CreateJob(k, amount, request, d)
          \/ FundJob(k) \/ AcceptJob(k)
          \/ \E receipt \in Receipts, signer \in Keys : SubmitReceipt(k, receipt, signer)
          \/ AcceptWork(k) \/ ChallengeWork(k)
          \/ ResolveTimeoutSettle(k) \/ ResolveTimeoutRefund(k)
          \/ ExpireUnaccepted(k) \/ ExpireUnfunded(k)
          \/ \E s \in Parties : SlashBond(s, k)
          \/ \E withEscrow \in BOOLEAN : CloseJob(k, withEscrow)
    BY <1>3 DEF JobNext
  <2>2. ASSUME NEW amount \in Amounts, NEW request \in Requests \cup {ZeroHash},
               NEW d \in Schedules, CreateJob(k, amount, request, d)
        PROVE  provider' = provider
    BY <2>2 DEF CreateJob
  <2>3. CASE FundJob(k) \/ AcceptJob(k) \/ AcceptWork(k) \/ ChallengeWork(k)
    BY <2>3 DEF FundJob, AcceptJob, AcceptWork, ChallengeWork
  <2>4. ASSUME NEW receipt \in Receipts, NEW signer \in Keys, SubmitReceipt(k, receipt, signer)
        PROVE  provider' = provider
    BY <2>4 DEF SubmitReceipt
  <2>5. CASE ResolveTimeoutSettle(k) \/ ExpireUnfunded(k)
    BY <2>5 DEF ResolveTimeoutSettle, ExpireUnfunded
  <2>6. CASE ResolveTimeoutRefund(k) \/ ExpireUnaccepted(k)
    BY <2>6 DEF ResolveTimeoutRefund, ExpireUnaccepted, RefundInternal
  <2>7. ASSUME NEW s \in Parties, SlashBond(s, k) PROVE provider' = provider
    BY <2>7 DEF SlashBond
  <2>8. ASSUME NEW withEscrow \in BOOLEAN, CloseJob(k, withEscrow) PROVE provider' = provider
    BY <2>8 DEF CloseJob
  <2> QED
    BY <2>1, <2>2, <2>3, <2>4, <2>5, <2>6, <2>7, <2>8
<1>4. CASE EnvironmentNext
  BY <1>4 DEF EnvironmentNext, Tick, DonateToEscrow, DonateToVault
<1>5. CASE UNCHANGED vars
  BY <1>5 DEF vars
<1> QED
  BY <1>1, <1>2, <1>3, <1>4, <1>5

\* No sequence of additions and revocations puts a key twice on the list or
\* overflows its array.
THEOREM KeysCorrect == Spec => []KeyListSound
<1> DEFINE AllSound == \A p \in Providers : SoundKeys(provider[p].keys)
<1>1. Init => AllSound
  <2> SUFFICES ASSUME Init, NEW p \in Providers
               PROVE  SoundKeys(provider[p].keys)
    OBVIOUS
  <2>1. provider[p].keys = <<>>
    BY DEF Init
  <2> QED
    BY <2>1, KeyAssumption DEF SoundKeys
<1>2. ASSUME TypeOK, AllSound, [Next]_vars
      PROVE  AllSound'
  <2>0. provider \in [Providers -> ProviderRecord]
    BY <1>2 DEF TypeOK
  <2>1. ASSUME NEW p \in Providers, RegisterProvider(p)
        PROVE  AllSound'
    <3>1. \A q \in Providers : provider'[q].keys = IF q = p THEN <<>> ELSE provider[q].keys
      BY <2>0, <2>1 DEF RegisterProvider
    <3>2. SoundKeys(<<>>)
      BY KeyAssumption DEF SoundKeys
    <3>3. \A q \in Providers : SoundKeys(provider'[q].keys)
      BY <1>2, <3>1, <3>2
    <3> QED
      BY <3>3 DEF SoundKeys
  <2>2. ASSUME NEW p \in Providers, NEW key \in Keys, AddExecutionKey(p, key)
        PROVE  AllSound'
    <3>1. provider[p].keys \in Seq(Keys)
      BY <2>0 DEF ProviderRecord
    <3>2. SoundKeys(Append(provider[p].keys, key))
      BY <1>2, <2>2, <3>1, AppendSound DEF AddExecutionKey, ExecutionKeys
    <3>3. \A q \in Providers : provider'[q].keys = IF q = p THEN Append(provider[p].keys, key)
                                                         ELSE provider[q].keys
      BY <2>0, <2>2 DEF AddExecutionKey, ProviderRecord
    <3>4. \A q \in Providers : SoundKeys(provider'[q].keys)
      BY <1>2, <3>2, <3>3
    <3> QED
      BY <3>4 DEF SoundKeys
  <2>3. ASSUME NEW p \in Providers, NEW key \in Keys, RevokeExecutionKey(p, key)
        PROVE  AllSound'
    <3>1. provider[p].keys \in Seq(Keys)
      BY <2>0 DEF ProviderRecord
    <3>2. PICK i \in 1 .. Len(provider[p].keys) :
              provider' = [provider EXCEPT ![p].keys = SwapRemove(@, i)]
      BY <2>3 DEF RevokeExecutionKey
    <3>3. SoundKeys(SwapRemove(provider[p].keys, i))
      BY <1>2, <3>1, SwapRemoveSound
    <3>4. \A q \in Providers :
             provider'[q].keys = IF q = p THEN SwapRemove(provider[p].keys, i)
                                          ELSE provider[q].keys
      BY <2>0, <3>2 DEF ProviderRecord
    <3>5. \A q \in Providers : SoundKeys(provider'[q].keys)
      BY <1>2, <3>3, <3>4
    <3> QED
      BY <3>5 DEF SoundKeys
  <2>4. ASSUME provider' = provider
        PROVE  AllSound'
    BY <1>2, <2>4 DEF SoundKeys
  <2> HIDE DEF AllSound
  <2> QED
    BY <1>2, <2>1, <2>2, <2>3, <2>4, OtherStepsKeepKeys DEF Next, ProviderNext
<1>3. AllSound => KeyListSound
  BY DEF SoundKeys, KeyListSound
<1> HIDE DEF AllSound
<1> QED
  BY <1>1, <1>2, <1>3, TypeCorrect, PTL DEF Spec

\* A revocation removes the key from the set of keys that can submit, and
\* removes no other.
THEOREM RevocationCorrect == Spec => RevocationTakesEffect
<1>1. ASSUME TypeOK, KeyListSound, [Next]_vars
      PROVE  \A p \in Providers, key \in Keys :
                RevokeExecutionKey(p, key) =>
                   ExecutionKeys(p)' = ExecutionKeys(p) \ {key}
  <2> SUFFICES ASSUME NEW p \in Providers, NEW key \in Keys, RevokeExecutionKey(p, key)
               PROVE  ExecutionKeys(p)' = ExecutionKeys(p) \ {key}
    OBVIOUS
  <2>1. provider \in [Providers -> ProviderRecord] /\ provider[p].keys \in Seq(Keys)
    BY <1>1 DEF TypeOK, ProviderRecord
  <2>2. PICK i \in 1 .. Len(provider[p].keys) :
            /\ provider[p].keys[i] = key
            /\ provider' = [provider EXCEPT ![p].keys = SwapRemove(@, i)]
    BY DEF RevokeExecutionKey
  <2>3. provider'[p].keys = SwapRemove(provider[p].keys, i)
    BY <2>1, <2>2 DEF ProviderRecord
  <2>4. SoundKeys(provider[p].keys)
    BY <1>1 DEF KeyListSound, SoundKeys
  <2>5. {SwapRemove(provider[p].keys, i)[j] : j \in 1 .. Len(SwapRemove(provider[p].keys, i))} =
           {provider[p].keys[j] : j \in 1 .. Len(provider[p].keys)} \ {provider[p].keys[i]}
    BY <2>1, <2>4, SwapRemoveSound
  <2>6. ExecutionKeys(p)' = {provider'[p].keys[j] : j \in 1 .. Len(provider'[p].keys)}
    BY DEF ExecutionKeys
  <2> QED
    BY <2>2, <2>3, <2>5, <2>6 DEF ExecutionKeys
<1> QED
  BY <1>1, TypeCorrect, KeysCorrect, PTL DEF Spec, RevocationTakesEffect

-----------------------------------------------------------------------------
(* What a slash may take *)

\* What SlashBounded says of a step, for one provider.
DepositStep(p) ==
    bond'[p].deposited < bond[p].deposited =>
        \/ bond'[p].locked = bond[p].locked
        \/ \E k \in JobKeys :
              /\ ProviderOf(k) = p
              /\ challenge[k].status = "open"
              /\ job'[k].state = "Slashed"
              /\ bond[p].deposited - bond'[p].deposited = config.minBond
              /\ bond[p].locked - bond'[p].locked = config.minBond

\* An instruction of a job takes from a deposit only if it slashes that job's
\* own share.
LEMMA JobStepDeposit ==
    ASSUME AccountingInv, NEW k \in JobKeys, NEW p \in Providers,
           \/ \E x \in Amounts, r \in Requests \cup {ZeroHash}, d \in Schedules :
                 CreateJob(k, x, r, d)
           \/ FundJob(k)
           \/ AcceptJob(k)
           \/ \E r \in Receipts, key \in Keys : SubmitReceipt(k, r, key)
           \/ AcceptWork(k)
           \/ ChallengeWork(k)
           \/ ResolveTimeoutSettle(k)
           \/ ResolveTimeoutRefund(k)
           \/ ExpireUnaccepted(k)
           \/ ExpireUnfunded(k)
           \/ \E s \in Parties : SlashBond(s, k)
           \/ \E w \in BOOLEAN : CloseJob(k, w)
    PROVE  DepositStep(p)
<1>1. /\ bond \in [Providers -> BondRecord] /\ bond[p] \in BondRecord
      /\ bond[p].deposited \in Nat /\ bond[p].locked \in Nat
      /\ job \in [JobKeys -> JobRecord] /\ job[k] \in JobRecord
  BY BondFields DEF AccountingInv, TypeOK
<1>2. CASE \E x : bond' = [bond EXCEPT ![ProviderOf(k)].locked = x]
  <2>1. bond'[p].deposited = bond[p].deposited
    BY <1>1, <1>2 DEF BondRecord
  <2> QED
    BY <1>1, <2>1 DEF DepositStep
<1>3. CASE bond' = bond
  BY <1>1, <1>3 DEF DepositStep
<1>4. ASSUME NEW s \in Parties, SlashBond(s, k)
      PROVE  DepositStep(p)
  <2> DEFINE x == job[k].lockedBond
  <2>1. /\ bond' = [bond EXCEPT ![ProviderOf(k)] =
                      [deposited |-> bond[ProviderOf(k)].deposited - x,
                       locked |-> bond[ProviderOf(k)].locked - x]]
        /\ job' = [job EXCEPT ![k] = [TransitionJob(@, "Slashed") EXCEPT !.lockedBond = 0]]
        /\ job[k].state = "Challenged"
        /\ challenge[k].status = "open"
    BY <1>4 DEF SlashBond
  <2>2. x = config.minBond /\ x \in Nat
    BY <2>1, JobFields DEF AccountingInv, JobBondExact, BondedStates
  <2>3. job'[k].state = "Slashed"
    BY <1>1, <2>1 DEF TransitionJob, JobRecord
  <2> HIDE DEF x
  <2>4. CASE p = ProviderOf(k)
    <3>1. /\ bond'[p].deposited = bond[p].deposited - config.minBond
          /\ bond'[p].locked = bond[p].locked - config.minBond
      BY <1>1, <2>1, <2>2, <2>4
    <3> QED
      BY <1>1, <2>1, <2>2, <2>3, <2>4, <3>1 DEF DepositStep
  <2>5. CASE p # ProviderOf(k)
    <3>1. bond'[p] = bond[p]
      BY <1>1, <2>1, <2>5
    <3> QED
      BY <1>1, <3>1 DEF DepositStep
  <2> QED
    BY <2>4, <2>5
<1>5. \/ bond' = bond
      \/ \E x : bond' = [bond EXCEPT ![ProviderOf(k)].locked = x]
      \/ \E s \in Parties : SlashBond(s, k)
  <2>1. UnlockJobBond(k) => \E x : bond' = [bond EXCEPT ![ProviderOf(k)].locked = x]
    BY DEF UnlockJobBond
  <2>2. AcceptJob(k) => \E x : bond' = [bond EXCEPT ![ProviderOf(k)].locked = x]
    BY DEF AcceptJob
  <2> QED
    BY <2>1, <2>2, Zenon DEF CreateJob, FundJob, SubmitReceipt, AcceptWork, ChallengeWork,
       ResolveTimeoutSettle, ResolveTimeoutRefund, ExpireUnaccepted, RefundInternal,
       ExpireUnfunded, CloseJob
<1> QED
  BY <1>2, <1>3, <1>4, <1>5

\* A deposit and a withdrawal leave what is locked alone.
LEMMA OtherStepDeposit ==
    ASSUME TypeOK, NEW p \in Providers,
           ConfigNext \/ ProviderNext \/ EnvironmentNext \/ UNCHANGED vars
    PROVE  DepositStep(p)
<1>1. bond \in [Providers -> BondRecord]
  BY DEF TypeOK
<1>2. \/ bond' = bond
      \/ \E q \in Providers : \E x : bond' = [bond EXCEPT ![q].deposited = x]
  <2>1. ASSUME NEW q \in Providers, NEW amount \in Amounts,
               DepositBond(q, amount) \/ WithdrawBond(q, amount)
        PROVE  \E x : bond' = [bond EXCEPT ![q].deposited = x]
    BY <2>1 DEF DepositBond, WithdrawBond
  <2> QED
    BY <2>1, Zenon DEF ConfigNext, ProviderNext, EnvironmentNext, vars, InitializeConfig, SetPaused,
       RegisterProvider, AddExecutionKey, RevokeExecutionKey, Tick, DonateToEscrow, DonateToVault
<1>3. bond'[p].locked = bond[p].locked
  BY <1>1, <1>2 DEF BondRecord
<1> QED
  BY <1>3 DEF DepositStep

\* A provider's deposit shrinks by its own withdrawal, or by one minimum bond
\* that the job under an open challenge had locked.
THEOREM SlashCorrect == Spec => SlashBounded
<1>1. ASSUME AccountingInv, [Next]_vars
      PROVE  \A p \in Providers : DepositStep(p)
  <2> SUFFICES ASSUME NEW p \in Providers
               PROVE  DepositStep(p)
    OBVIOUS
  <2>1. CASE JobNext
    BY <1>1, <2>1, JobStepDeposit DEF JobNext
  <2>2. CASE ConfigNext \/ ProviderNext \/ EnvironmentNext \/ UNCHANGED vars
    BY <1>1, <2>2, OtherStepDeposit DEF AccountingInv
  <2> QED
    BY <1>1, <2>1, <2>2 DEF Next
<1>2. (\A p \in Providers : DepositStep(p)) => [\A p \in Providers : DepositStep(p)]_vars
  OBVIOUS
<1>3. Spec => [][\A p \in Providers : DepositStep(p)]_vars
  BY <1>1, <1>2, AccountingCorrect, PTL DEF Spec
<1> QED
  BY <1>3 DEF SlashBounded, DepositStep
==============================================================================
