------------------------------ MODULE AgentBond ------------------------------
(***************************************************************************)
(* The on-chain AgentBond program: a job escrow in which a provider backs  *)
(* every accepted job with part of its bond.  One action per instruction   *)
(* of programs/agentbond/src/processor.  A Solana transaction is atomic,   *)
(* so a handler is one step: its early returns are the conjuncts of the    *)
(* guard, and a handler that returns an error changes nothing.             *)
(*                                                                         *)
(* Accounts at program-derived addresses are functions from their seeds:   *)
(* a job lives at <<buyer, provider, nonce>>, a bond and its vault at the  *)
(* provider, a challenge and an escrow at their job.  Every job uses the   *)
(* one configured mint, so a token account is a balance.                   *)
(***************************************************************************)
EXTENDS Integers, Sequences, FiniteSets

CONSTANTS
    Parties,         \* wallets that can sign
    Buyers,          \* the parties that create jobs
    Providers,       \* the parties that register as providers
    Nobody,          \* no party: the admin before initialisation
    Nonces,          \* job_nonce values
    Keys,            \* Ed25519 execution keys
    MaxKeys,         \* MAX_EXECUTION_KEYS
    Requests,        \* request_hash values a payload may carry
    ZeroHash,        \* the all-zero hash, refused by CreateJob
    NoReceipt,       \* the all-zero digest of a job without a receipt
    Amounts,         \* token amounts a payload may carry
    MinBonds,        \* min_provider_bond values a payload may carry
    Durations,       \* challenge_duration_seconds a payload may carry
    Schedules,       \* the four deadlines a CreateJob payload may carry
    Windows,         \* created_at / expires_at a receipt may carry
    MaxTime,         \* the largest timestamp (i64::MAX)
    InitialWallet    \* tokens each party starts with

Time == 0 .. MaxTime

Schedule == [fund: Time, accept: Time, work: Time, auto: Time]
Window   == [created: Time, expires: Time]

ASSUME PartyAssumption ==
    /\ Buyers \subseteq Parties
    /\ Providers \subseteq Parties
    /\ Nobody \notin Parties
ASSUME KeyAssumption == MaxKeys \in Nat
ASSUME PayloadAssumption ==
    /\ MaxTime \in Nat
    /\ Amounts \subseteq Nat
    /\ MinBonds \subseteq Nat
    /\ Durations \subseteq Nat
    /\ Schedules \subseteq Schedule
    /\ Windows \subseteq Window
ASSUME WalletAssumption == InitialWallet \in [Parties -> Nat]

VARIABLES
    now,        \* the cluster clock
    config,     \* the ConfigAccount singleton
    provider,   \* ProviderAccount of each provider
    bond,       \* ProviderBondAccount of each provider
    vault,      \* balance of each bond's token account
    job,        \* JobAccount at each job address
    challenge,  \* ChallengeAccount of each job
    escrow,     \* balance of each job's token account
    wallet      \* balance of each party's own token account

ledger == <<vault, escrow, wallet>>
vars == <<now, config, provider, bond, vault, job, challenge, escrow, wallet>>

-----------------------------------------------------------------------------
(* Account types *)

JobKeys == Buyers \X Providers \X Nonces

\* Jobs live at 32-byte addresses: there are finitely many.
ASSUME FiniteAssumption == IsFiniteSet(JobKeys)

BuyerOf(k)    == k[1]
ProviderOf(k) == k[2]

JobStates == {"Created", "Funded", "Accepted", "Submitted", "Settled",
              "Refunded", "Expired", "Challenged", "Slashed"}

\* "None" is the state of an address whose job account is uninitialised.
Terminal == {"Settled", "Refunded", "Expired", "Slashed"}

\* The states in which the principal sits in the escrow, and those in which
\* part of the provider's bond backs the job.
HeldStates   == {"Funded", "Accepted", "Submitted", "Challenged"}
BondedStates == {"Accepted", "Submitted", "Challenged"}

\* The table of validate_transition.
Transitions ==
    {<<"Created", "Funded">>,      <<"Created", "Expired">>,
     <<"Funded", "Accepted">>,     <<"Funded", "Refunded">>,
     <<"Accepted", "Submitted">>,  <<"Accepted", "Refunded">>,
     <<"Submitted", "Settled">>,   <<"Submitted", "Challenged">>,
     <<"Challenged", "Settled">>,  <<"Challenged", "Refunded">>,
     <<"Challenged", "Slashed">>}

\* A work receipt: the fields the program binds it by.  SHA-256 is taken to
\* be injective, so a receipt stands for its own digest.
Receipts == [job: JobKeys, request: Requests, window: Windows]

ASSUME ReceiptAssumption == NoReceipt \notin Receipts

\* Job, provider and challenge records are zeroed when the account is absent.
JobRecord == [state: JobStates \cup {"None"}, amount: Nat, deadline: Schedule,
              request: Requests \cup {ZeroHash}, receipt: Receipts \cup {NoReceipt},
              lockedBond: Nat]

ZeroSchedule == [fund |-> 0, accept |-> 0, work |-> 0, auto |-> 0]
NoJob == [state |-> "None", amount |-> 0, deadline |-> ZeroSchedule,
          request |-> ZeroHash, receipt |-> NoReceipt, lockedBond |-> 0]

ConfigRecord == [status: {"absent", "live", "paused"}, admin: Parties \cup {Nobody},
                 minBond: Nat, duration: Nat]
ProviderRecord == [status: {"absent", "active"}, keys: Seq(Keys)]
BondRecord == [deposited: Nat, locked: Nat]
ChallengeRecord == [status: {"absent", "open"}, deadline: Time]

NoChallenge == [status |-> "absent", deadline |-> 0]

Unlocked(p) == bond[p].deposited - bond[p].locked

ExecutionKeys(p) == {provider[p].keys[i] : i \in 1 .. Len(provider[p].keys)}

-----------------------------------------------------------------------------
(* Initially nothing exists but the parties' own tokens *)

Init ==
    /\ now = 0
    /\ config = [status |-> "absent", admin |-> Nobody, minBond |-> 0, duration |-> 0]
    /\ provider = [p \in Providers |-> [status |-> "absent", keys |-> <<>>]]
    /\ bond = [p \in Providers |-> [deposited |-> 0, locked |-> 0]]
    /\ vault = [p \in Providers |-> 0]
    /\ job = [k \in JobKeys |-> NoJob]
    /\ challenge = [k \in JobKeys |-> NoChallenge]
    /\ escrow = [k \in JobKeys |-> 0]
    /\ wallet = InitialWallet

-----------------------------------------------------------------------------
(* Helpers shared by the handlers *)

NotPaused == config.status = "live"

IsAdmin(s) == config.status # "absent" /\ s = config.admin

ActiveProvider(p) == provider[p].status = "active"

Credit(w, a, amount) == [w EXCEPT ![a] = @ + amount]

\* transition_job on the record j, refused by the table when it is not listed.
TransitionJob(j, to) == [j EXCEPT !.state = to]
ValidTransition(j, to) == <<j.state, to>> \in Transitions

\* The bond covers the share that unlock_job_bond is about to free.
CanUnlock(k) == job[k].lockedBond <= bond[ProviderOf(k)].locked
\* Mutant: the job forgets its share but the bond account is not saved.
UnlockJobBond_NotSaved(k) == UNCHANGED bond

\* Mutant: unlocking also takes the share out of the deposit.
UnlockJobBond_Slashes(k) ==
    bond' = [bond EXCEPT ![ProviderOf(k)] =
               [deposited |-> @.deposited - job[k].lockedBond,
                locked |-> @.locked - job[k].lockedBond]]

\* unlock_job_bond: the job's share of the bond becomes free again.
UnlockJobBond(k) ==
    bond' = [bond EXCEPT ![ProviderOf(k)].locked = @ - job[k].lockedBond]

\* Mutant: the provider receives the whole balance of the escrow.
SettlePayout_WholeBalance(k) ==
    /\ escrow[k] >= job[k].amount
    /\ escrow' = [escrow EXCEPT ![k] = 0]
    /\ wallet' = Credit(wallet, ProviderOf(k), escrow[k])

\* A settled job pays its amount to the provider; what others may have sent
\* to the escrow on top of it goes to the buyer.
SettlePayout(k) ==
    /\ escrow[k] >= job[k].amount
    /\ escrow' = [escrow EXCEPT ![k] = 0]
    /\ wallet' = Credit(Credit(wallet, BuyerOf(k), escrow[k] - job[k].amount),
                        ProviderOf(k), job[k].amount)

-----------------------------------------------------------------------------
(* Configuration and providers *)

\* Mutant: a minimum bond of zero is accepted.
InitializeConfig_ZeroBond(s, minBond, duration) ==
    /\ config.status = "absent"
    /\ duration > 0
    /\ config' = [status |-> "live", admin |-> s, minBond |-> minBond,
                  duration |-> duration]
    /\ UNCHANGED <<now, provider, bond, job, challenge, ledger>>

InitializeConfig(s, minBond, duration) ==
    /\ config.status = "absent"
    /\ minBond # 0
    /\ duration > 0
    /\ config' = [status |-> "live", admin |-> s, minBond |-> minBond,
                  duration |-> duration]
    /\ UNCHANGED <<now, provider, bond, job, challenge, ledger>>

SetPaused(s, paused) ==
    /\ IsAdmin(s)
    /\ config' = [config EXCEPT !.status = IF paused THEN "paused" ELSE "live"]
    /\ UNCHANGED <<now, provider, bond, job, challenge, ledger>>

RegisterProvider(p) ==
    /\ NotPaused
    /\ provider[p].status = "absent"
    /\ provider' = [provider EXCEPT ![p] = [status |-> "active", keys |-> <<>>]]
    /\ UNCHANGED <<now, config, bond, job, challenge, ledger>>

\* Mutant: the limit is checked one key too late.
AddExecutionKey_LimitOffByOne(p, key) ==
    /\ ActiveProvider(p)
    /\ key \notin ExecutionKeys(p)
    /\ Len(provider[p].keys) <= MaxKeys
    /\ provider' = [provider EXCEPT ![p].keys = Append(@, key)]
    /\ UNCHANGED <<now, config, bond, job, challenge, ledger>>

AddExecutionKey(p, key) ==
    /\ ActiveProvider(p)
    /\ key \notin ExecutionKeys(p)
    /\ Len(provider[p].keys) < MaxKeys
    /\ provider' = [provider EXCEPT ![p].keys = Append(@, key)]
    /\ UNCHANGED <<now, config, bond, job, challenge, ledger>>

\* Mutant: the last key is dropped instead of the revoked one.
SwapRemove_DropsLast(s, i) == SubSeq(s, 1, Len(s) - 1)

\* The key's slot is taken by the last key, and the list shrinks by one.
SwapRemove(s, i) ==
    [j \in 1 .. Len(s) - 1 |-> IF j = i THEN s[Len(s)] ELSE s[j]]

RevokeExecutionKey(p, key) ==
    /\ provider[p].status # "absent"
    /\ \E i \in 1 .. Len(provider[p].keys) :
          /\ provider[p].keys[i] = key
          /\ \A j \in 1 .. i - 1 : provider[p].keys[j] # key
          /\ provider' = [provider EXCEPT ![p].keys = SwapRemove(@, i)]
    /\ UNCHANGED <<now, config, bond, job, challenge, ledger>>

DepositBond(p, amount) ==
    /\ amount # 0
    /\ NotPaused
    /\ ActiveProvider(p)
    /\ wallet[p] >= amount
    /\ wallet' = [wallet EXCEPT ![p] = @ - amount]
    /\ vault' = [vault EXCEPT ![p] = @ + amount]
    /\ bond' = [bond EXCEPT ![p].deposited = @ + amount]
    /\ UNCHANGED <<now, config, provider, job, challenge, escrow>>

\* Mutant: the whole deposit can be withdrawn, locked or not.
WithdrawBond_Locked(p, amount) ==
    /\ amount # 0
    /\ amount <= bond[p].deposited
    /\ vault[p] >= amount
    /\ vault' = [vault EXCEPT ![p] = @ - amount]
    /\ wallet' = Credit(wallet, p, amount)
    /\ bond' = [bond EXCEPT ![p].deposited = @ - amount]
    /\ UNCHANGED <<now, config, provider, job, challenge, escrow>>

WithdrawBond(p, amount) ==
    /\ amount # 0
    /\ amount <= Unlocked(p)
    /\ vault[p] >= amount
    /\ vault' = [vault EXCEPT ![p] = @ - amount]
    /\ wallet' = Credit(wallet, p, amount)
    /\ bond' = [bond EXCEPT ![p].deposited = @ - amount]
    /\ UNCHANGED <<now, config, provider, job, challenge, escrow>>

-----------------------------------------------------------------------------
(* The life of a job *)

CreateJob(k, amount, request, deadline) ==
    /\ NotPaused
    /\ amount # 0
    /\ request # ZeroHash
    /\ now < deadline.fund
    /\ deadline.fund < deadline.accept
    /\ deadline.accept < deadline.work
    /\ deadline.work < deadline.auto
    /\ ActiveProvider(ProviderOf(k))
    /\ job[k].state = "None"
    /\ job' = [job EXCEPT ![k] =
                 [state |-> "Created", amount |-> amount, deadline |-> deadline,
                  request |-> request, receipt |-> NoReceipt, lockedBond |-> 0]]
    /\ UNCHANGED <<now, config, provider, bond, challenge, ledger>>

FundJob(k) ==
    /\ NotPaused
    /\ job[k].state = "Created"
    /\ now < job[k].deadline.fund
    /\ escrow[k] = 0
    /\ wallet[BuyerOf(k)] >= job[k].amount
    /\ wallet' = [wallet EXCEPT ![BuyerOf(k)] = @ - job[k].amount]
    /\ escrow' = [escrow EXCEPT ![k] = job[k].amount]
    /\ ValidTransition(job[k], "Funded")
    /\ job' = [job EXCEPT ![k] = TransitionJob(@, "Funded")]
    /\ UNCHANGED <<now, config, provider, bond, vault, challenge>>

\* Mutant: a job that has not been funded can be accepted.
AcceptJob_Unfunded(k) ==
    /\ NotPaused
    /\ ActiveProvider(ProviderOf(k))
    /\ job[k].state \in {"Created", "Funded"}
    /\ now < job[k].deadline.accept
    /\ Unlocked(ProviderOf(k)) >= config.minBond
    /\ bond' = [bond EXCEPT ![ProviderOf(k)].locked = @ + config.minBond]
    /\ job' = [job EXCEPT ![k] =
                 [TransitionJob(@, "Accepted") EXCEPT !.lockedBond = config.minBond]]
    /\ UNCHANGED <<now, config, provider, challenge, ledger>>

AcceptJob(k) ==
    /\ NotPaused
    /\ ActiveProvider(ProviderOf(k))
    /\ job[k].state = "Funded"
    /\ now < job[k].deadline.accept
    /\ Unlocked(ProviderOf(k)) >= config.minBond
    /\ bond' = [bond EXCEPT ![ProviderOf(k)].locked = @ + config.minBond]
    /\ ValidTransition(job[k], "Accepted")
    /\ job' = [job EXCEPT ![k] =
                 [TransitionJob(@, "Accepted") EXCEPT !.lockedBond = config.minBond]]
    /\ UNCHANGED <<now, config, provider, challenge, ledger>>

\* Mutant: the receipt is not bound to the address of the job.
SubmitReceipt_OtherJob(k, receipt, signer) ==
    /\ ActiveProvider(ProviderOf(k))
    /\ job[k].state = "Accepted"
    /\ now <= job[k].deadline.work
    /\ receipt.window.created <= now
    /\ now <= receipt.window.expires
    /\ receipt.request = job[k].request
    /\ signer \in ExecutionKeys(ProviderOf(k))
    /\ job' = [job EXCEPT ![k] =
                 [TransitionJob(@, "Submitted") EXCEPT !.receipt = receipt]]
    /\ UNCHANGED <<now, config, provider, bond, challenge, ledger>>

\* Anyone may submit; the receipt must be signed by a key the provider holds
\* now, in the instruction just before this one.  A key holder may have
\* signed any receipt at any time.
SubmitReceipt(k, receipt, signer) ==
    /\ ActiveProvider(ProviderOf(k))
    /\ job[k].state = "Accepted"
    /\ now <= job[k].deadline.work
    /\ receipt.window.created <= receipt.window.expires
    /\ receipt.window.expires >= now
    /\ receipt.window.created <= now
    /\ receipt.job = k
    /\ receipt.request = job[k].request
    /\ signer \in ExecutionKeys(ProviderOf(k))
    /\ ValidTransition(job[k], "Submitted")
    /\ job' = [job EXCEPT ![k] =
                 [TransitionJob(@, "Submitted") EXCEPT !.receipt = receipt]]
    /\ UNCHANGED <<now, config, provider, bond, challenge, ledger>>

AcceptWork(k) ==
    /\ job[k].state = "Submitted"
    /\ SettlePayout(k)
    /\ CanUnlock(k)
    /\ UnlockJobBond(k)
    /\ ValidTransition(job[k], "Settled")
    /\ job' = [job EXCEPT ![k] = [TransitionJob(@, "Settled") EXCEPT !.lockedBond = 0]]
    /\ UNCHANGED <<now, config, provider, vault, challenge>>

\* Mutant: the challenge deadline wraps past the largest timestamp.
ChallengeWork_Unchecked(k) ==
    /\ job[k].state = "Submitted"
    /\ now < job[k].deadline.auto
    /\ challenge' = [challenge EXCEPT ![k] =
                       [status |-> "open", deadline |-> now + config.duration]]
    /\ job' = [job EXCEPT ![k] = TransitionJob(@, "Challenged")]
    /\ UNCHANGED <<now, config, provider, bond, ledger>>

ChallengeWork(k) ==
    /\ job[k].state = "Submitted"
    /\ now < job[k].deadline.auto
    /\ challenge[k].status = "absent"
    /\ now + config.duration <= MaxTime
    /\ challenge' = [challenge EXCEPT ![k] =
                       [status |-> "open", deadline |-> now + config.duration]]
    /\ ValidTransition(job[k], "Challenged")
    /\ job' = [job EXCEPT ![k] = TransitionJob(@, "Challenged")]
    /\ UNCHANGED <<now, config, provider, bond, ledger>>

-----------------------------------------------------------------------------
(* Timeouts, which anyone may trigger, and the admin's ruling *)

\* A submitted job settles once its review period is over, a challenged one
\* once its challenge has run out without a ruling.
CanTimeoutSettle(k) ==
    \/ /\ job[k].state = "Submitted"
       /\ now >= job[k].deadline.auto
    \/ /\ job[k].state = "Challenged"
       /\ challenge[k].status = "open"
       /\ now >= challenge[k].deadline

\* Mutant: the challenge account is left open behind the settled job.
ResolveTimeoutSettle_KeepsChallenge(k) ==
    /\ CanTimeoutSettle(k)
    /\ SettlePayout(k)
    /\ CanUnlock(k)
    /\ UnlockJobBond(k)
    /\ job' = [job EXCEPT ![k] = [TransitionJob(@, "Settled") EXCEPT !.lockedBond = 0]]
    /\ UNCHANGED <<now, config, provider, vault, challenge>>

ResolveTimeoutSettle(k) ==
    /\ CanTimeoutSettle(k)
    /\ challenge' = IF job[k].state = "Challenged"
                    THEN [challenge EXCEPT ![k] = NoChallenge]
                    ELSE challenge
    /\ SettlePayout(k)
    /\ CanUnlock(k)
    /\ UnlockJobBond(k)
    /\ ValidTransition(job[k], "Settled")
    /\ job' = [job EXCEPT ![k] = [TransitionJob(@, "Settled") EXCEPT !.lockedBond = 0]]
    /\ UNCHANGED <<now, config, provider, vault>>

\* Mutant: only the principal is returned.
RefundPrincipal_AmountOnly(k, w) ==
    /\ escrow[k] >= job[k].amount
    /\ escrow' = [escrow EXCEPT ![k] = @ - job[k].amount]
    /\ wallet' = Credit(w, BuyerOf(k), job[k].amount)

\* refund_principal_to_buyer: the whole balance, surplus included.
RefundPrincipal(k, w) ==
    /\ escrow[k] >= job[k].amount
    /\ escrow' = [escrow EXCEPT ![k] = 0]
    /\ wallet' = Credit(w, BuyerOf(k), escrow[k])

\* Mutant: the refund opens while the receipt may still be submitted.
CanTimeoutRefund_AtDeadline(k, fundedOnly) ==
    \/ /\ job[k].state = "Funded"
       /\ now >= job[k].deadline.accept
    \/ /\ ~fundedOnly
       /\ job[k].state = "Accepted"
       /\ now >= job[k].deadline.work

CanTimeoutRefund(k, fundedOnly) ==
    \/ /\ job[k].state = "Funded"
       /\ now >= job[k].deadline.accept
    \/ /\ ~fundedOnly
       /\ job[k].state = "Accepted"
       /\ now > job[k].deadline.work

RefundInternal(k, fundedOnly) ==
    /\ CanTimeoutRefund(k, fundedOnly)
    /\ RefundPrincipal(k, wallet)
    /\ CanUnlock(k)
    /\ UnlockJobBond(k)
    /\ ValidTransition(job[k], "Refunded")
    /\ job' = [job EXCEPT ![k] = [TransitionJob(@, "Refunded") EXCEPT !.lockedBond = 0]]
    /\ UNCHANGED <<now, config, provider, vault, challenge>>

ResolveTimeoutRefund(k) == RefundInternal(k, FALSE)

ExpireUnaccepted(k) == RefundInternal(k, TRUE)

ExpireUnfunded(k) ==
    /\ job[k].state = "Created"
    /\ now >= job[k].deadline.fund
    /\ ValidTransition(job[k], "Expired")
    /\ job' = [job EXCEPT ![k] = TransitionJob(@, "Expired")]
    /\ UNCHANGED <<now, config, provider, bond, challenge, ledger>>

SlashBond(s, k) ==
    LET p == ProviderOf(k)
        slash == job[k].lockedBond
    IN  /\ IsAdmin(s)
        /\ job[k].state = "Challenged"
        /\ challenge[k].status = "open"
        /\ now < challenge[k].deadline
        /\ slash # 0
        /\ bond[p].locked >= slash
        /\ bond[p].deposited >= slash
        /\ vault[p] >= slash
        /\ RefundPrincipal(k, Credit(wallet, BuyerOf(k), slash))
        /\ vault' = [vault EXCEPT ![p] = @ - slash]
        /\ bond' = [bond EXCEPT ![p] = [deposited |-> @.deposited - slash,
                                        locked |-> @.locked - slash]]
        /\ ValidTransition(job[k], "Slashed")
        /\ job' = [job EXCEPT ![k] = [TransitionJob(@, "Slashed") EXCEPT !.lockedBond = 0]]
        /\ challenge' = [challenge EXCEPT ![k] = NoChallenge]
        /\ UNCHANGED <<now, config, provider>>

\* The escrow is an optional account of the instruction: when it is passed it
\* must be empty and is closed, when it is left out it is not looked at.
CloseJob(k, withEscrow) ==
    /\ job[k].state \in Terminal
    /\ withEscrow => escrow[k] = 0
    /\ job' = [job EXCEPT ![k] = NoJob]
    /\ UNCHANGED <<now, config, provider, bond, challenge, ledger>>

-----------------------------------------------------------------------------
(* The environment: time passes, and anyone may send tokens to an account  *)
(* of the program without asking it.                                       *)

Tick ==
    /\ now < MaxTime
    /\ now' = now + 1
    /\ UNCHANGED <<config, provider, bond, job, challenge, ledger>>

DonateToEscrow(a, k) ==
    /\ wallet[a] >= 1
    /\ wallet' = [wallet EXCEPT ![a] = @ - 1]
    /\ escrow' = [escrow EXCEPT ![k] = @ + 1]
    /\ UNCHANGED <<now, config, provider, bond, vault, job, challenge>>

DonateToVault(a, p) ==
    /\ wallet[a] >= 1
    /\ wallet' = [wallet EXCEPT ![a] = @ - 1]
    /\ vault' = [vault EXCEPT ![p] = @ + 1]
    /\ UNCHANGED <<now, config, provider, bond, job, challenge, escrow>>

-----------------------------------------------------------------------------

ConfigNext ==
    \E s \in Parties :
        \/ \E minBond \in MinBonds, duration \in Durations :
              InitializeConfig(s, minBond, duration)
        \/ \E paused \in BOOLEAN : SetPaused(s, paused)

ProviderNext ==
    \E p \in Providers :
        \/ RegisterProvider(p)
        \/ \E key \in Keys : AddExecutionKey(p, key) \/ RevokeExecutionKey(p, key)
        \/ \E amount \in Amounts : DepositBond(p, amount) \/ WithdrawBond(p, amount)

JobNext ==
    \E k \in JobKeys :
        \/ \E amount \in Amounts, request \in Requests \cup {ZeroHash}, d \in Schedules :
              CreateJob(k, amount, request, d)
        \/ FundJob(k)
        \/ AcceptJob(k)
        \/ \E receipt \in Receipts, signer \in Keys : SubmitReceipt(k, receipt, signer)
        \/ AcceptWork(k)
        \/ ChallengeWork(k)
        \/ ResolveTimeoutSettle(k)
        \/ ResolveTimeoutRefund(k)
        \/ ExpireUnaccepted(k)
        \/ ExpireUnfunded(k)
        \/ \E s \in Parties : SlashBond(s, k)
        \/ \E withEscrow \in BOOLEAN : CloseJob(k, withEscrow)

EnvironmentNext ==
    \/ Tick
    \/ \E a \in Parties, k \in JobKeys : DonateToEscrow(a, k)
    \/ \E a \in Parties, p \in Providers : DonateToVault(a, p)

Next == ConfigNext \/ ProviderNext \/ JobNext \/ EnvironmentNext

Spec == Init /\ [][Next]_vars

-----------------------------------------------------------------------------
(* Safety *)

\* Every account keeps its layout, and the clock is a timestamp.
TypeOK ==
    /\ now \in Time
    /\ config \in ConfigRecord
    /\ provider \in [Providers -> ProviderRecord]
    /\ bond \in [Providers -> BondRecord]
    /\ vault \in [Providers -> Nat]
    /\ job \in [JobKeys -> JobRecord]
    /\ challenge \in [JobKeys -> ChallengeRecord]
    /\ escrow \in [JobKeys -> Nat]
    /\ wallet \in [Parties -> Nat]

BondedJobs(p) == {k \in JobKeys : ProviderOf(k) = p /\ job[k].state \in BondedStates}

\* What a provider has locked is exactly one minimum bond per job of its that
\* is accepted and not yet resolved: no instruction sequence locks a bond
\* twice, unlocks it twice, or leaves it locked behind a finished job.
LockedBondExact ==
    \A p \in Providers :
        bond[p].locked = config.minBond * Cardinality(BondedJobs(p))

\* The bond account never promises more than its vault holds, so neither an
\* unlocked withdrawal nor a slash can fail for lack of tokens.
BondBacked ==
    \A p \in Providers :
        /\ bond[p].locked <= bond[p].deposited
        /\ bond[p].deposited <= vault[p]

\* From FundJob to the payout the escrow holds at least the principal, so
\* settlement, refund and slash always find the tokens they pay out.
EscrowBacked ==
    \A k \in JobKeys : job[k].state \in HeldStates => escrow[k] >= job[k].amount

\* Once its deadline allows it, a timeout or a ruling never fails on the checks
\* it makes while it moves tokens: the escrow covers the payout, the bond
\* covers the unlock, and the vault covers the slash.
ResolutionNeverFails ==
    \A k \in JobKeys :
        LET p == ProviderOf(k) IN
        /\ CanTimeoutSettle(k) \/ CanTimeoutRefund(k, FALSE) =>
              /\ escrow[k] >= job[k].amount
              /\ CanUnlock(k)
        /\ job[k].state = "Challenged" =>
              /\ job[k].lockedBond # 0
              /\ job[k].lockedBond <= bond[p].locked
              /\ job[k].lockedBond <= bond[p].deposited
              /\ job[k].lockedBond <= vault[p]

\* A challenge account exists exactly while its job is challenged: a job that
\* is created again at the same address never meets a stale challenge.
ChallengeMatchesJob ==
    \A k \in JobKeys :
        challenge[k].status = "open" <=> job[k].state = "Challenged"

\* A job carries a receipt for its own address and request exactly from its
\* submission on.  In particular a provider is paid only for a job it
\* delivered a receipt for, and a refunded job never had one.
ReceiptMatchesState ==
    \A k \in JobKeys :
        IF job[k].state \in {"Submitted", "Challenged", "Settled", "Slashed"}
        THEN /\ job[k].receipt # NoReceipt
             /\ job[k].receipt.job = k
             /\ job[k].receipt.request = job[k].request
             /\ job[k].receipt.window.created <= job[k].deadline.work
        ELSE job[k].receipt = NoReceipt

\* The key list holds no key twice and never outgrows its array, whatever
\* order keys are added and swap-removed in.
KeyListSound ==
    \A p \in Providers :
        /\ Len(provider[p].keys) <= MaxKeys
        /\ \A i, j \in 1 .. Len(provider[p].keys) :
              provider[p].keys[i] = provider[p].keys[j] => i = j

-----------------------------------------------------------------------------
(* The inductive invariant behind the bond and escrow accounting *)

\* Each job records its own share of the provider's locked bond.
JobBondExact ==
    \A k \in JobKeys :
        job[k].lockedBond = IF job[k].state \in BondedStates THEN config.minBond ELSE 0

\* Until the configuration exists there are no jobs, so the minimum bond is
\* fixed before the first bond is locked; from then on it is not zero.
ConfigFirst ==
    IF config.status = "absent"
    THEN \A k \in JobKeys : job[k].state = "None"
    ELSE config.minBond # 0

AccountingInv ==
    /\ TypeOK
    /\ LockedBondExact
    /\ BondBacked
    /\ EscrowBacked
    /\ ChallengeMatchesJob
    /\ JobBondExact
    /\ ConfigFirst

-----------------------------------------------------------------------------
(* What a step may never do *)

\* The states a job may go to next, by the clock.  Each deadline separates the
\* outcomes cleanly: at any instant either the party's own move or the
\* permissionless timeout is possible, never both and never neither.
MayBecome(k, to) ==
    LET from == job[k].state
        d == job[k].deadline
    IN  \/ from = "None"                                          /\ to = "Created"
        \/ from = "Created"    /\ now < d.fund                    /\ to = "Funded"
        \/ from = "Created"    /\ now >= d.fund                   /\ to = "Expired"
        \/ from = "Funded"     /\ now < d.accept                  /\ to = "Accepted"
        \/ from = "Funded"     /\ now >= d.accept                 /\ to = "Refunded"
        \/ from = "Accepted"   /\ now <= d.work                   /\ to = "Submitted"
        \/ from = "Accepted"   /\ now > d.work                    /\ to = "Refunded"
        \/ from = "Submitted"                                     /\ to = "Settled"
        \/ from = "Submitted"  /\ now < d.auto                    /\ to = "Challenged"
        \/ from = "Challenged" /\ now < challenge[k].deadline     /\ to = "Slashed"
        \/ from = "Challenged" /\ now >= challenge[k].deadline    /\ to = "Settled"
        \/ from \in Terminal                                      /\ to = "None"

\* Once a deadline has passed the outcome of the job is decided, whichever
\* instruction arrives first; and before it no timeout can preempt a party.
OutcomeByDeadline ==
    [][\A k \in JobKeys :
          job'[k].state # job[k].state => MayBecome(k, job'[k].state)]_vars

\* A key that leaves the list is gone from every slot: after a revocation the
\* provider's signatures by it no longer submit a receipt, and no other key is
\* lost with it.
RevocationTakesEffect ==
    [][\A p \in Providers, key \in Keys :
          RevokeExecutionKey(p, key) =>
              ExecutionKeys(p)' = ExecutionKeys(p) \ {key}]_vars

\* The admin can award a bond to a buyer only on the buyer's own challenge of
\* a submitted receipt, and never more than that job locked.
SlashBounded ==
    [][\A p \in Providers :
          bond'[p].deposited < bond[p].deposited =>
             \/ bond'[p].locked = bond[p].locked   \* the provider's withdrawal
             \/ \E k \in JobKeys :
                   /\ ProviderOf(k) = p
                   /\ challenge[k].status = "open"
                   /\ job'[k].state = "Slashed"
                   /\ bond[p].deposited - bond'[p].deposited = config.minBond
                   /\ bond[p].locked - bond'[p].locked = config.minBond]_vars
==============================================================================
