------------------------------ MODULE SdkPlans ------------------------------
(***************************************************************************)
(* What the SDK puts into an instruction and what the program takes out of  *)
(* it.  The two are written separately: the plan_* functions list accounts  *)
(* by position (host/crates/agentbond-sdk/src/instruction.rs, receipt.rs)   *)
(* and the handlers consume them by position (programs/agentbond/src/       *)
(* processor); encode_* and parse_instruction each carry their own offsets  *)
(* (crates/agentbond-types/src/instruction.rs).  Every check is repeated on *)
(* both sides too.                                                          *)
(*                                                                          *)
(* An account is named by its role: the SDK derives the address of a role   *)
(* from the parties, and the handler derives it again from the accounts'    *)
(* contents and compares.                                                   *)
(***************************************************************************)
EXTENDS Naturals, Sequences

\* AccountMeta::new and new_readonly, without and with a signature.
W(role)  == [role |-> role, writable |-> TRUE,  signer |-> FALSE]
R(role)  == [role |-> role, writable |-> FALSE, signer |-> FALSE]
WS(role) == [role |-> role, writable |-> TRUE,  signer |-> TRUE]
RS(role) == [role |-> role, writable |-> FALSE, signer |-> TRUE]

\* plan_initialize_config, plan_set_paused
ConfigPlans ==
    [initialize_config |-> <<WS("admin"), W("config"), R("system")>>,
     set_paused |-> <<RS("admin"), W("config")>>]

\* plan_register_provider, plan_add_execution_key, plan_revoke_execution_key
ProviderPlans ==
    [register_provider |->
        <<WS("authority"), R("config"), W("provider"), R("system")>>,
     add_execution_key |-> <<RS("authority"), W("provider")>>,
     revoke_execution_key |-> <<RS("authority"), W("provider")>>]

\* plan_deposit_bond, plan_withdraw_bond
BondPlans ==
    [deposit_bond |->
        <<WS("authority"), R("config"), R("provider"), W("bond"), W("vault"),
          W("authority_token"), R("mint"), R("token"), R("system")>>,
     withdraw_bond |->
        <<RS("authority"), W("bond"), W("vault"), W("authority_token"),
          R("mint"), R("token")>>]

\* plan_create_job, plan_fund_job, plan_accept_job
OpeningPlans ==
    [create_job |->
        <<WS("buyer"), R("config"), R("provider"), W("job"), R("system")>>,
     fund_job |->
        <<RS("buyer"), R("config"), W("job"), W("buyer_token"), W("escrow"),
          R("mint"), R("token")>>,
     accept_job |->
        <<RS("authority"), R("config"), R("provider"), W("bond"), W("job")>>]

\* Mutant: the two token accounts of the payout change places.
DeliveryPlans_Swapped ==
    [submit_receipt |->
        <<R("config"), R("provider"), W("job"), R("instructions")>>,
     accept_work |->
        <<RS("buyer"), W("job"), W("bond"), W("escrow"), W("buyer_token"),
          W("provider_token"), R("mint"), R("token")>>,
     challenge_work |->
        <<WS("buyer"), R("config"), W("job"), W("challenge"), R("system")>>]

\* build_submit_receipt_plan_at, plan_accept_work, plan_challenge_work
DeliveryPlans ==
    [submit_receipt |->
        <<R("config"), R("provider"), W("job"), R("instructions")>>,
     accept_work |->
        <<RS("buyer"), W("job"), W("bond"), W("escrow"), W("provider_token"),
          W("buyer_token"), R("mint"), R("token")>>,
     challenge_work |->
        <<WS("buyer"), R("config"), W("job"), W("challenge"), R("system")>>]

RefundAccounts ==
    <<RS("payer"), W("job"), W("bond"), W("escrow"), W("buyer_token"),
      W("buyer"), R("mint"), R("token")>>

SettleAccounts ==
    <<RS("payer"), W("job"), W("bond"), W("escrow"), W("provider_token"),
      W("buyer_token"), W("buyer"), R("mint"), R("token")>>

\* plan_resolve_timeout_settle with and without the challenge account,
\* plan_resolve_timeout_refund, plan_expire_unfunded, plan_expire_unaccepted
TimeoutPlans ==
    [settle |-> SettleAccounts,
     settle_challenge |-> Append(SettleAccounts, W("challenge")),
     refund |-> RefundAccounts,
     expire_unfunded |-> <<RS("payer"), W("job")>>,
     expire_unaccepted |-> RefundAccounts]

\* plan_slash_bond, plan_close_job with and without the escrow
ClosingPlans ==
    [slash_bond |->
        <<RS("admin"), R("config"), W("job"), W("bond"), W("vault"),
          W("escrow"), W("buyer_token"), W("buyer"), W("challenge"),
          R("mint"), R("token")>>,
     close_job |-> <<RS("buyer"), W("job"), W("buyer")>>,
     close_job_escrow |->
        <<RS("buyer"), W("job"), W("buyer"), W("escrow"), R("token")>>]

Planned(plan) ==
    CASE plan \in DOMAIN ConfigPlans -> ConfigPlans[plan]
      [] plan \in DOMAIN ProviderPlans -> ProviderPlans[plan]
      [] plan \in DOMAIN BondPlans -> BondPlans[plan]
      [] plan \in DOMAIN OpeningPlans -> OpeningPlans[plan]
      [] plan \in DOMAIN DeliveryPlans -> DeliveryPlans[plan]
      [] plan \in DOMAIN TimeoutPlans -> TimeoutPlans[plan]
      [] plan \in DOMAIN ClosingPlans -> ClosingPlans[plan]

-----------------------------------------------------------------------------
(***************************************************************************)
(* The handlers' side: what next_account is expected to yield, and what the *)
(* handler does with it.  It writes an account, checks a signature, lets a  *)
(* signer pay for a new account, insists on a read-only one, or reads.      *)
(***************************************************************************)

Writes(role)   == [role |-> role, writable |-> {TRUE},  signer |-> BOOLEAN]
Signed(role)   == [role |-> role, writable |-> BOOLEAN, signer |-> {TRUE}]
Pays(role)     == [role |-> role, writable |-> {TRUE},  signer |-> {TRUE}]
ReadOnly(role) == [role |-> role, writable |-> {FALSE}, signer |-> BOOLEAN]
Reads(role)    == [role |-> role, writable |-> BOOLEAN, signer |-> BOOLEAN]

InitializeConfigTakes == <<Pays("admin"), Writes("config"), Reads("system")>>
SetPausedTakes == <<Signed("admin"), Writes("config")>>

RegisterProviderTakes ==
    <<Pays("authority"), ReadOnly("config"), Writes("provider"), Reads("system")>>

\* add_execution_key and revoke_execution_key
ExecutionKeysTake == <<Signed("authority"), Writes("provider")>>

\* The first deposit creates the bond account.
DepositBondTakes ==
    <<Pays("authority"), ReadOnly("config"), Reads("provider"), Writes("bond"),
      Writes("vault"), Writes("authority_token"), Reads("mint"), Reads("token"),
      Reads("system")>>

WithdrawBondTakes ==
    <<Signed("authority"), Writes("bond"), Writes("vault"),
      Writes("authority_token"), Reads("mint"), Reads("token")>>

CreateJobTakes ==
    <<Pays("buyer"), ReadOnly("config"), Reads("provider"), Writes("job"),
      Reads("system")>>

FundJobTakes ==
    <<Signed("buyer"), ReadOnly("config"), Writes("job"), Writes("buyer_token"),
      Writes("escrow"), Reads("mint"), Reads("token")>>

AcceptJobTakes ==
    <<Signed("authority"), ReadOnly("config"), Reads("provider"),
      Writes("bond"), Writes("job")>>

SubmitReceiptTakes ==
    <<ReadOnly("config"), Reads("provider"), Writes("job"),
      Reads("instructions")>>

AcceptWorkTakes ==
    <<Signed("buyer"), Writes("job"), Writes("bond"), Writes("escrow"),
      Writes("provider_token"), Writes("buyer_token"), Reads("mint"),
      Reads("token")>>

ChallengeWorkTakes ==
    <<Pays("buyer"), ReadOnly("config"), Writes("job"), Writes("challenge"),
      Reads("system")>>

\* resolve_timeout_settle takes a last account only for a challenged job, and
\* then pays the rent of that account to the buyer.
SettleTakes(buyer) ==
    <<Reads("payer"), Writes("job"), Writes("bond"), Writes("escrow"),
      Writes("provider_token"), Writes("buyer_token"), buyer, Reads("mint"),
      Reads("token")>>

\* refund_internal serves two instructions.
RefundTakes ==
    <<Reads("payer"), Writes("job"), Writes("bond"), Writes("escrow"),
      Writes("buyer_token"), Reads("buyer"), Reads("mint"), Reads("token")>>

ExpireUnfundedTakes == <<Reads("payer"), Writes("job")>>

SlashBondTakes ==
    <<Signed("admin"), ReadOnly("config"), Writes("job"), Writes("bond"),
      Writes("vault"), Writes("escrow"), Writes("buyer_token"),
      Writes("buyer"), Writes("challenge"), Reads("mint"), Reads("token")>>

\* The rent recipient is compared with the buyer; the escrow is optional.
CloseJobTakes == <<Signed("buyer"), Writes("job"), Writes("buyer")>>

Consumed ==
    [initialize_config |-> InitializeConfigTakes, set_paused |-> SetPausedTakes,
     register_provider |-> RegisterProviderTakes,
     add_execution_key |-> ExecutionKeysTake,
     revoke_execution_key |-> ExecutionKeysTake,
     deposit_bond |-> DepositBondTakes, withdraw_bond |-> WithdrawBondTakes,
     create_job |-> CreateJobTakes, fund_job |-> FundJobTakes,
     accept_job |-> AcceptJobTakes, submit_receipt |-> SubmitReceiptTakes,
     accept_work |-> AcceptWorkTakes, challenge_work |-> ChallengeWorkTakes,
     settle |-> SettleTakes(Reads("buyer")),
     settle_challenge |-> Append(SettleTakes(Writes("buyer")), Writes("challenge")),
     refund |-> RefundTakes, expire_unfunded |-> ExpireUnfundedTakes,
     expire_unaccepted |-> RefundTakes, slash_bond |-> SlashBondTakes,
     close_job |-> CloseJobTakes,
     close_job_escrow |-> Append(Append(CloseJobTakes, Writes("escrow")), Reads("token"))]

\* A role may be listed twice; the transaction then gives it the stronger of
\* its flags everywhere.
Merged(metas, i) ==
    LET same == {j \in DOMAIN metas : metas[j].role = metas[i].role} IN
    [role |-> metas[i].role,
     writable |-> \E j \in same : metas[j].writable,
     signer |-> \E j \in same : metas[j].signer]

AccountsFit(plan) ==
    /\ Len(Planned(plan)) = Len(Consumed[plan])
    /\ \A i \in DOMAIN Planned(plan) :
        LET given == Merged(Planned(plan), i)
            wanted == Consumed[plan][i]
        IN  /\ given.role = wanted.role
            /\ given.writable \in wanted.writable
            /\ given.signer \in wanted.signer

-----------------------------------------------------------------------------
(***************************************************************************)
(* The instruction data: one byte of discriminator, then the payload.  The  *)
(* encoder writes a field up to an offset in the whole data, the parser     *)
(* reads it from an offset in the payload.                                  *)
(***************************************************************************)

\* A plan's kind, as InstructionKind numbers it.
Discriminator ==
    [initialize_config |-> 0, register_provider |-> 1, add_execution_key |-> 2,
     revoke_execution_key |-> 3, deposit_bond |-> 4, withdraw_bond |-> 5,
     create_job |-> 6, fund_job |-> 7, accept_job |-> 8, submit_receipt |-> 9,
     accept_work |-> 10, challenge_work |-> 11, settle |-> 12,
     settle_challenge |-> 12, refund |-> 13, expire_unfunded |-> 14,
     expire_unaccepted |-> 15, slash_bond |-> 16, close_job |-> 17,
     close_job_escrow |-> 17, set_paused |-> 18]

\* expected_payload_len; a kind that is not listed has no payload.
PayloadLen(d) ==
    CASE d = 0 -> 113 [] d = 18 -> 1 [] d \in {2, 3, 11} -> 32
      [] d \in {4, 5} -> 8 [] d = 6 -> 80 [] d = 9 -> 334 [] OTHER -> 0

Field(name, from, to) == [name |-> name, from |-> from, to |-> to]

\* encode_initialize_config, encode_create_job and the encoders of one field
Encoded(d) ==
    CASE d = 0 ->
            {Field("genesis_hash", 1, 33), Field("allowed_mint", 33, 65),
             Field("token_program", 65, 97), Field("mint_decimals", 97, 98),
             Field("min_provider_bond", 98, 106),
             Field("challenge_duration_seconds", 106, 114)}
      [] d = 6 ->
            {Field("job_nonce", 1, 9), Field("amount", 9, 17),
             Field("request_hash", 17, 49), Field("fund_deadline", 49, 57),
             Field("accept_deadline", 57, 65), Field("work_deadline", 65, 73),
             Field("auto_settle_deadline", 73, 81)}
      [] d \in {2, 3} -> {Field("key", 1, 33)}
      [] d \in {4, 5} -> {Field("amount", 1, 9)}
      [] d = 9 -> {Field("receipt", 1, 335)}
      [] d = 11 -> {Field("reason_hash", 1, 33)}
      [] d = 18 -> {Field("paused", 1, 2)}
      [] OTHER -> {}

\* parse_instruction: read_pubkey takes 32 bytes from an offset of the
\* payload, read_u64 and read_i64 take 8, a byte is indexed.
Key(name, at) == Field(name, at, at + 32)
I64(name, at) == Field(name, at, at + 8)
Byte(name, at) == Field(name, at, at + 1)

Parsed(d) ==
    CASE d = 0 ->
            {Key("genesis_hash", 0), Key("allowed_mint", 32),
             Key("token_program", 64), Byte("mint_decimals", 96),
             I64("min_provider_bond", 97), I64("challenge_duration_seconds", 105)}
      [] d = 6 ->
            {I64("job_nonce", 0), I64("amount", 8), Key("request_hash", 16),
             I64("fund_deadline", 48), I64("accept_deadline", 56),
             I64("work_deadline", 64), I64("auto_settle_deadline", 72)}
      [] d \in {2, 3} -> {Key("key", 0)}
      [] d \in {4, 5} -> {I64("amount", 0)}
      [] d = 9 -> {Field("receipt", 0, 334)}
      [] d = 11 -> {Key("reason_hash", 0)}
      [] d = 18 -> {Byte("paused", 0)}
      [] OTHER -> {}

\* The parser finds every field where the encoder put it, and the length is
\* the one it insists on.
DataFits(plan) ==
    LET d == Discriminator[plan] IN
    /\ Parsed(d) = {Field(f.name, f.from - 1, f.to - 1) : f \in Encoded(d)}
    /\ \A i \in 0 .. PayloadLen(d) - 1 :
        \E f \in Parsed(d) : f.from <= i /\ i < f.to
    /\ \A f \in Parsed(d) : f.to <= PayloadLen(d)

\* The plans from which the program reads what the SDK meant.
Understood == {plan \in DOMAIN Discriminator : AccountsFit(plan) /\ DataFits(plan)}
=============================================================================
