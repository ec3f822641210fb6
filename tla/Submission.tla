----------------------------- MODULE Submission -----------------------------
(***************************************************************************)
(* `agentbond send`: the command line checks a plan, asks the RPC node      *)
(* what it needs to know, signs, simulates and broadcasts one transaction   *)
(* and polls for its confirmation (host/apps/agentbond-cli/src/send_cmd.rs, *)
(* host/crates/agentbond-sdk/src/submit.rs, rpc.rs, plan.rs).               *)
(*                                                                          *)
(* Each await on the RPC node is one step of the client, and any of them    *)
(* may fail; the answer to sendTransaction may be lost after the node has   *)
(* passed the transaction on.  The cluster is external: a transaction can   *)
(* land while its blockhash is young enough, a processed one may be rolled  *)
(* back with its fork, and a confirmed one stays.  After every outcome but  *)
(* success the user may run the command again on the same plan file.        *)
(*                                                                          *)
(* A transaction is identified by its blockhash: the plan and the payer are *)
(* fixed, and TrySign accepts exactly one set of signers, so two runs with  *)
(* the same blockhash sign the same message and get the same signature.     *)
(* A blockhash is the time at which it was the latest one.                  *)
(***************************************************************************)
EXTENDS Naturals, Sequences

CONSTANTS
    Genesis,        \* what the cluster answers to getGenesisHash
    Program,        \* the program id the client is configured for
    Payer,          \* the key that pays
    Plans,          \* the plan files a user may hold
    Arguments,      \* the command lines a user may give
    MaxAttempts,    \* ConfirmPolicy.max_attempts (20 in production)
    BlockhashAge,   \* how long a blockhash is accepted (150 blocks)
    ClusterLag,     \* how far a confirmed answer may be behind
    MaxTime,        \* bound on the model's clock
    MaxInvocations  \* bound on the runs of the command

ASSUME SubmissionAssumption ==
    /\ MaxAttempts \in Nat /\ BlockhashAge \in Nat /\ ClusterLag \in Nat
    /\ MaxTime \in Nat /\ MaxInvocations \in Nat
ASSUME PlanAssumption ==
    \A p \in Plans :
        p.instructions \in Seq({p.instructions[i] : i \in DOMAIN p.instructions})

VARIABLES
    now,        \* the cluster's clock
    level,      \* per transaction: how far the cluster has taken it
    result,     \* per transaction: the result of its execution, if any
    plan,       \* the plan file
    args,       \* the command line of the current run
    pc,         \* the await the current run is at
    blockhash,  \* the blockhash the current run signed
    attempts,   \* polls made by confirm_signature
    sent,       \* the current run's transaction has reached the cluster
    outcome,    \* how the current run ended
    ended       \* the runs that have ended before the current one

cluster == <<now, level, result>>
client == <<plan, args, pc, blockhash, attempts, sent, outcome, ended>>
vars == <<now, level, result,
          plan, args, pc, blockhash, attempts, sent, outcome, ended>>

Times == 0 .. MaxTime
Awaits == {"cli_genesis", "genesis", "clock", "blockhash", "simulate",
           "send", "confirm"}
Outcomes == {"none", "ok", "refused", "invalid_input", "rpc"}
Levels == {"unsent", "pending", "processed", "confirmed"}
EndedRun == [blockhash : Times, sent : BOOLEAN, outcome : Outcomes]

TypeOK ==
    /\ now \in Times
    /\ level \in [Times -> Levels]
    /\ result \in [Times -> {"none", "ok", "err"}]
    /\ plan \in Plans
    /\ args \in Arguments
    /\ pc \in Awaits \cup {"idle"}
    /\ blockhash \in Times
    /\ attempts \in 0 .. MaxAttempts
    /\ sent \in BOOLEAN
    /\ outcome \in Outcomes
    /\ ended \in Seq(EndedRun)

-----------------------------------------------------------------------------
(***************************************************************************)
(* The checks of the client.                                                *)
(***************************************************************************)

MAINNET_GENESIS_HASH == "5eykt4UsLoyBJaSfb9PRppPPjqSV4kt3Kg8ndRVYMQ"

\* The genesis hashes are compared as text; every other one is
\* LocalOrUnknown.
cluster_from_genesis_hash(genesis) ==
    CASE genesis = MAINNET_GENESIS_HASH -> "MainnetBeta"
      [] genesis = "EtWTRABZaYq6iMfeYKouRu166VU2xqa1wcaWoxPkrZBG" -> "Devnet"
      [] genesis = "4uhcVJyU9pJkvQyS88uRDiswHXSCkY3zQawwpjk2NsNY" -> "Testnet"
      [] OTHER -> "LocalOrUnknown"

MainnetBlocked ==
    /\ cluster_from_genesis_hash(Genesis) = "MainnetBeta"
    /\ ~args.allow_mainnet

\* The keys an instruction list marks as signers.
MetaSigners(p) ==
    UNION {p.instructions[i].signers : i \in DOMAIN p.instructions}

\* Mutant: off by one, an Ed25519 instruction may come last.
ValidPlan_TrailingEd25519(p, t) ==
    /\ p.program_id = Program
    /\ p.expires_at # 0 => t <= p.expires_at
    /\ p.instructions # << >>
    /\ \A i \in DOMAIN p.instructions : p.instructions[i].program_id \in {Program, "ed25519"}
    /\ p.required_signers \subseteq MetaSigners(p)

\* validate_plan_instructions: the configured program only, not expired (0 is
\* a plan that does not expire), not empty, an Ed25519 instruction only right
\* before one of the program, and every required signer among the
\* instructions' signers.
ValidPlan(p, t) ==
    LET ixs == p.instructions IN
    /\ p.program_id = Program
    /\ p.expires_at # 0 => t <= p.expires_at
    /\ ixs # << >>
    /\ \A i \in DOMAIN ixs :
        \/ ixs[i].program_id = Program
        \/ /\ ixs[i].program_id = "ed25519"
           /\ i < Len(ixs)
           /\ ixs[i + 1].program_id = Program
    /\ p.required_signers \subseteq MetaSigners(p)

\* The payer's key and the extra ones; a repeated payer is dropped.
PresentSigners == {Payer} \cup args.signers

\* try_sign refuses a key the message does not name, and a missing one.
TrySign ==
    /\ plan.required_signers \subseteq PresentSigners
    /\ PresentSigners = {Payer} \cup MetaSigners(plan)

-----------------------------------------------------------------------------
Init ==
    /\ now = 0
    /\ level = [b \in Times |-> "unsent"]
    /\ result = [b \in Times |-> "none"]
    /\ plan \in Plans
    /\ args \in Arguments
    /\ pc = "idle"
    /\ blockhash = 0
    /\ attempts = 0
    /\ sent = FALSE
    /\ outcome = "none"
    /\ ended = << >>

\* The run returns.
End(o) ==
    /\ pc' = "idle"
    /\ outcome' = o
    /\ UNCHANGED <<plan, args, blockhash, attempts, ended, cluster>>

Proceed(step) ==
    /\ pc' = step
    /\ UNCHANGED <<plan, args, blockhash, attempts, sent, outcome, ended,
                   cluster>>

\* A new process, with nothing left of the one before: key files that
\* others can read are refused at once, the first RPC call comes next.
Start(a) ==
    /\ pc = "idle"
    /\ outcome # "ok"
    /\ ended' = IF outcome = "none" THEN ended
                ELSE Append(ended, [blockhash |-> blockhash, sent |-> sent,
                                    outcome |-> outcome])
    /\ Len(ended') < MaxInvocations
    /\ args' = a
    /\ blockhash' = 0
    /\ attempts' = 0
    /\ sent' = FALSE
    /\ pc' = IF a.keys_private THEN "cli_genesis" ELSE "idle"
    /\ outcome' = IF a.keys_private THEN "none" ELSE "refused"
    /\ UNCHANGED <<plan, cluster>>

\* rpc_call: a time-out, a redirect, an error status, a body that is too
\* long or not JSON, or an error object ends the run at any await.
RpcFails ==
    /\ pc \in Awaits
    /\ End("rpc")
    /\ UNCHANGED sent

\* run_send reads the genesis hash for its own check and summary, and wants
\* --yes before it calls the SDK.
CliGenesis ==
    /\ pc = "cli_genesis"
    /\ IF MainnetBlocked \/ ~args.yes
         THEN End("refused") /\ UNCHANGED sent
         ELSE Proceed("genesis")

\* simulate_and_send_plan reads it once more.
SdkGenesis ==
    /\ pc = "genesis"
    /\ IF MainnetBlocked
         THEN End("invalid_input") /\ UNCHANGED sent
         ELSE Proceed("clock")

\* get_unix_timestamp: getSlot, then the block time of that slot, which the
\* node may not have; the slot is a finalized one, so the time may be past.
Clock ==
    /\ pc = "clock"
    /\ \E t \in 0 .. now :
        IF ValidPlan(plan, t)
          THEN Proceed("blockhash")
          ELSE End("invalid_input") /\ UNCHANGED sent

LatestBlockhash ==
    /\ pc = "blockhash"
    /\ \E b \in {b \in 0 .. now : now - b <= ClusterLag} :
        IF TrySign
          THEN /\ blockhash' = b
               /\ pc' = "simulate"
               /\ UNCHANGED <<plan, args, attempts, sent, outcome, ended,
                              cluster>>
          ELSE End("invalid_input") /\ UNCHANGED sent

\* The simulation runs on the node's confirmed state; a transaction that
\* has landed, or whose blockhash is too old, is refused there too.
Simulatable(b) ==
    /\ now - b <= BlockhashAge
    /\ level[b] # "confirmed"

Simulate ==
    /\ pc = "simulate"
    /\ \/ Simulatable(blockhash) /\ Proceed("send")
       \/ End("rpc") /\ UNCHANGED sent

\* send_transaction: the node's preflight may refuse it (RpcFails), and the
\* answer may get lost after the node has passed the transaction on.  With
\* maxRetries 0 the node does not repeat it.
Broadcast ==
    level' = [level EXCEPT ![blockhash] = IF @ = "unsent" THEN "pending"
                                                          ELSE @]

Send ==
    /\ pc = "send"
    /\ Broadcast
    /\ sent' = TRUE
    /\ \/ /\ pc' = "confirm" /\ attempts' = 0 /\ UNCHANGED outcome
       \/ /\ pc' = "idle" /\ outcome' = "rpc" /\ UNCHANGED attempts
    /\ UNCHANGED <<now, result, plan, args, blockhash, ended>>

\* Mutant: the plan is signed and sent again instead.
GiveUp_Resends ==
    /\ pc = "confirm"
    /\ attempts >= MaxAttempts
    /\ Proceed("blockhash")

\* The loop of confirm_signature stops after max_attempts polls.
GiveUp ==
    /\ pc = "confirm"
    /\ attempts >= MaxAttempts
    /\ End("rpc")
    /\ UNCHANGED sent

\* It also stops at the policy's deadline, which may pass before any poll.
Deadline ==
    /\ pc = "confirm"
    /\ End("rpc")
    /\ UNCHANGED sent

\* Mutant: any status without an error is success.
Accepted_AnyLevel(b) ==
    level[b] \in {"processed", "confirmed"} /\ result[b] = "ok"

\* A result that ends the poll with Ok.
Accepted(b) == level[b] = "confirmed" /\ result[b] = "ok"

\* Mutant: the polls are not counted.
CountAttempt_Never == UNCHANGED attempts

CountAttempt == attempts' = attempts + 1

\* The error confirm_signature returns for a status that carries one.
ExecutionError == "rpc"

Failed(b) == level[b] \in {"processed", "confirmed"} /\ result[b] = "err"

\* One getSignatureStatuses: an execution error is reported at whatever
\* level it is seen, success only from confirmed on.  The node may be behind
\* and know nothing of the transaction yet.
Poll ==
    /\ pc = "confirm"
    /\ attempts < MaxAttempts
    /\ CountAttempt
    /\ \/ UNCHANGED <<pc, outcome>>
       \/ /\ Failed(blockhash)
          /\ pc' = "idle" /\ outcome' = ExecutionError
       \/ /\ Accepted(blockhash)
          /\ pc' = "idle" /\ outcome' = "ok"
    /\ UNCHANGED <<plan, args, blockhash, sent, ended, cluster>>

-----------------------------------------------------------------------------
(***************************************************************************)
(* The cluster.                                                             *)
(***************************************************************************)

Tick == now < MaxTime /\ now' = now + 1 /\ UNCHANGED <<level, result, client>>

\* A leader executes a pending transaction while its blockhash is accepted.
Land(b, r) ==
    /\ level[b] = "pending"
    /\ now - b <= BlockhashAge
    /\ level' = [level EXCEPT ![b] = "processed"]
    /\ result' = [result EXCEPT ![b] = r]
    /\ UNCHANGED <<now, client>>

Confirm(b) ==
    /\ level[b] = "processed"
    /\ level' = [level EXCEPT ![b] = "confirmed"]
    /\ UNCHANGED <<now, result, client>>

\* The fork that executed it is abandoned.
RollBack(b) ==
    /\ level[b] = "processed"
    /\ level' = [level EXCEPT ![b] = "pending"]
    /\ result' = [result EXCEPT ![b] = "none"]
    /\ UNCHANGED <<now, client>>

\* What the client does with an answer.
Answered ==
    \/ CliGenesis \/ SdkGenesis \/ Clock \/ LatestBlockhash
    \/ Simulate \/ Send \/ Poll \/ GiveUp

Next ==
    \/ \E a \in Arguments : Start(a)
    \/ Answered \/ RpcFails \/ Deadline
    \/ Tick
    \/ \E b \in Times, r \in {"ok", "err"} : Land(b, r)
    \/ \E b \in Times : Confirm(b) \/ RollBack(b)

Spec == Init /\ [][Next]_vars

\* A call returns within its 10 second time-out: with an answer, unless
\* RpcFails.  The deadline is not needed for a run to end, and nothing is
\* assumed of the cluster or of the user.
FairSpec == Spec /\ WF_vars(Answered)

-----------------------------------------------------------------------------
Applied(b) == level[b] = "confirmed" /\ result[b] = "ok"

\* A run that reports success has a transaction that succeeded and that no
\* fork can take back (confirm_signature).
OkMeansApplied == outcome = "ok" => sent /\ Applied(blockhash)

\* What a run has to establish before it may send: the user's consent, a plan
\* that ends with an instruction of the program and has no other but signature
\* checks, and exactly the keys that the message names.
Consented == args.keys_private /\ args.yes /\ ~MainnetBlocked
OwnPlan(p) ==
    /\ p.program_id = Program /\ p.instructions # << >>
    /\ p.instructions[Len(p.instructions)].program_id = Program
    /\ \A i \in DOMAIN p.instructions : p.instructions[i].program_id \in {Program, "ed25519"}
ExactKeys == PresentSigners = {Payer} \cup MetaSigners(plan)

\* A transaction reaches the cluster only with the user's consent, from a plan
\* of the program's own and with exactly the keys that its message names,
\* although these are checked at four awaits, and what ends as refused or as
\* InvalidInput has sent nothing, so that the user may correct it and try again
\* at no risk (simulate_and_send_plan).  Expiry is no part of it: it is checked
\* against the node's clock, which may be behind.
SentIsChecked ==
    /\ sent => Consented /\ OwnPlan(plan) /\ ExactKeys
    /\ outcome \in {"refused", "invalid_input"} => ~sent
    /\ \A i \in DOMAIN ended :
        ended[i].outcome \in {"refused", "invalid_input"} => ~ended[i].sent

\* The plan is executed twice only when the user ran the command again after
\* a run that had sent its transaction and then ended with an Rpc error: no
\* run by itself ever signs and sends a second transaction, and a run that
\* gave up on the confirmation is the only reason for a duplicate.
DuplicateOnlyAfterRpcError ==
    \A b, c \in Times :
        b # c /\ level[b] # "unsent" /\ level[c] # "unsent" =>
            \E i \in DOMAIN ended :
                /\ ended[i].sent /\ ended[i].outcome = "rpc"
                /\ ended[i].blockhash \in {b, c}

\* Every run of the command ends, whatever the node and the cluster do: the
\* poll is bounded (confirm_signature).
SendEnds == (pc \in Awaits) ~> (pc = "idle")

\* Nothing is sent to mainnet unless the user allowed it.  MainnetGenesis is
\* the genesis hash of mainnet-beta.
MainnetGenesis == "5eykt4UsFv8P8NJdTREpY1vzqKqZKvdpKuc147dw2N9d"
MainnetNeedsConsent == Genesis = MainnetGenesis /\ sent => args.allow_mainnet
=============================================================================
