--------------------------- MODULE PlannedExchange ---------------------------
(***************************************************************************)
(* The escrow program together with the clients that end its jobs: for each *)
(* job someone keeps asking the gateway or the MCP server for a timeout     *)
(* plan (build_timeout_plan in host/crates/agentbond-app/src/services.rs),  *)
(* signs what comes back and sends it.  The plan is made from three reads   *)
(* of the chain, one await each: the job, the clock and, for a challenged   *)
(* job, the challenge.  Everything may change between them, and before the  *)
(* transaction arrives; a read of an older, finalized state is a read made  *)
(* earlier.                                                                 *)
(*                                                                          *)
(* The program itself takes instructions from any other client too, in any  *)
(* order.                                                                   *)
(***************************************************************************)
EXTENDS AgentBondExchange, SdkPlans

VARIABLE request  \* per job: the timeout request that is under way

pvars == <<vars, request>>

\* A request that has nothing yet, or has ended.
NoRequest == [pc |-> "idle", job |-> NoJob, now |-> 0,
              challenge |-> NoChallenge, plan |-> "none"]

RequestRecord ==
    [pc : {"idle", "clock", "challenge", "built"}, job : JobRecord, now : Time,
     challenge : ChallengeRecord, plan : {"none"} \cup DOMAIN TimeoutPlans]

PlannedInit == Init /\ request = [k \in JobKeys |-> NoRequest]

Advance(k, r) == request' = [request EXCEPT ![k] = r] /\ UNCHANGED vars

\* inspect_job; a job that does not exist is not found and nothing follows.
InspectJob(k) ==
    /\ request[k].pc = "idle"
    /\ job[k].state # "None"
    /\ Advance(k, [request[k] EXCEPT !.pc = "clock", !.job = job[k]])

\* Mutant: the refund is planned at the work deadline already.
TimeoutPlanFor_AtDeadline(j, t) ==
    CASE j.state = "Created" /\ t >= j.deadline.fund -> "expire_unfunded"
      [] j.state = "Funded" /\ t >= j.deadline.accept -> "refund"
      [] j.state = "Accepted" /\ t >= j.deadline.work -> "refund"
      [] j.state = "Submitted" /\ t >= j.deadline.auto -> "settle"
      [] OTHER -> "none"


\* The match on the job's state, for a job that is not challenged.
TimeoutPlanFor(j, t) ==
    CASE j.state = "Created" /\ t >= j.deadline.fund -> "expire_unfunded"
      [] j.state = "Funded" /\ t >= j.deadline.accept -> "refund"
      [] j.state = "Accepted" /\ t > j.deadline.work -> "refund"
      [] j.state = "Submitted" /\ t >= j.deadline.auto -> "settle"
      [] OTHER -> "none"

\* A terminal job, or one that is not eligible yet, is refused.
ReadClock(k) ==
    LET plan == TimeoutPlanFor(request[k].job, now) IN
    /\ request[k].pc = "clock"
    /\ Advance(k, IF request[k].job.state = "Challenged"
                    THEN [request[k] EXCEPT !.pc = "challenge", !.now = now]
                  ELSE IF plan = "none" THEN NoRequest
                  ELSE [request[k] EXCEPT !.pc = "built", !.plan = plan])

\* The challenge may be gone, or not have run out by the time read before.
ReadChallenge(k) ==
    /\ request[k].pc = "challenge"
    /\ Advance(k, IF /\ challenge[k].status = "open"
                     /\ request[k].now >= challenge[k].deadline
                    THEN [request[k] EXCEPT !.pc = "built", !.now = 0,
                                            !.challenge = challenge[k],
                                            !.plan = "settle_challenge"]
                    ELSE NoRequest)

\* A read fails, the answer is lost, or the plan is never sent or expires
\* with its blockhash: the client asks again.
Abandon(k) == request[k].pc # "idle" /\ Advance(k, NoRequest)

\* The program takes the challenge account from its place in the plan.
HasChallenge(k) ==
    job[k].state = "Challenged" => request[k].plan = "settle_challenge"

\* The program executes the plan, or answers its simulation with an error.
Executable(k) ==
    /\ request[k].plan \in Understood
    /\ escrow[k] >= job[k].amount \/ job[k].state = "Created"
    /\ CanUnlock(k)
    /\ CASE request[k].plan = "expire_unfunded" ->
              job[k].state = "Created" /\ now >= job[k].deadline.fund
         [] request[k].plan = "refund" -> CanTimeoutRefund(k, FALSE)
         [] OTHER -> CanTimeoutSettle(k) /\ HasChallenge(k)

Execute(k) ==
    /\ request[k].pc = "built"
    /\ Executable(k)
    /\ CASE request[k].plan = "expire_unfunded" -> ExpireUnfunded(k)
         [] request[k].plan = "refund" -> ResolveTimeoutRefund(k)
         [] OTHER -> ResolveTimeoutSettle(k)
    /\ request' = [request EXCEPT ![k] = NoRequest]

Rejected(k) ==
    /\ request[k].pc = "built"
    /\ ~Executable(k)
    /\ Advance(k, NoRequest)

ClientNext ==
    \E k \in JobKeys :
        \/ InspectJob(k) \/ ReadClock(k) \/ ReadChallenge(k)
        \/ Abandon(k) \/ Execute(k) \/ Rejected(k)

PlannedNext == ClientNext \/ (Next /\ UNCHANGED request)

-----------------------------------------------------------------------------
(***************************************************************************)
(* Timeouts need no signature, so any party may trigger them: it is assumed *)
(* that someone keeps asking, that not every transaction is lost, and that  *)
(* the clock advances.  Nothing is assumed of the job's buyer, its provider *)
(* or the admin, who may pause the protocol at any time.                    *)
(***************************************************************************)
PlannedFairness ==
    /\ WF_pvars(Tick /\ UNCHANGED request)
    /\ \A k \in JobKeys :
        /\ WF_pvars(InspectJob(k))
        /\ SF_pvars(ReadClock(k))
        /\ SF_pvars(ReadChallenge(k))
        /\ SF_pvars(Execute(k))
        /\ WF_pvars(Rejected(k))

PlannedSpec == PlannedInit /\ [][PlannedNext]_pvars /\ PlannedFairness

\* A plan build_timeout_plan returns is one the program executes, now or any
\* time later, as long as the accounts it was made from are as they were: the
\* two sides agree on every deadline, to the second, and on the accounts,
\* although the plan is made from reads of different moments.
PlanFits ==
    \A k \in JobKeys :
        /\ request[k].pc = "built"
        /\ job[k] = request[k].job
        /\ request[k].plan = "settle_challenge" => challenge[k] = request[k].challenge
        => Executable(k)

-----------------------------------------------------------------------------
(***************************************************************************)
(* The arguments the plan_* functions accept.  Anyone who reads the chain   *)
(* for the clock gets a time that is past.                                  *)
(***************************************************************************)

PlansConfig(minBond, duration) == minBond # 0 /\ duration > 0
PlansAmount(amount) == amount # 0

PlansJob(amount, requestHash, d, t) ==
    /\ PlansAmount(amount)
    /\ t < d.fund /\ d.fund < d.accept /\ d.accept < d.work /\ d.work < d.auto
    /\ requestHash # ZeroHash

PlansReceipt(k, receipt, t) ==
    /\ receipt.window.created <= receipt.window.expires
    /\ receipt.job = k
    /\ t <= receipt.window.expires

\* Whatever the program executes, some client of the SDK can have planned: the
\* SDK refuses no argument the program takes, even with an older clock, and
\* the program finds in the plan every account and field at its place.
PlanForEveryInstruction ==
    [][/\ \A s \in Parties :
            /\ \A m \in MinBonds, d \in Durations : InitializeConfig(s, m, d) =>
                  PlansConfig(m, d) /\ "initialize_config" \in Understood
            /\ \A p \in BOOLEAN : SetPaused(s, p) => "set_paused" \in Understood
       /\ \A p \in Providers :
            /\ RegisterProvider(p) => "register_provider" \in Understood
            /\ \A key \in Keys :
                 /\ AddExecutionKey(p, key) => "add_execution_key" \in Understood
                 /\ RevokeExecutionKey(p, key) => "revoke_execution_key" \in Understood
            /\ \A a \in Amounts :
                 /\ DepositBond(p, a) => PlansAmount(a) /\ "deposit_bond" \in Understood
                 /\ WithdrawBond(p, a) => PlansAmount(a) /\ "withdraw_bond" \in Understood
       /\ \A k \in JobKeys :
            /\ \A a \in Amounts, h \in Requests \cup {ZeroHash}, d \in Schedules :
                 CreateJob(k, a, h, d) =>
                    /\ \A t \in 0 .. now : PlansJob(a, h, d, t)
                    /\ "create_job" \in Understood
            /\ FundJob(k) => "fund_job" \in Understood
            /\ AcceptJob(k) => "accept_job" \in Understood
            /\ \A r \in Receipts, key \in Keys : SubmitReceipt(k, r, key) =>
                  /\ \A t \in 0 .. now : PlansReceipt(k, r, t)
                  /\ "submit_receipt" \in Understood
            /\ AcceptWork(k) => "accept_work" \in Understood
            /\ ChallengeWork(k) => "challenge_work" \in Understood
            /\ ResolveTimeoutSettle(k) =>
                  {"settle", "settle_challenge"} \subseteq Understood
            /\ ResolveTimeoutRefund(k) => "refund" \in Understood
            /\ ExpireUnaccepted(k) => "expire_unaccepted" \in Understood
            /\ ExpireUnfunded(k) => "expire_unfunded" \in Understood
            /\ \A s \in Parties : SlashBond(s, k) => "slash_bond" \in Understood
            /\ CloseJob(k, TRUE) => "close_job_escrow" \in Understood
            /\ CloseJob(k, FALSE) => "close_job" \in Understood]_vars
==============================================================================
