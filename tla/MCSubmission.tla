----------------------------- MODULE MCSubmission -----------------------------
(* Small instances of the submission client for TLC. *)
EXTENDS Submission, TLC

Ix(program, signers) == [program_id |-> program, signers |-> signers]
Receipt == Ix("ed25519", {})
Job(signers) == Ix("agentbond", signers)
File(program, expires, ixs, required) ==
    [program_id |-> program, expires_at |-> expires, instructions |-> ixs,
     required_signers |-> required]

\* Two plans that can be sent, one of them for a limited time, and four that
\* validate_plan_instructions refuses for a reason each.
PlanFiles ==
    {File("agentbond", 0, <<Job({"payer", "buyer"})>>, {"buyer"}),
     File("agentbond", 1, <<Receipt, Job({})>>, {}),
     File("agentbond", 0, <<Job({"payer"}), Receipt>>, {"payer"}),
     File("agentbond", 0, <<Receipt, Ix("system", {"payer"})>>, {"payer"}),
     File("agentbond", 0, <<Job({"payer"})>>, {"buyer"}),
     File("other", 0, <<Ix("other", {"payer"})>>, {"payer"})}

Line(yes, allow, private, signers) ==
    [yes |-> yes, allow_mainnet |-> allow, keys_private |-> private,
     signers |-> signers]
CommandLines ==
    {Line(TRUE, FALSE, TRUE, {"buyer"}), Line(TRUE, TRUE, TRUE, {}),
     Line(FALSE, TRUE, TRUE, {}), Line(TRUE, TRUE, FALSE, {"buyer"})}
===============================================================================
