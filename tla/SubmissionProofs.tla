-------------------------- MODULE SubmissionProofs --------------------------
(***************************************************************************)
(* Proofs about `agentbond send`, for any plan, any command lines and any   *)
(* number of runs of the command.                                           *)
(***************************************************************************)
EXTENDS Submission, TLAPS

Types ==
    /\ now \in Times
    /\ level \in [Times -> Levels]
    /\ result \in [Times -> {"none", "ok", "err"}]
    /\ pc \in Awaits \cup {"idle"}
    /\ blockhash \in Times
    /\ sent \in BOOLEAN
    /\ outcome \in Outcomes
    /\ ended \in Seq(EndedRun)

\* The current run: it has no outcome before it ends, its transaction is out
\* exactly from the answer to sendTransaction on, and a run that ended with
\* its transaction out reported success or an Rpc error.
RunInv ==
    /\ pc # "idle" => outcome = "none"
    /\ pc = "confirm" => sent
    /\ pc \notin {"confirm", "idle"} => ~sent
    /\ sent /\ pc = "idle" => outcome \in {"ok", "rpc"}

\* Run i ended with an Rpc error after its transaction for b had gone out.
Excuses(i, b) == ended[i].sent /\ ended[i].outcome = "rpc" /\ ended[i].blockhash = b

\* Every transaction the cluster has is the current run's or that of an
\* earlier run that ended with an Rpc error.
SentInv ==
    \A b \in Times : level[b] # "unsent" =>
        (sent /\ blockhash = b) \/ \E i \in DOMAIN ended : Excuses(i, b)

\* What ended as refused or as invalid input has sent nothing.
RefusedUnsent ==
    /\ outcome \in {"refused", "invalid_input"} => ~sent
    /\ \A i \in DOMAIN ended :
        ended[i].outcome \in {"refused", "invalid_input"} => ~ended[i].sent

SendInv == Types /\ RunInv /\ SentInv /\ OkMeansApplied /\ RefusedUnsent

-----------------------------------------------------------------------------
\* A run that returns.
LEMMA EndStep ==
    ASSUME SendInv, NEW o \in {"refused", "invalid_input", "rpc"}, End(o), UNCHANGED sent,
           pc # "idle", o = "rpc" \/ pc # "confirm"
    PROVE  SendInv'
<1>1. /\ pc' = "idle" /\ outcome' = o /\ sent' = sent
      /\ blockhash' = blockhash /\ ended' = ended
      /\ now' = now /\ level' = level /\ result' = result
  BY Zenon DEF End, cluster
<1>2. o \in Outcomes /\ o # "ok"
  BY DEF Outcomes
<1>3. Types'
  BY <1>1, <1>2, Zenon DEF SendInv, Types
<1>4. o # "rpc" => ~sent
  BY Zenon DEF SendInv, RunInv
<1>5. RunInv'
  <2>1. sent' => outcome' = "rpc"
    BY <1>1, <1>4
  <2>2. pc' = "idle"
    BY <1>1, Zenon
  <2> QED BY <2>1, <2>2 DEF RunInv
<1>6. SentInv'
  <2>1. \A b \in Times : level[b] # "unsent" =>
           (sent /\ blockhash = b) \/ \E i \in DOMAIN ended : Excuses(i, b)
    BY Zenon DEF SendInv, SentInv
  <2>2. \A b \in Times : (sent /\ blockhash = b)' <=> (sent /\ blockhash = b)
    BY <1>1
  <2>3. \A i, b : Excuses(i, b)' <=> Excuses(i, b)
    BY <1>1, Zenon DEF Excuses
  <2> QED BY <1>1, <2>1, <2>2, <2>3, Zenon DEF SentInv
<1>7. OkMeansApplied'
  BY <1>1, <1>2, Zenon DEF OkMeansApplied
<1>8. RefusedUnsent'
  <2>1. o \in {"refused", "invalid_input"} => ~sent'
    BY <1>1, <1>4
  <2>2. \A i \in DOMAIN ended :
           ended[i].outcome \in {"refused", "invalid_input"} => ~ended[i].sent
    BY Zenon DEF SendInv, RefusedUnsent
  <2> QED BY <1>1, <2>1, <2>2, Zenon DEF RefusedUnsent
<1> QED BY <1>3, <1>5, <1>6, <1>7, <1>8, Zenon DEF SendInv

\* A run that goes on to another await before the transaction is out.
LEMMA GoOn ==
    ASSUME SendInv, pc \notin {"idle", "confirm"},
           pc' \in Awaits \ {"confirm"}, blockhash' \in Times,
           UNCHANGED <<sent, outcome, ended, now, level, result>>
    PROVE  SendInv'
<1>1. pc' # "idle" /\ pc' # "confirm"
  BY DEF Awaits
<1>2. ~sent /\ outcome = "none"
  BY Zenon DEF SendInv, RunInv
<1>3. Types'
  BY Zenon DEF SendInv, Types
<1>4. RunInv'
  BY <1>1, <1>2, Zenon DEF RunInv
<1>5. SentInv'
  BY <1>2, Zenon DEF SendInv, SentInv, Excuses
<1>6. OkMeansApplied'
  BY <1>2, Zenon DEF OkMeansApplied
<1>7. RefusedUnsent'
  BY Zenon DEF SendInv, RefusedUnsent
<1> QED BY <1>3, <1>4, <1>5, <1>6, <1>7, Zenon DEF SendInv

\* A check that passes, before the transaction is out.
LEMMA ProceedStep ==
    ASSUME SendInv, pc \notin {"idle", "confirm"}, NEW step \in Awaits \ {"confirm"},
           Proceed(step)
    PROVE  SendInv'
<1>1. pc' \in Awaits \ {"confirm"} /\ UNCHANGED <<sent, outcome, ended, now, level, result>>
  BY Zenon DEF Proceed, cluster
<1>2. blockhash' \in Times
  BY Zenon DEF Proceed, SendInv, Types
<1> QED BY <1>1, <1>2, GoOn

\* The earlier runs after one more has been added to them.
LEMMA Appended ==
    ASSUME NEW q \in Seq(EndedRun), NEW e \in EndedRun
    PROVE  /\ Append(q, e) \in Seq(EndedRun)
           /\ DOMAIN Append(q, e) = DOMAIN q \cup {Len(q) + 1}
           /\ \A i \in DOMAIN q : Append(q, e)[i] = q[i]
           /\ Append(q, e)[Len(q) + 1] = e
<1> DEFINE S == EndedRun
<1> HIDE DEF S
<1>1. q \in Seq(S) /\ e \in S
  BY DEF S
<1>2. /\ Append(q, e) \in Seq(S)
      /\ DOMAIN Append(q, e) = DOMAIN q \cup {Len(q) + 1}
      /\ \A i \in DOMAIN q : Append(q, e)[i] = q[i]
      /\ Append(q, e)[Len(q) + 1] = e
  BY <1>1
<1> QED BY <1>2 DEF S

\* The user runs the command, perhaps again.
LEMMA StartStep ==
    ASSUME SendInv, NEW a \in Arguments, Start(a)
    PROVE  SendInv'
<1> DEFINE e == [blockhash |-> blockhash, sent |-> sent, outcome |-> outcome]
<1>1. /\ pc = "idle" /\ outcome # "ok" /\ sent' = FALSE /\ blockhash' = 0
      /\ pc' \in {"cli_genesis", "idle"} /\ outcome' \in {"none", "refused"}
      /\ pc' # "idle" => outcome' = "none"
      /\ UNCHANGED <<now, level, result>>
  BY Zenon DEF Start, cluster
<1>2. ended' = IF outcome = "none" THEN ended ELSE Append(ended, e)
  BY Zenon DEF Start
<1>3. e \in EndedRun
  BY Zenon DEF EndedRun, SendInv, Types
<1>4. /\ e.blockhash = blockhash /\ e.outcome = outcome
      /\ e.sent = sent
  BY Zenon
<1> HIDE DEF e
<1>5. outcome = "none" => ~sent
  BY <1>1, Zenon DEF SendInv, RunInv
<1>6. sent => outcome = "rpc"
  BY <1>1, Zenon DEF SendInv, RunInv
<1>7. ended \in Seq(EndedRun)
  BY Zenon DEF SendInv, Types
<1>8. Types'
  <2>1. ended' \in Seq(EndedRun)
    BY <1>2, <1>3, <1>7, Appended, Zenon
  <2>2. pc' \in Awaits \cup {"idle"} /\ outcome' \in Outcomes
    BY <1>1 DEF Awaits, Outcomes
  <2>3. blockhash' \in Times
    BY <1>1, SubmissionAssumption DEF Times
  <2>4. (sent \in BOOLEAN)'
    BY <1>1, Zenon
  <2> QED BY <1>1, <2>1, <2>2, <2>3, <2>4, Zenon DEF SendInv, Types
<1>9. RunInv'
  BY <1>1 DEF RunInv
<1>10. SentInv'
  <2>1. SUFFICES ASSUME NEW b \in Times, level[b] # "unsent"
                 PROVE  \E i \in DOMAIN ended' : Excuses(i, b)'
    BY <1>1, Zenon DEF SentInv
  <2>2. CASE sent /\ blockhash = b
    <3>1. ended' = Append(ended, e)
      BY <1>2, <1>5, <2>2, Zenon
    <3>2. Len(ended) + 1 \in DOMAIN ended' /\ ended'[Len(ended) + 1] = e
      BY <1>3, <1>7, <3>1, Appended, Zenon
    <3>3. e.sent /\ e.outcome = "rpc" /\ e.blockhash = b
      BY <1>4, <1>6, <2>2, Zenon
    <3>4. PICK n \in DOMAIN ended' : ended'[n] = e
      BY <3>2
    <3>5. Excuses(n, b)'
      BY <3>3, <3>4, Zenon DEF Excuses
    <3> QED BY <3>4, <3>5, Zenon
  <2>3. CASE \E i \in DOMAIN ended : Excuses(i, b)
    <3>1. PICK i \in DOMAIN ended : Excuses(i, b)
      BY <2>3
    <3>2. i \in DOMAIN ended' /\ ended'[i] = ended[i]
      BY <1>2, <1>3, <1>7, Appended, Zenon
    <3>3. Excuses(i, b)'
      BY <3>1, <3>2, Zenon DEF Excuses
    <3> QED BY <3>2, <3>3, Zenon
  <2> QED BY <2>1, <2>2, <2>3, Zenon DEF SendInv, SentInv
<1>11. OkMeansApplied'
  <2>1. outcome' # "ok"
    BY <1>1
  <2> QED BY <2>1, Zenon DEF OkMeansApplied
<1>12. RefusedUnsent'
  <2>1. SUFFICES ASSUME NEW i \in DOMAIN ended', ended'[i].outcome \in {"refused", "invalid_input"}
                 PROVE  ~ended'[i].sent
    BY <1>1, Zenon DEF RefusedUnsent
  <2>2. CASE i \in DOMAIN ended
    <3>1. ended'[i] = ended[i]
      BY <1>2, <1>3, <1>7, <2>2, Appended, Zenon
    <3> QED BY <2>1, <2>2, <3>1, Zenon DEF SendInv, RefusedUnsent
  <2>3. CASE i \notin DOMAIN ended
    <3> DEFINE n == Len(ended) + 1
    <3>2. outcome # "none"
      BY <1>2, <2>1, <2>3, Zenon
    <3>3. ended' = Append(ended, e)
      BY <1>2, <3>2, Zenon
    <3>4. DOMAIN ended' = DOMAIN ended \cup {n} /\ ended'[n] = e
      BY <1>3, <1>7, <3>3, Appended, Zenon
    <3> HIDE DEF n
    <3>1. ended'[i] = e
      BY <2>1, <2>3, <3>4, Zenon
    <3> QED BY <1>4, <2>1, <3>1, Zenon DEF SendInv, RefusedUnsent
  <2> QED BY <2>2, <2>3
<1> QED BY <1>8, <1>9, <1>10, <1>11, <1>12, Zenon DEF SendInv

\* The transaction goes out, whether or not the answer arrives.
LEMMA SendStep ==
    ASSUME SendInv, Send
    PROVE  SendInv'
<1>1. /\ pc = "send" /\ sent' = TRUE
      /\ level' = [level EXCEPT ![blockhash] = IF level[blockhash] = "unsent" THEN "pending"
                                               ELSE level[blockhash]]
      /\ \/ pc' = "confirm" /\ outcome' = outcome
         \/ pc' = "idle" /\ outcome' = "rpc"
      /\ UNCHANGED <<now, result, blockhash, ended>>
  BY Zenon DEF Send, Broadcast
<1>2. /\ level' \in [Times -> Levels]
      /\ \A b \in Times : b # blockhash => level'[b] = level[b]
  BY <1>1 DEF SendInv, Types, Levels
<1>3. ~sent /\ outcome = "none"
  BY <1>1, Zenon DEF SendInv, RunInv
<1>4. Types'
  <2>1. pc' \in Awaits \cup {"idle"} /\ outcome' \in Outcomes
    BY <1>1, <1>3 DEF Awaits, Outcomes
  <2>2. (sent \in BOOLEAN)'
    BY <1>1, Zenon
  <2> QED BY <1>1, <1>2, <2>1, <2>2, Zenon DEF SendInv, Types
<1>5. RunInv'
  BY <1>1, <1>3, Zenon DEF RunInv
<1>6. SentInv'
  BY <1>1, <1>2, <1>3, Zenon DEF SendInv, SentInv, Excuses
<1>7. OkMeansApplied'
  BY <1>1, <1>3, Zenon DEF OkMeansApplied
<1>8. RefusedUnsent'
  BY <1>1, <1>3, Zenon DEF SendInv, RefusedUnsent
<1> QED BY <1>4, <1>5, <1>6, <1>7, <1>8, Zenon DEF SendInv

\* One poll of the confirmation loop.
LEMMA PollStep ==
    ASSUME SendInv, Poll
    PROVE  SendInv'
<1>1. /\ pc = "confirm"
      /\ \/ UNCHANGED <<pc, outcome>>
         \/ pc' = "idle" /\ outcome' = "rpc"
         \/ Accepted(blockhash) /\ pc' = "idle" /\ outcome' = "ok"
      /\ UNCHANGED <<blockhash, sent, ended, now, level, result>>
  BY Zenon DEF Poll, ExecutionError, cluster
<1>2. sent /\ outcome = "none"
  BY <1>1, Zenon DEF SendInv, RunInv
<1>3. Types'
  <2>1. pc' \in Awaits \cup {"idle"} /\ outcome' \in Outcomes
    BY <1>1 DEF Awaits, Outcomes, SendInv, Types
  <2> QED BY <1>1, <2>1, Zenon DEF SendInv, Types
<1>4. RunInv'
  BY <1>1, <1>2, Zenon DEF RunInv
<1>5. SentInv'
  BY <1>1, Zenon DEF SendInv, SentInv, Excuses
<1>6. OkMeansApplied'
  BY <1>1, <1>2, Zenon DEF OkMeansApplied, Accepted, Applied
<1>7. RefusedUnsent'
  BY <1>1, <1>2, Zenon DEF SendInv, RefusedUnsent
<1> QED BY <1>3, <1>4, <1>5, <1>6, <1>7, Zenon DEF SendInv

\* The cluster sends nothing by itself and takes nothing confirmed back.
LEMMA ClusterStep ==
    ASSUME SendInv, UNCHANGED client, now' \in Times,
           level' \in [Times -> Levels], result' \in [Times -> {"none", "ok", "err"}],
           \A b \in Times : level'[b] # "unsent" => level[b] # "unsent",
           \A b \in Times : level[b] = "confirmed" =>
               level'[b] = "confirmed" /\ result'[b] = result[b]
    PROVE  SendInv'
<1>1. UNCHANGED <<pc, blockhash, sent, outcome, ended>>
  BY Zenon DEF client
<1>2. Types'
  BY <1>1, Zenon DEF SendInv, Types
<1>3. RunInv'
  BY <1>1, Zenon DEF SendInv, RunInv
<1>4. SentInv'
  BY <1>1, Zenon DEF SendInv, SentInv, Excuses
<1>5. OkMeansApplied'
  BY <1>1, Zenon DEF SendInv, Types, OkMeansApplied, Applied
<1>6. RefusedUnsent'
  BY <1>1, Zenon DEF SendInv, RefusedUnsent
<1> QED BY <1>2, <1>3, <1>4, <1>5, <1>6, Zenon DEF SendInv

\* The cluster executes, confirms or rolls back a transaction.
LEMMA TransactionStep ==
    ASSUME SendInv, NEW b \in Times,
           (\E r \in {"ok", "err"} : Land(b, r)) \/ Confirm(b) \/ RollBack(b)
    PROVE  SendInv'
<1>1. UNCHANGED client /\ now' = now
  BY Zenon DEF Land, Confirm, RollBack
<1>2. now' \in Times
  BY <1>1, Zenon DEF SendInv, Types
<1>3. PICK l \in Levels, r \in {"none", "ok", "err"} :
         /\ level[b] \notin {"unsent", "confirmed"}
         /\ level' = [level EXCEPT ![b] = l]
         /\ result' = result \/ result' = [result EXCEPT ![b] = r]
  BY Zenon DEF Land, Confirm, RollBack, Levels
<1>4. /\ level' \in [Times -> Levels] /\ result' \in [Times -> {"none", "ok", "err"}]
      /\ \A c \in Times : c # b => level'[c] = level[c] /\ result'[c] = result[c]
  BY <1>3 DEF SendInv, Types
<1>5. /\ \A c \in Times : level'[c] # "unsent" => level[c] # "unsent"
      /\ \A c \in Times : level[c] = "confirmed" =>
             level'[c] = "confirmed" /\ result'[c] = result[c]
  BY <1>3, <1>4
<1> QED BY <1>1, <1>2, <1>4, <1>5, ClusterStep, Zenon

\* Blocks go by.
LEMMA TickStep ==
    ASSUME SendInv, Tick
    PROVE  SendInv'
<1>1. UNCHANGED <<level, result>> /\ UNCHANGED client
  BY Zenon DEF Tick
<1>2. now' \in Times
  BY SubmissionAssumption DEF Tick, Times, SendInv, Types
<1>3. level \in [Times -> Levels] /\ result \in [Times -> {"none", "ok", "err"}]
  BY Zenon DEF SendInv, Types
<1> QED BY <1>1, <1>2, <1>3, ClusterStep, Zenon

\* The names of the awaits differ.
LEMMA AwaitFacts ==
    /\ \A a \in Awaits : a # "idle"
    /\ {"genesis", "clock", "blockhash", "simulate", "send"} \subseteq Awaits \ {"confirm"}
BY DEF Awaits

\* The client goes on after an answer.
LEMMA AnsweredStep ==
    ASSUME SendInv, Answered
    PROVE  SendInv'
<1> DEFINE Early == pc \notin {"idle", "confirm"}
<1>1. CASE CliGenesis
  <2>1. Early
    BY <1>1 DEF CliGenesis
  <2>2. (End("refused") /\ UNCHANGED sent) \/ Proceed("genesis")
    BY <1>1, Zenon DEF CliGenesis
  <2> QED BY <2>1, <2>2, EndStep, ProceedStep, AwaitFacts, Zenon
<1>2. CASE SdkGenesis
  <2>1. Early
    BY <1>2 DEF SdkGenesis
  <2>2. (End("invalid_input") /\ UNCHANGED sent) \/ Proceed("clock")
    BY <1>2, Zenon DEF SdkGenesis
  <2> QED BY <2>1, <2>2, EndStep, ProceedStep, AwaitFacts, Zenon
<1>3. CASE Clock
  <2>1. Early
    BY <1>3 DEF Clock
  <2>2. (End("invalid_input") /\ UNCHANGED sent) \/ Proceed("blockhash")
    BY <1>3, Zenon DEF Clock
  <2> QED BY <2>1, <2>2, EndStep, ProceedStep, AwaitFacts, Zenon
<1>4. CASE LatestBlockhash
  <2>1. Early
    BY <1>4 DEF LatestBlockhash
  <2>2. CASE End("invalid_input") /\ UNCHANGED sent
    BY <2>1, <2>2, EndStep, Zenon
  <2>3. CASE \E b \in {b \in 0 .. now : now - b <= ClusterLag} :
                /\ blockhash' = b /\ pc' = "simulate"
                /\ UNCHANGED <<plan, args, attempts, sent, outcome, ended, cluster>>
    <3>1. PICK b \in 0 .. now :
             /\ blockhash' = b /\ pc' = "simulate"
             /\ UNCHANGED <<plan, args, attempts, sent, outcome, ended, cluster>>
      BY <2>3, Zenon
    <3>2. b \in Times
      BY SubmissionAssumption DEF SendInv, Types, Times
    <3>3. UNCHANGED <<sent, outcome, ended, now, level, result>>
      BY <3>1, Zenon DEF cluster
    <3> QED BY <2>1, <3>1, <3>2, <3>3, GoOn, AwaitFacts, Zenon
  <2> QED BY <1>4, <2>2, <2>3, Zenon DEF LatestBlockhash
<1>5. CASE Simulate
  <2>1. Early
    BY <1>5 DEF Simulate
  <2>2. (End("rpc") /\ UNCHANGED sent) \/ Proceed("send")
    BY <1>5, Zenon DEF Simulate
  <2> QED BY <2>1, <2>2, EndStep, ProceedStep, AwaitFacts, Zenon
<1>6. CASE Send
  BY <1>6, SendStep
<1>7. CASE Poll
  BY <1>7, PollStep
<1>8. CASE GiveUp
  BY <1>8, EndStep, Zenon DEF GiveUp
<1> QED BY <1>1, <1>2, <1>3, <1>4, <1>5, <1>6, <1>7, <1>8, Zenon DEF Answered

\* The invariant is inductive.
LEMMA SendInvariant ==
    ASSUME SendInv, [Next]_vars
    PROVE  SendInv'
<1>1. CASE UNCHANGED vars
  BY <1>1, Zenon
     DEF vars, SendInv, Types, RunInv, SentInv, Excuses, OkMeansApplied, Applied,
         RefusedUnsent
<1>2. ASSUME NEW a \in Arguments, Start(a)
      PROVE  SendInv'
  BY <1>2, StartStep, Zenon
<1>3. CASE Answered
  BY <1>3, AnsweredStep
<1>4. CASE RpcFails
  BY <1>4, EndStep, AwaitFacts, Zenon DEF RpcFails
<1>5. CASE Deadline
  BY <1>5, EndStep, Zenon DEF Deadline
<1>6. CASE Tick
  BY <1>6, TickStep
<1>7. ASSUME NEW b \in Times,
             (\E r \in {"ok", "err"} : Land(b, r)) \/ Confirm(b) \/ RollBack(b)
      PROVE  SendInv'
  BY <1>7, TransactionStep, Zenon
<1> QED BY <1>1, <1>2, <1>3, <1>4, <1>5, <1>6, <1>7, Zenon DEF Next

\* It holds before the first run.
LEMMA SendInitially ==
    ASSUME Init
    PROVE  SendInv
<1>1. 0 \in Times
  BY SubmissionAssumption DEF Times
<1>2. Types
  <2>1. ended \in Seq(EndedRun)
    BY DEF Init
  <2>2. pc \in Awaits \cup {"idle"} /\ outcome \in Outcomes /\ sent \in BOOLEAN
    BY Zenon DEF Init, Outcomes
  <2>3. level \in [Times -> Levels] /\ result \in [Times -> {"none", "ok", "err"}]
    BY DEF Init, Levels
  <2> QED BY <1>1, <2>1, <2>2, <2>3, Zenon DEF Types, Init
<1>3. RunInv /\ OkMeansApplied
  BY DEF Init, RunInv, OkMeansApplied
<1>4. SentInv
  BY DEF Init, SentInv
<1>5. RefusedUnsent
  BY DEF Init, RefusedUnsent
<1> QED BY <1>2, <1>3, <1>4, <1>5, Zenon DEF SendInv

\* It holds in every reachable state.
LEMMA SendInvAlways == Spec => []SendInv
BY SendInitially, SendInvariant, PTL DEF Spec

-----------------------------------------------------------------------------
\* `agentbond send` reports success only for a transaction that the cluster
\* has confirmed as executed.
THEOREM OkCorrect == Spec => []OkMeansApplied
<1>1. SendInv => OkMeansApplied
  BY Zenon DEF SendInv
<1> QED BY <1>1, SendInvAlways, PTL

\* What each await of a run has behind it.
CheckInv ==
    /\ plan \in Plans
    /\ pc \in Awaits => args.keys_private
    /\ pc \in Awaits \ {"cli_genesis"} => Consented
    /\ pc \in {"blockhash", "simulate", "send", "confirm"} => OwnPlan(plan)
    /\ pc \in {"simulate", "send", "confirm"} => ExactKeys
    /\ sent => Consented /\ OwnPlan(plan) /\ ExactKeys

\* The rule for signature checks leaves the last instruction to the program.
LEMMA ValidPlanOwn ==
    ASSUME NEW p \in Plans, NEW t, ValidPlan(p, t)
    PROVE  OwnPlan(p)
<1> DEFINE ixs == p.instructions
           S == {ixs[i] : i \in DOMAIN ixs}
<1>1. ixs \in Seq(S)
  BY PlanAssumption
<1>2. /\ p.program_id = Program /\ ixs # << >>
      /\ \A i \in DOMAIN ixs :
            \/ ixs[i].program_id = Program
            \/ ixs[i].program_id = "ed25519" /\ i < Len(ixs)
  BY Zenon DEF ValidPlan
<1> HIDE DEF S
<1>3. Len(ixs) \in DOMAIN ixs /\ Len(ixs) \in Nat
  BY <1>1, <1>2
<1>4. ixs[Len(ixs)].program_id = Program
  BY <1>2, <1>3
<1> QED BY <1>2, <1>4 DEF OwnPlan

\* A run that returns, or goes on with what it has established.
LEMMA CheckKept ==
    ASSUME CheckInv, UNCHANGED <<plan, args>>,
           sent' => sent \/ pc = "send",
           \/ pc' \in {pc, "idle"}
           \/ pc = "simulate" /\ pc' = "send"
           \/ pc = "send" /\ pc' = "confirm"
    PROVE  CheckInv'
<1>1. /\ Consented' <=> Consented
      /\ OwnPlan(plan)' <=> OwnPlan(plan)
      /\ ExactKeys' <=> ExactKeys
  BY DEF Consented, MainnetBlocked, OwnPlan, ExactKeys, PresentSigners, MetaSigners
<1>2. sent' => Consented /\ OwnPlan(plan) /\ ExactKeys
  BY DEF CheckInv, Awaits
<1> QED BY <1>1, <1>2 DEF CheckInv, Awaits

\* Every check comes before the await that relies on it.
LEMMA CheckInvariant ==
    ASSUME SendInv, CheckInv, [Next]_vars
    PROVE  CheckInv'
<1>1. CASE UNCHANGED vars \/ Tick \/ \E b \in Times : \/ Confirm(b) \/ RollBack(b)
                                                    \/ \E x \in {"ok", "err"} : Land(b, x)
  <2>1. UNCHANGED <<plan, args, pc, sent>>
    BY <1>1, Zenon DEF vars, Tick, Confirm, RollBack, Land, client
  <2> QED BY <2>1, CheckKept
<1>2. ASSUME NEW a \in Arguments, Start(a) PROVE CheckInv'
  BY <1>2 DEF Start, CheckInv, Awaits
<1>3. ASSUME NEW o, End(o), UNCHANGED sent PROVE CheckInv'
  BY <1>3, CheckKept DEF End
<1>4. CASE RpcFails \/ Deadline \/ GiveUp
  BY <1>3, <1>4, Zenon DEF RpcFails, Deadline, GiveUp
<1>5. CASE CliGenesis
  <2>1. CASE MainnetBlocked \/ ~args.yes
    BY <1>3, <1>5, <2>1, Zenon DEF CliGenesis
  <2>2. CASE ~(MainnetBlocked \/ ~args.yes)
    <3>1. pc = "cli_genesis" /\ pc' = "genesis" /\ UNCHANGED <<plan, args, sent>>
      BY <1>5, <2>2, Zenon DEF CliGenesis, Proceed
    <3>2. Consented /\ ~sent
      BY <2>2, <3>1 DEF CheckInv, Awaits, Consented, SendInv, RunInv
    <3> QED BY <3>1, <3>2 DEF CheckInv, Awaits, Consented, MainnetBlocked
  <2> QED BY <2>1, <2>2
<1>6. CASE SdkGenesis
  <2>1. CASE MainnetBlocked
    BY <1>3, <1>6, <2>1, Zenon DEF SdkGenesis
  <2>2. CASE ~MainnetBlocked
    <3>1. pc = "genesis" /\ pc' = "clock" /\ UNCHANGED <<plan, args, sent>>
      BY <1>6, <2>2, Zenon DEF SdkGenesis, Proceed
    <3>2. Consented /\ ~sent
      BY <3>1 DEF CheckInv, Awaits, SendInv, RunInv
    <3> QED BY <3>1, <3>2 DEF CheckInv, Awaits, Consented, MainnetBlocked
  <2> QED BY <2>1, <2>2
<1>7. CASE Clock
  <2>1. CASE End("invalid_input") /\ UNCHANGED sent
    BY <1>3, <2>1
  <2>2. CASE Proceed("blockhash") /\ \E t \in 0 .. now : ValidPlan(plan, t)
    <3>1. pc = "clock" /\ pc' = "blockhash" /\ UNCHANGED <<plan, args, sent>>
      BY <1>7, <2>2, Zenon DEF Clock, Proceed
    <3>2. Consented /\ ~sent /\ OwnPlan(plan)
      BY <2>2, <3>1, ValidPlanOwn DEF CheckInv, Awaits, SendInv, RunInv
    <3> QED BY <3>1, <3>2 DEF CheckInv, Awaits, Consented, MainnetBlocked, OwnPlan
  <2> QED BY <1>7, <2>1, <2>2, Zenon DEF Clock
<1>8. CASE LatestBlockhash
  <2>1. CASE ~TrySign
    BY <1>3, <1>8, <2>1, Zenon DEF LatestBlockhash
  <2>2. CASE TrySign
    <3>1. pc = "blockhash" /\ pc' = "simulate" /\ UNCHANGED <<plan, args, sent>>
      BY <1>8, <2>2, Zenon DEF LatestBlockhash
    <3>2. Consented /\ ~sent /\ OwnPlan(plan) /\ ExactKeys
      BY <2>2, <3>1 DEF CheckInv, Awaits, SendInv, RunInv, TrySign, ExactKeys
    <3> QED BY <3>1, <3>2 DEF CheckInv, Awaits, Consented, MainnetBlocked, OwnPlan, ExactKeys,
                              PresentSigners, MetaSigners
  <2> QED BY <2>1, <2>2
<1>9. CASE Simulate
  <2>1. pc = "simulate" /\ pc' \in {"send", "idle"} /\ UNCHANGED <<plan, args, sent>>
    BY <1>9 DEF Simulate, Proceed, End
  <2> QED BY <2>1, CheckKept
<1>10. CASE Send
  <2>1. pc = "send" /\ pc' \in {"confirm", "idle"} /\ UNCHANGED <<plan, args>>
    BY <1>10 DEF Send
  <2> QED BY <2>1, CheckKept
<1>11. CASE Poll
  <2>1. pc' \in {pc, "idle"} /\ UNCHANGED <<plan, args, sent>>
    BY <1>11 DEF Poll
  <2> QED BY <2>1, CheckKept
<1> QED BY <1>1, <1>2, <1>4, <1>5, <1>6, <1>7, <1>8, <1>9, <1>10, <1>11, Zenon
    DEF Next, Answered

\* What is sent has the user's consent, is the program's, and is signed by
\* exactly the keys that it names, and a run that ends as refused or as invalid
\* input has sent nothing.
THEOREM SentIsCheckedCorrect == Spec => []SentIsChecked
<1>1. Init => CheckInv
  BY DEF Init, CheckInv, Awaits
<1>2. SendInv /\ CheckInv /\ [Next]_vars => CheckInv'
  BY CheckInvariant
<1>3. SendInv /\ CheckInv => SentIsChecked
  BY DEF SendInv, RefusedUnsent, CheckInv, SentIsChecked
<1> QED BY <1>1, <1>2, <1>3, SendInvAlways, PTL DEF Spec

\* A plan's second transaction is always the user's own repetition after a run
\* that had sent the first and ended with an Rpc error.
THEOREM DuplicateCorrect == Spec => []DuplicateOnlyAfterRpcError
<1>1. ASSUME SendInv
      PROVE  DuplicateOnlyAfterRpcError
  <2>1. SUFFICES ASSUME NEW b \in Times, NEW c \in Times, b # c,
                        level[b] # "unsent", level[c] # "unsent"
                 PROVE  \E i \in DOMAIN ended :
                           /\ ended[i].sent /\ ended[i].outcome = "rpc"
                           /\ ended[i].blockhash \in {b, c}
    BY Zenon DEF DuplicateOnlyAfterRpcError
  <2>2. \E i \in DOMAIN ended : Excuses(i, b) \/ Excuses(i, c)
    BY <1>1, <2>1, Zenon DEF SendInv, SentInv
  <2> QED BY <2>2, Zenon DEF Excuses
<1> QED BY <1>1, SendInvAlways, PTL
=============================================================================
