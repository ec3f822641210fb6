------------------------------- MODULE Indexer -------------------------------
(***************************************************************************)
(* The indexer process: a Yellowstone session that forwards the updates of *)
(* a forking chain into a bounded channel, and the engine that takes them  *)
(* out and calls ProjectionStore, one transaction at a time.  The process  *)
(* may stop between any two transactions, the session between any two      *)
(* updates; both resume from the checkpoint.                               *)
(***************************************************************************)
EXTENDS ProjectionStore, Sequences

CONSTANTS
    Contents,       \* what a block can hold: sequences of writes and events
    Levels,         \* the commitments that slots reach
    Statuses,       \* the commitments that the endpoint reports for the request
    StartSlot,      \* slots indexed and finalized before the model starts
    MaxBlocks,      \* bound on blocks built after StartSlot
    QueueMax,       \* capacity of the channel
    MaxBackfill,    \* MAX_BACKFILL_SLOTS
    OmitParents,    \* slots whose status updates may come without the parent
    MaxFaults,      \* bound on crashes of the process and ended sessions
    NoGap

Writes == [kind: {"account"}, addr: Addrs, op: Ops]
Events == [kind: {"event"}, tx: Txs]

ASSUME IndexerAssumption ==
    /\ Levels \subseteq Commitments /\ Statuses \subseteq Commitments
    /\ StartSlot \in 0 .. MaxSlot
    /\ StartSlot > 0 => "finalized" \in Statuses
    /\ OmitParents \subseteq Slots
    /\ {MaxBlocks, QueueMax, MaxBackfill, MaxFaults} \subseteq Nat
    /\ \A c \in Contents : /\ c \in Seq(Writes \cup Events)
                           /\ Len(c) <= MaxVersion
    /\ NoGap \notin Slots \X Slots

VARIABLES
    block,    \* the chain: what is at each slot, and how final it is
    root,     \* the chain's last finalized slot
    log,      \* every update the cluster has sent out, in order
    session,  \* the Yellowstone session
    queue,    \* the channel from the session to the engine
    engine,   \* the engine's local state
    base,     \* history: the slot that the engine first tracked
    faults    \* crashes and ended sessions so far

chainVars == <<block, root, log>>
vars == <<storeVars, chainVars, session, queue, engine, base, faults>>

Updates == [kind: {"slot"}, slot: Slots, parent: Parents, status: Commitments]
    \cup [kind: {"account"}, slot: Slots, version: Versions]
    \cup [kind: {"event"}, slot: Slots, tx: Txs]

SlotUpdate(s, p, status) == [kind |-> "slot", slot |-> s, parent |-> p, status |-> status]

Phases == {"none", "open"} \cup Commitments

NoUpdate == SlotUpdate(0, NoParent, "none")

TypeOK ==
    /\ StoreTypeOK
    /\ block \in [Slots -> [phase: Phases, parent: 0 .. MaxSlot,
                            content: Contents \cup {<<>>}, sent: 0 .. MaxVersion,
                            landed: SUBSET Txs]]
    /\ root \in 0 .. MaxSlot
    /\ log \in Seq(Updates)
    /\ session \in [on: BOOLEAN, from: 0 .. MaxSlot, cursor: Nat]
    /\ queue \in Seq(Updates) /\ Len(queue) <= QueueMax
    /\ engine \in [at: {"down", "failed", "idle", "upsert", "finalize", "repair"},
                   last: 0 .. MaxSlot, update: Updates \cup {NoUpdate},
                   gap: (Slots \X Slots) \cup {NoGap}, fetch: 0 .. MaxSlot,
                   todo: SUBSET (0 .. MaxVersion)]
    /\ base \in 0 .. MaxSlot

Down == [at |-> "down", last |-> 0, update |-> NoUpdate, gap |-> NoGap,
         fetch |-> 0, todo |-> {}]

\* The indexer before its first start, or stopped after it has indexed the
\* chain as far as StartSlot.
Init ==
    /\ block = [s \in Slots |->
          [phase |-> IF s <= StartSlot THEN "finalized" ELSE "none",
           parent |-> IF s <= StartSlot THEN s - 1 ELSE 0, content |-> <<>>, sent |-> 0,
           landed |-> {}]]
    /\ root = StartSlot
    /\ log = [s \in 1 .. StartSlot |-> SlotUpdate(s, s - 1, "finalized")]
    /\ slotRow = [s \in Slots |->
          [status |-> IF s <= StartSlot THEN "finalized" ELSE "none",
           parent |-> IF s <= StartSlot THEN s - 1 ELSE NoParent]]
    /\ checkpoint = [finalized |-> StartSlot, processed |-> StartSlot]
    /\ rawAccounts = {} /\ staged = {}
    /\ rawEvents = [t \in Txs |-> [slot |-> 0, commitment |-> "none"]]
    /\ proj = [a \in Addrs |-> NoRow] /\ newest = [a \in Addrs |-> NoRow]
    /\ gaps = [g \in Slots \X Slots |-> "none"]
    /\ session = [on |-> FALSE, from |-> 0, cursor |-> 0]
    /\ queue = <<>>
    /\ engine = Down
    /\ base = StartSlot
    /\ faults = 0

(***************************************************************************)
(* The cluster.  Slots pass in order and some of them without a block; a   *)
(* block is built on any frozen block, so the chain forks.  Writes and     *)
(* events are sent while a block executes, its status as it settles.       *)
(***************************************************************************)
Send(u) == log' = Append(log, u)

Frozen(s) == block[s].phase \in {"processed", "confirmed", "finalized"}

TxsOf(c) == {c[i].tx : i \in {j \in DOMAIN c : c[j].kind = "event"}}

\* A transaction lands at most once on a branch, and on any number of branches.
StartBlock(s, p, c) ==
    LET before == IF p = 0 THEN {} ELSE block[p].landed IN
    /\ \A r \in s .. MaxSlot : block[r].phase = "none"
    /\ Cardinality({r \in Slots : r > StartSlot /\ block[r].phase # "none"}) < MaxBlocks
    /\ p # 0 => Frozen(p)
    /\ TxsOf(c) \cap before = {}
    /\ block' = [block EXCEPT ![s] = [phase |-> "open", parent |-> p, content |-> c,
                                      sent |-> 0, landed |-> before \cup TxsOf(c)]]
    /\ UNCHANGED <<root, log>>

ItemUpdate(s, i) ==
    LET item == block[s].content[i] IN
    IF item.kind = "account"
    THEN [kind |-> "account", slot |-> s,
          version |-> [addr |-> item.addr, slot |-> s, write |-> i, op |-> item.op]]
    ELSE [kind |-> "event", slot |-> s, tx |-> item.tx]

\* The request asks for transactions of the program and for accounts that the
\* program owns.  A closed account belongs to the system program.
Subscribed(item) == item.kind = "event" \/ item.op # "delete"

Execute(s) ==
    /\ block[s].phase = "open" /\ block[s].sent < Len(block[s].content)
    /\ IF Subscribed(block[s].content[block[s].sent + 1])
       THEN Send(ItemUpdate(s, block[s].sent + 1)) ELSE UNCHANGED log
    /\ block' = [block EXCEPT ![s].sent = @ + 1]
    /\ UNCHANGED root

\* Which statuses the request's filter_by_commitment leaves is the endpoint's to
\* say.
Settle(s, from, to) ==
    /\ block[s].phase \in from /\ to \in Levels
    /\ block' = [block EXCEPT ![s].phase = to]
    /\ IF to \notin Statuses THEN UNCHANGED log
       ELSE \E p \in {block[s].parent} \cup (IF s \in OmitParents THEN {NoParent} ELSE {}) :
               Send(SlotUpdate(s, p, to))

Freeze(s) == /\ block[s].sent = Len(block[s].content)
             /\ Settle(s, {"open"}, "processed") /\ UNCHANGED root
Die(s) == Settle(s, {"open"}, "dead") /\ UNCHANGED root
Confirm(s) == Settle(s, {"processed"}, "confirmed") /\ UNCHANGED root
Root(s) == /\ block[s].parent = root
           /\ Settle(s, {"processed", "confirmed"}, "finalized")
           /\ root' = s

Cluster ==
    /\ \/ \E s \in Slots, c \in Contents : \E p \in 0 .. s - 1 : StartBlock(s, p, c)
       \/ \E s \in Slots : Execute(s) \/ Freeze(s) \/ Die(s) \/ Confirm(s) \/ Root(s)
    /\ UNCHANGED <<storeVars, session, queue, engine, base, faults>>

(***************************************************************************)
(* The session.  It asks for the updates from the finalized checkpoint on, *)
(* or only for new ones if there is no checkpoint yet.                     *)
(***************************************************************************)
Running == engine.at \notin {"down", "failed"}

\* Mutant: a session resumes from the processed checkpoint.
Connect_Processed ==
    /\ Running /\ ~session.on
    /\ session' = [on |-> TRUE, from |-> checkpoint.processed,
                   cursor |-> IF checkpoint.finalized > 0 THEN 0 ELSE Len(log)]
    /\ UNCHANGED <<storeVars, chainVars, queue, engine, base, faults>>

\* Mutant: a session that has ended is not opened again.
Connect_Once ==
    /\ Running /\ ~session.on /\ faults = 0
    /\ session' = [on |-> TRUE, from |-> checkpoint.finalized,
                   cursor |-> IF checkpoint.finalized > 0 THEN 0 ELSE Len(log)]
    /\ UNCHANGED <<storeVars, chainVars, queue, engine, base, faults>>

Connect ==
    /\ Running /\ ~session.on
    /\ session' = [on |-> TRUE, from |-> checkpoint.finalized,
                   cursor |-> IF checkpoint.finalized > 0 THEN 0 ELSE Len(log)]
    /\ UNCHANGED <<storeVars, chainVars, queue, engine, base, faults>>

\* Mutant: the channel has no bound.
Forward_Unbounded ==
    /\ session.on /\ session.cursor < Len(log)
    /\ queue' = Append(queue, log[session.cursor + 1])
    /\ session' = [session EXCEPT !.cursor = @ + 1]
    /\ UNCHANGED <<storeVars, chainVars, engine, base, faults>>

Forward ==
    /\ session.on /\ session.cursor < Len(log)
    /\ LET u == log[session.cursor + 1] IN
          IF u.slot < session.from THEN UNCHANGED queue
          ELSE Len(queue) < QueueMax /\ queue' = Append(queue, u)
    /\ session' = [session EXCEPT !.cursor = @ + 1]
    /\ UNCHANGED <<storeVars, chainVars, engine, base, faults>>

\* The channel keeps what the ended session had put into it.
Drop ==
    /\ session.on /\ faults < MaxFaults
    /\ session' = [session EXCEPT !.on = FALSE, !.from = 0, !.cursor = 0]
    /\ faults' = faults + 1
    /\ UNCHANGED <<storeVars, chainVars, queue, engine, base>>

(***************************************************************************)
(* The engine.                                                             *)
(***************************************************************************)
Restart ==
    /\ ~Running
    /\ engine' = [Down EXCEPT !.at = "idle",
          !.last = IF checkpoint.processed > 0 THEN checkpoint.processed ELSE checkpoint.finalized]
    /\ UNCHANGED <<storeVars, chainVars, session, queue, base, faults>>

Stop(at) ==
    /\ engine' = [Down EXCEPT !.at = at]
    /\ session' = [on |-> FALSE, from |-> 0, cursor |-> 0]
    /\ queue' = <<>>

Crash ==
    /\ Running /\ faults < MaxFaults
    /\ faults' = faults + 1
    /\ Stop("down")
    /\ UNCHANGED <<storeVars, chainVars, base>>

\* An error of the store ends run_source and with it the process.
Fail == Stop("failed") /\ UNCHANGED <<storeVars, base>>

Received == Head(queue)
Waiting == engine.at = "idle" /\ queue # <<>>
Take == Waiting /\ queue' = Tail(queue) /\ UNCHANGED session

TakeAccount ==
    /\ Waiting /\ Received.kind = "account"
    /\ \/ /\ Take /\ InsertAccount(Received.version, "processed")
          /\ UNCHANGED <<engine, base>>
       \/ ~InsertAccepted(Received.version, "processed") /\ Fail

TakeEvent ==
    /\ Take /\ Received.kind = "event"
    /\ InsertEvent(Received.tx, Received.slot, "processed")
    /\ UNCHANGED <<engine, base>>

\* Mutant: off by one, a gap of one slot is not seen.
DetectForwardGap_OffByOne(prev, s) == IF s > prev + 2 THEN <<prev + 1, s - 1>> ELSE NoGap

DetectForwardGap(prev, s) == IF s > prev + 1 THEN <<prev + 1, s - 1>> ELSE NoGap

Gap(s) == IF engine.last = 0 THEN NoGap ELSE DetectForwardGap(engine.last, s)

\* A gap is recorded before the slot that shows it.
TakeSlot ==
    /\ Take /\ Received.kind = "slot"
    /\ LET g == Gap(Received.slot) IN
          /\ IF g = NoGap THEN UNCHANGED storeVars ELSE RecordGap(g)
          /\ engine' = [engine EXCEPT !.at = "upsert", !.update = Received,
                          !.last = Greatest(@, Received.slot), !.gap = g,
                          !.fetch = IF g = NoGap THEN 0 ELSE g[1]]
    /\ base' = IF engine.last = 0 /\ checkpoint.processed = 0 THEN Received.slot ELSE base

AfterSlot == [engine EXCEPT !.at = IF engine.gap = NoGap THEN "idle" ELSE "repair",
                            !.update = NoUpdate]

\* The transaction that writes the slot's row, and a second one that projects
\* a finalized slot.
Upsert ==
    /\ engine.at = "upsert"
    /\ \/ /\ UpsertSlot(engine.update)
          /\ engine' = IF engine.update.status = "finalized"
                       THEN [engine EXCEPT !.at = "finalize"] ELSE AfterSlot
          /\ UNCHANGED <<session, queue, base>>
       \/ ~UpsertAccepted(engine.update) /\ Fail

Finalize ==
    /\ engine.at = "finalize"
    /\ \/ /\ FinalizeSlot(engine.update.slot)
          /\ engine' = AfterSlot
          /\ UNCHANGED <<session, queue, base>>
       \/ ~FinalizeAccepted(engine.update.slot) /\ Fail

(***************************************************************************)
(* Gap repair.  getBlock answers for a frozen block, with its events but   *)
(* not its accounts, or not at all: the slot was skipped, the call failed. *)
(***************************************************************************)
RepairTooLong ==
    /\ engine.at = "repair"
    /\ engine.gap[2] - engine.gap[1] + 1 > MaxBackfill
    /\ MarkGap(engine.gap, "failed")

Fetching == /\ engine.at = "repair" /\ engine.todo = {}
            /\ engine.gap[2] - engine.gap[1] + 1 <= MaxBackfill

FetchFails ==
    /\ Fetching /\ engine.fetch <= engine.gap[2]
    /\ MarkGap(engine.gap, "failed")

\* What is in the answer: the slot itself, as 0, and its events by their place
\* in the block.
FetchedItems(s) == {0} \cup {i \in DOMAIN block[s].content : block[s].content[i].kind = "event"}

FetchSlot ==
    /\ Fetching /\ engine.fetch <= engine.gap[2] /\ Frozen(engine.fetch)
    /\ engine' = [engine EXCEPT !.fetch = @ + 1, !.todo = FetchedItems(engine.fetch)]
    /\ UNCHANGED <<storeVars, session, queue, base>>

\* The account reconciliation never succeeds for a past range.
ReconcileAccounts ==
    /\ Fetching /\ engine.fetch > engine.gap[2]
    /\ MarkGap(engine.gap, "partial")

EndRepair ==
    /\ RepairTooLong \/ FetchFails \/ ReconcileAccounts
    /\ engine' = [engine EXCEPT !.at = "idle", !.gap = NoGap, !.fetch = 0]
    /\ UNCHANGED <<session, queue, base>>

\* The answer is ingested in order.  A frozen block no longer changes, so that
\* it is still what was fetched.
Fetched == engine.fetch - 1
Ingests(i) == /\ engine.at = "repair"
              /\ i \in engine.todo /\ \A j \in engine.todo : i <= j

\* A fetched slot is older than the one that showed the gap: a gap before it
\* would be an error.
RepairSlot ==
    /\ Ingests(0)
    /\ IF Gap(Fetched) # NoGap THEN Fail
       ELSE /\ engine' = [engine EXCEPT !.at = "upsert", !.todo = @ \ {0},
                  !.update = SlotUpdate(Fetched, block[Fetched].parent, "confirmed")]
            /\ UNCHANGED <<storeVars, session, queue, base>>

RepairEvent ==
    /\ \E i \in engine.todo \ {0} :
          /\ Ingests(i)
          /\ InsertEvent(block[Fetched].content[i].tx, Fetched, "confirmed")
          /\ engine' = [engine EXCEPT !.todo = @ \ {i}]
    /\ UNCHANGED <<session, queue, base>>

EngineStep ==
    /\ \/ TakeAccount \/ TakeEvent \/ TakeSlot \/ Upsert \/ Finalize
       \/ EndRepair \/ FetchSlot \/ RepairSlot \/ RepairEvent
    /\ UNCHANGED <<chainVars, faults>>

Next == Cluster \/ Connect \/ Forward \/ Drop \/ Restart \/ Crash \/ EngineStep

Spec == Init /\ [][Next]_vars

\* A process that is up runs, a session that ended is opened again, and
\* something outside the process starts it again.  The cluster owes nothing,
\* and no crash or drop has to happen.
Fairness ==
    /\ WF_vars(Connect) /\ WF_vars(Forward) /\ WF_vars(Restart) /\ WF_vars(EngineStep)

FairSpec == Spec /\ Fairness

(***************************************************************************)
(* Properties.                                                             *)
(***************************************************************************)

\* What the public reads return comes from the finalized chain alone: a block
\* of an abandoned or dead fork never shows in a projection or in a history,
\* whatever was processed, confirmed or replayed before.
PublicIsRooted ==
    /\ \A a \in Addrs : proj[a] # NoRow => block[proj[a].slot].phase = "finalized"
    /\ \A t \in Txs : rawEvents[t].commitment = "finalized" =>
                          block[rawEvents[t].slot].phase = "finalized"

\* Slots do not go missing silently: each slot between the first one tracked
\* and the processed checkpoint is in the slot table or inside a recorded gap,
\* through crashes and reconnects at any point.
GapsRecorded ==
    \A s \in Slots : base <= s /\ s <= checkpoint.processed =>
        \/ Known(s)
        \/ \E g \in Slots \X Slots : g[1] <= s /\ s <= g[2] /\ gaps[g] # "none"

\* A finalized block up to slot s has a write that no table can take.
Undated(s) ==
    \E r \in 1 .. s : /\ block[r].phase = "finalized"
                      /\ \E i \in DOMAIN block[r].content :
                            LET item == block[r].content[i] IN
                            item.kind = "account" /\ item.op = "undated"

\* The store refuses what an honest cluster sends for one reason only, a time
\* in the finalized chain that it cannot express: no replay, fork, crash or
\* repair ends the process with an error, and neither does such a time in a
\* block that is abandoned.
FailsOnlyUndated == engine.at = "failed" => Undated(MaxSlot)

\* A restart before finalization loses nothing: once the checkpoint has passed
\* a finalized slot, no account version of it is left in staging, where no
\* later session would fetch it.
NothingStranded ==
    \A v \in staged : block[v.slot].phase = "finalized" => checkpoint.finalized < v.slot

\* Newer versions win: the public row of an address is the newest version that
\* was ever applied to it, and there is none if that one closed the account.
NewestWins ==
    \A a \in Addrs :
        proj[a] = IF newest[a] = NoRow \/ newest[a].op = "delete" THEN NoRow ELSE newest[a]

\* The two tables a page of jobs is made from agree: no public row is newer
\* than the finalized checkpoint, so that list_jobs, which refuses a page with
\* such a row, does so only when a slot was finalized between its two queries.
\* It takes more than one transaction to publish a row, and a stop can come
\* between them.
PagesReadable == \A a \in Addrs : proj[a] # NoRow => proj[a].slot <= checkpoint.finalized

\* The states of an account, as the program's, that the finalized chain holds up
\* to the checkpoint.
OnChain(v) ==
    /\ v.write \in DOMAIN block[v.slot].content
    /\ block[v.slot].content[v.write] = [kind |-> "account", addr |-> v.addr, op |-> v.op]
FinalVersions(a) ==
    {v \in Versions : /\ v.addr = a /\ v.op \in {"write", "undated"} /\ OnChain(v)
                      /\ block[v.slot].phase = "finalized" /\ v.slot <= checkpoint.finalized}

\* The public reads are right, and as of the slot they report: a public row is
\* the last state that its account had, as the program's, on the finalized chain
\* up to the checkpoint, and an account without a row had none.  No fork, replay,
\* crash or reconnect drops a write, adds one or reorders two, and the checkpoint
\* does not pass a write that could not be applied.  That an account is closed
\* is not among the updates: its last row stays.
ReadsFinalState ==
    \A a \in Addrs :
        {proj[a]} \ {NoRow} =
            {v \in FinalVersions(a) : \A w \in FinalVersions(a) : LaterOf(v, w) = v}

\* What is staged for a slot that the cluster finalizes does get projected,
\* whatever stops the process or its sessions in between, unless an undated write
\* is in the way: at such a slot every restart fails.
StagedIsProjected ==
    \A s \in StartSlot + 1 .. MaxSlot :
        (block[s].phase = "finalized" /\ ~Undated(s) /\ \E v \in staged : v.slot = s)
            ~> (\A v \in staged : v.slot # s)
==============================================================================
