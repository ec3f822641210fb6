---------------------------- MODULE IndexerProofs ----------------------------
(***************************************************************************)
(* Proofs about the indexer process and the reads of its index, for any     *)
(* number of slots, blocks, accounts, crashes and ended sessions.           *)
(***************************************************************************)
EXTENDS IndexReads, StoreProofs

(***************************************************************************)
(* Types, by part.                                                         *)
(***************************************************************************)
Block == [phase: Phases, parent: 0 .. MaxSlot, content: Contents \cup {<<>>},
          sent: 0 .. MaxVersion, landed: SUBSET Txs]
EngineState == [at: {"down", "failed", "idle", "upsert", "finalize", "repair"},
                last: 0 .. MaxSlot, update: Updates \cup {NoUpdate},
                gap: (Slots \X Slots) \cup {NoGap}, fetch: 0 .. MaxSlot,
                todo: SUBSET (0 .. MaxVersion)]
SessionState == [on: BOOLEAN, from: 0 .. MaxSlot, cursor: Nat]

ChainTypeOK == block \in [Slots -> Block] /\ root \in 0 .. MaxSlot /\ log \in Seq(Updates)
FeedTypeOK == session \in SessionState /\ queue \in Seq(Updates) /\ Len(queue) <= QueueMax

(***************************************************************************)
(* The inductive invariant, part one: what holds from any start.           *)
(***************************************************************************)
Rooted(s) == block[s].phase = "finalized"
IsFinal(u, s) == u.kind = "slot" /\ u.slot = s /\ u.status = "finalized"

\* What an update says of the chain is so, and stays so.
Honest(u) ==
    /\ block[u.slot].phase # "none"
    /\ u.kind = "slot" =>
          /\ u.status = "finalized" => Rooted(u.slot)
          /\ u.status = "dead" => block[u.slot].phase = "dead"
          /\ OmitParents = {} => u.parent = block[u.slot].parent
    /\ u.kind = "account" => u.version.slot = u.slot

ChainInv ==
    /\ \A s \in Slots : block[s].parent < s /\ (Rooted(s) => s <= root)
    /\ \A i \in DOMAIN log : Honest(log[i])

QueueInv == \A k \in DOMAIN queue : \E i \in DOMAIN log : queue[k] = log[i]

\* The update that the engine is at.
UpdateInv ==
    /\ engine.at \in {"upsert", "finalize"} =>
          /\ engine.update \in Updates /\ engine.update.kind = "slot"
          /\ Honest(engine.update)
          /\ engine.update.slot <= engine.last
    /\ engine.at = "finalize" => engine.update.status = "finalized"

\* The gap that the engine repairs, and what it has fetched for it.
RepairInv ==
    /\ engine.at = "repair" => engine.gap # NoGap
    /\ engine.at = "idle" => engine.todo = {}
    /\ engine.gap # NoGap =>
          /\ engine.gap[2] < engine.last
          /\ engine.gap[1] <= engine.fetch /\ engine.fetch <= engine.gap[2] + 1
    /\ engine.todo # {} =>
          /\ engine.gap # NoGap
          /\ engine.gap[2] - engine.gap[1] + 1 <= MaxBackfill
          /\ Fetched \in Slots /\ Frozen(Fetched) /\ Fetched <= engine.gap[2]
          /\ \A i \in engine.todo \ {0} :
                i \in DOMAIN block[Fetched].content /\ block[Fetched].content[i].kind = "event"

\* The slot table says of the chain what is so.
SlotTableInv ==
    \A s \in Slots :
        /\ ~Known(s) => slotRow[s].parent = NoParent
        /\ Known(s) =>
              /\ block[s].phase # "none"
              /\ slotRow[s].status = "finalized" => Rooted(s)
              /\ slotRow[s].status = "dead" => block[s].phase = "dead"
              /\ OmitParents = {} => slotRow[s].parent = block[s].parent

\* Slots that the engine has passed by are in the table or in a gap; the one
\* it is at may still be missing.
Tracked(s) ==
    \/ Known(s)
    \/ \E g \in Slots \X Slots : g[1] <= s /\ s <= g[2] /\ gaps[g] # "none"
PassedInv ==
    Running =>
        /\ checkpoint.processed <= engine.last
        /\ \A s \in Slots : base <= s /\ s <= engine.last =>
              Tracked(s) \/ (engine.at = "upsert" /\ s = engine.update.slot)

GapsUnrepaired == \A g \in Slots \X Slots : gaps[g] \in {"none", "open", "failed", "partial"}

EventSlots == \A t \in Txs : rawEvents[t].commitment = "finalized" => rawEvents[t].slot \in Slots

CoreInv ==
    /\ TypeOK /\ ChainInv /\ QueueInv /\ UpdateInv /\ RepairInv /\ SlotTableInv
    /\ CheckpointSound /\ RowsInv
    /\ PublicIsRooted /\ EventSlots /\ PassedInv /\ GapsRecorded /\ GapsUnrepaired

(***************************************************************************)
(* Part two: what holds if a session always has a checkpoint to resume     *)
(* from.                                                                   *)
(***************************************************************************)

\* The order of the cluster's updates.
LogOrder ==
    /\ \A s \in Slots : Rooted(s) => \E i \in DOMAIN log : IsFinal(log[i], s)
    /\ \A i \in DOMAIN log, r, s \in Slots :
          IsFinal(log[i], s) /\ Rooted(r) /\ r < s =>
              \E j \in DOMAIN log : j < i /\ IsFinal(log[j], r)
    /\ \A i, j \in DOMAIN log :
          log[i].kind = "account" /\ IsFinal(log[j], log[i].slot) => i < j

\* A version is with the engine's tables for good.
Arrived(u) == Duplicate(u.version)
Pending(s) == engine.at \in {"upsert", "finalize"} /\ IsFinal(engine.update, s)

\* What the session has gone past: it is in the channel, it was ingested, or
\* its slot is dead.
SessionInv ==
    /\ checkpoint.finalized > 0
    /\ session.on =>
        /\ session.from <= checkpoint.finalized
        /\ session.cursor <= Len(log)
        /\ \A i \in 1 .. session.cursor :
              log[i].kind = "account" /\ log[i].slot >= session.from =>
                  \/ \E k \in DOMAIN queue : queue[k] = log[i]
                  \/ Arrived(log[i])
                  \/ slotRow[log[i].slot].status = "dead"
        /\ \A i \in 1 .. session.cursor, s \in Slots :
              IsFinal(log[i], s) /\ s > checkpoint.finalized =>
                  Pending(s) \/ \E k \in DOMAIN queue : IsFinal(queue[k], s)

\* Before a finalization in the channel come the accounts of its slot and the
\* finalizations of the slots below it.
ChannelInv ==
    \A k \in DOMAIN queue, s \in Slots : IsFinal(queue[k], s) =>
        /\ \A i \in DOMAIN log : log[i].kind = "account" /\ log[i].slot = s =>
              Arrived(log[i]) \/ \E j \in DOMAIN queue : j < k /\ queue[j] = log[i]
        /\ \A r \in Slots : Rooted(r) /\ checkpoint.finalized < r /\ r < s =>
              Pending(r) \/ \E j \in DOMAIN queue : j < k /\ IsFinal(queue[j], r)

\* The same of the finalization that the engine is at.
PendingInv ==
    \A s \in Slots : Pending(s) =>
        /\ \A i \in DOMAIN log : log[i].kind = "account" /\ log[i].slot = s => Arrived(log[i])
        /\ \A r \in Slots : Rooted(r) /\ r < s => r <= checkpoint.finalized

\* A finalized row is complete, and none is missing up to the checkpoint.
CompleteInv ==
    /\ \A i \in DOMAIN log :
          log[i].kind = "account" /\ slotRow[log[i].slot].status = "finalized" => Arrived(log[i])
    /\ \A s \in Slots : Rooted(s) /\ s <= checkpoint.finalized => slotRow[s].status = "finalized"

KeysUnique == \A r, q \in rawAccounts : SameKey(r.version, q.version) => r.version = q.version

NewestInv ==
    \A a \in Addrs : newest[a] # NoRow => newest[a].slot <= checkpoint.finalized

ResumeInv ==
    /\ LogOrder /\ SessionInv /\ ChannelInv /\ PendingInv /\ CompleteInv /\ KeysUnique
    /\ NewestInv /\ PagesReadable /\ NothingStranded /\ NewestWins
(***************************************************************************)
(* Updates and blocks.                                                     *)
(***************************************************************************)
LEMMA UpdateFacts ==
    ASSUME NEW u \in Updates
    PROVE  /\ u.slot \in Slots /\ u.kind \in {"slot", "account", "event"}
           /\ u.kind = "slot" => IsSlotUpdate(u)
           /\ u.kind = "account" => u.version \in Versions
           /\ u.kind = "event" => u.tx \in Txs
<1>1. CASE u \in [kind: {"slot"}, slot: Slots, parent: Parents, status: Commitments]
  BY <1>1 DEF IsSlotUpdate
<1>2. CASE u \in [kind: {"account"}, slot: Slots, version: Versions]
  BY <1>2
<1>3. CASE u \in [kind: {"event"}, slot: Slots, tx: Txs]
  BY <1>3
<1> QED BY <1>1, <1>2, <1>3 DEF Updates

\* A slot status on its way to the indexer.
LEMMA SlotUpdateMade ==
    ASSUME NEW s \in Slots, NEW p \in Parents, NEW c \in Commitments
    PROVE  /\ SlotUpdate(s, p, c) \in Updates
           /\ SlotUpdate(s, p, c).kind = "slot" /\ SlotUpdate(s, p, c).slot = s
           /\ SlotUpdate(s, p, c).parent = p /\ SlotUpdate(s, p, c).status = c
BY DEF SlotUpdate, Updates

\* Slots are positive numbers.
LEMMA SlotFacts ==
    ASSUME NEW s \in Slots
    PROVE  s \in Nat /\ s \in Int /\ s > 0 /\ s \in 0 .. MaxSlot /\ s \in Parents
BY StoreAssumption DEF Slots, Parents

\* What a block holds is a bounded list of writes and events.
LEMMA ContentFacts ==
    ASSUME NEW c \in Contents \cup {<<>>}
    PROVE  /\ c \in Seq(Writes \cup Events) /\ DOMAIN c = 1 .. Len(c) /\ Len(c) \in 0 .. MaxVersion
           /\ DOMAIN c \subseteq 1 .. MaxVersion
           /\ \A i \in DOMAIN c : c[i] \in Writes \cup Events
<1>1. c \in Seq(Writes \cup Events) /\ Len(c) <= MaxVersion
  <2>1. CASE c \in Contents
    BY <2>1, IndexerAssumption, Zenon
  <2>2. CASE c = <<>>
    BY <2>2, StoreAssumption
  <2> QED BY <2>1, <2>2
<1> QED BY <1>1, StoreAssumption

\* The update that carries one write or event of a block.
LEMMA ItemFacts ==
    ASSUME ChainTypeOK, NEW s \in Slots, NEW i \in DOMAIN block[s].content
    PROVE  /\ ItemUpdate(s, i) \in Updates
           /\ ItemUpdate(s, i).slot = s /\ ItemUpdate(s, i).kind \in {"account", "event"}
           /\ ItemUpdate(s, i).kind = "account" => ItemUpdate(s, i).version.slot = s
           /\ block[s].content[i].kind = "event" => block[s].content[i].tx \in Txs
           /\ i \in 1 .. MaxVersion
<1> DEFINE item == block[s].content[i]
<1>1. block[s].content \in Contents \cup {<<>>}
  BY DEF ChainTypeOK, Block
<1>2. item \in Writes \cup Events /\ i \in 1 .. MaxVersion
  BY <1>1, ContentFacts
<1>3. CASE item \in Writes
  <2>1. item.kind = "account" /\ item.addr \in Addrs /\ item.op \in Ops
    BY <1>3 DEF Writes
  <2> DEFINE v == [addr |-> item.addr, slot |-> s, write |-> i, op |-> item.op]
  <2>2. v \in Versions /\ v.slot = s
    BY <1>2, <2>1 DEF Versions
  <2>3. ItemUpdate(s, i) = [kind |-> "account", slot |-> s, version |-> v]
    BY <2>1 DEF ItemUpdate
  <2> HIDE DEF v, item
  <2> QED BY <1>2, <2>1, <2>2, <2>3 DEF Updates, item
<1>4. CASE item \in Events
  <2>1. item.kind = "event" /\ item.tx \in Txs
    BY <1>4 DEF Events
  <2>2. ItemUpdate(s, i) = [kind |-> "event", slot |-> s, tx |-> item.tx]
    BY <2>1 DEF ItemUpdate
  <2> HIDE DEF item
  <2> QED BY <1>2, <2>1, <2>2 DEF Updates, item
<1> QED BY <1>2, <1>3, <1>4

(***************************************************************************)
(* The cluster.                                                            *)
(***************************************************************************)

\* What a step may never do to a block.
BlockStep ==
    \A s \in Slots : block[s].phase # "none" =>
        /\ block'[s].phase # "none"
        /\ block'[s].parent = block[s].parent /\ block'[s].content = block[s].content
        /\ block[s].phase \in {"finalized", "dead"} => block'[s].phase = block[s].phase
        /\ block[s].phase \in {"processed", "confirmed"} =>
              block'[s].phase \in {"processed", "confirmed", "finalized"}

\* The new update, if there is one.
Sends(u) == log' = Append(log, u) /\ u \in Updates /\ Honest(u)'
LogStep == log' = log \/ \E u \in Updates : Sends(u)

\* What the cluster has said stays true as blocks go on.
LEMMA HonestStays ==
    ASSUME BlockStep, NEW u \in Updates, Honest(u)
    PROVE  Honest(u)'
BY UpdateFacts DEF BlockStep, Honest, Rooted

\* A queue with an element more.
LEMMA AppendFacts ==
    ASSUME NEW S, NEW q \in Seq(S), NEW x \in S
    PROVE  /\ Append(q, x) \in Seq(S) /\ Len(Append(q, x)) = Len(q) + 1
           /\ DOMAIN Append(q, x) = 1 .. Len(q) + 1 /\ DOMAIN q = 1 .. Len(q) /\ Len(q) \in Nat
           /\ \A i \in DOMAIN q : i \in DOMAIN Append(q, x) /\ Append(q, x)[i] = q[i]
           /\ Append(q, x)[Len(q) + 1] = x
OBVIOUS

\* A new block is built on one that exists and changes no other.
LEMMA StartBlockStep ==
    ASSUME ChainTypeOK, ChainInv, NEW s \in Slots, NEW c \in Contents, NEW p \in 0 .. s - 1,
           StartBlock(s, p, c)
    PROVE  /\ ChainTypeOK' /\ BlockStep /\ UNCHANGED <<root, log>>
           /\ \A r \in Slots : block'[r].parent < r /\ (Rooted(r)' => Rooted(r))
<1> DEFINE before == IF p = 0 THEN {} ELSE block[p].landed
           b == [phase |-> "open", parent |-> p, content |-> c, sent |-> 0,
                 landed |-> before \cup TxsOf(c)]
<1>1. s \in 1 .. MaxSlot /\ MaxSlot \in Nat /\ p \in 0 .. MaxSlot /\ p < s
  BY StoreAssumption DEF Slots
<1>2. block[s].phase = "none"
  BY <1>1 DEF StartBlock
<1>3. before \subseteq Txs
  <2>1. p # 0 => p \in Slots
    BY <1>1 DEF Slots
  <2> QED BY <2>1 DEF ChainTypeOK, Block
<1>4. TxsOf(c) \subseteq Txs
  <2>1. \A j \in DOMAIN c : c[j].kind = "event" => c[j].tx \in Txs
    <3> SUFFICES ASSUME NEW j \in DOMAIN c, c[j].kind = "event" PROVE c[j].tx \in Txs
      OBVIOUS
    <3>1. c[j] \in Writes \cup Events
      BY ContentFacts
    <3> QED BY <3>1 DEF Writes, Events
  <2> QED BY <2>1, Zenon DEF TxsOf
<1>5. block' = [block EXCEPT ![s] = b] /\ UNCHANGED <<root, log>>
  BY Zenon DEF StartBlock
<1>6. b \in Block /\ b.phase = "open" /\ b.parent = p
  <2> DEFINE l == before \cup TxsOf(c)
  <2>1. l \subseteq Txs
    BY <1>3, <1>4, Zenon
  <2> HIDE DEF l
  <2>2. [phase |-> "open", parent |-> p, content |-> c, sent |-> 0, landed |-> l] \in Block
    BY <1>1, <2>1, StoreAssumption DEF Block, Phases, Commitments
  <2> QED BY <2>2 DEF l
<1> HIDE DEF b
<1>7. ChainTypeOK'
  BY <1>5, <1>6 DEF ChainTypeOK
<1>8. \A r \in Slots : block'[r] = IF r = s THEN b ELSE block[r]
  BY <1>5 DEF ChainTypeOK
<1>9. BlockStep
  BY <1>2, <1>8 DEF BlockStep
<1>10. \A r \in Slots : block'[r].parent < r /\ (Rooted(r)' => Rooted(r))
  BY <1>1, <1>6, <1>8 DEF ChainInv, Rooted
<1> QED BY <1>5, <1>7, <1>9, <1>10

\* Executing an item sends its update, if the request asks for it, and roots
\* nothing.
LEMMA ExecuteStep ==
    ASSUME ChainTypeOK, ChainInv, NEW s \in Slots, Execute(s)
    PROVE  /\ ChainTypeOK' /\ BlockStep /\ UNCHANGED root
           /\ \A r \in Slots : block'[r].parent < r /\ (Rooted(r)' => Rooted(r))
           /\ \/ log' = log
              \/ \E u \in Updates : /\ Sends(u) /\ u.slot = s /\ u.kind # "slot"
                                    /\ block[s].phase = "open"
<1> DEFINE n == block[s].sent + 1
<1>1. block[s] \in Block /\ block[s].phase = "open"
  BY DEF Execute, ChainTypeOK
<1>2. n \in DOMAIN block[s].content /\ n \in 0 .. MaxVersion
  <2>1. block[s].sent \in 0 .. MaxVersion /\ block[s].content \in Contents \cup {<<>>}
    BY <1>1 DEF Block
  <2>2. block[s].sent < Len(block[s].content)
    BY DEF Execute
  <2> QED BY <2>1, <2>2, ContentFacts, StoreAssumption
<1>3. PICK u \in Updates : /\ u = ItemUpdate(s, n)
                           /\ u.slot = s /\ u.kind \in {"account", "event"}
                           /\ u.kind = "account" => u.version.slot = s
  BY <1>2, ItemFacts
<1>4. log' \in {log, Append(log, u)} /\ root' = root
  BY <1>3, Zenon DEF Execute, Send
<1>5. block' = [block EXCEPT ![s].sent = n]
  BY DEF Execute
<1> HIDE DEF n
<1>6. \A r \in Slots : /\ block'[r] \in Block
                       /\ block'[r].phase = block[r].phase /\ block'[r].parent = block[r].parent
                       /\ block'[r].content = block[r].content
  BY <1>2, <1>5 DEF ChainTypeOK, Block
<1>7. block' \in [Slots -> Block]
  BY <1>2, <1>5 DEF ChainTypeOK, Block
<1>8. log' \in Seq(Updates)
  BY <1>3, <1>4 DEF ChainTypeOK
<1>9. BlockStep
  BY <1>6, Zenon DEF BlockStep
<1>10. log' = log \/ Sends(u)
  BY <1>1, <1>3, <1>4, <1>6 DEF Sends, Honest
<1>11. ChainTypeOK'
  BY <1>4, <1>7, <1>8 DEF ChainTypeOK
<1> QED BY <1>1, <1>3, <1>4, <1>6, <1>9, <1>10, <1>11 DEF ChainInv, Rooted

\* A status change of a block is sent as it happens, if the endpoint reports it.
LEMMA SettleStep ==
    ASSUME ChainTypeOK, ChainInv, NEW s \in Slots, NEW from, NEW to, Settle(s, from, to),
           from \in {{"open"}, {"processed"}, {"processed", "confirmed"}},
           "open" \notin from => to \in {"confirmed", "finalized"}
    PROVE  /\ block' \in [Slots -> Block] /\ log' \in Seq(Updates) /\ BlockStep
           /\ block[s].phase \in from
           /\ \A r \in Slots : /\ block'[r].parent < r
                               /\ block'[r].phase = IF r = s THEN to ELSE block[r].phase
           /\ \/ log' = log /\ to \notin Statuses
              \/ \E u \in Updates : /\ Sends(u) /\ u.kind = "slot" /\ u.slot = s /\ u.status = to
                                    /\ to \in Statuses
<1>1. block[s].phase \in from /\ to \in Commitments
  BY IndexerAssumption DEF Settle
<1>2. block' = [block EXCEPT ![s].phase = to]
  BY Zenon DEF Settle
<1>3. \A r \in Slots : /\ block'[r].phase = IF r = s THEN to ELSE block[r].phase
                       /\ block'[r].parent = block[r].parent
                       /\ block'[r].content = block[r].content
  BY <1>2 DEF ChainTypeOK, Block
<1>4. block' \in [Slots -> Block]
  BY <1>1, <1>2 DEF ChainTypeOK, Block, Phases
<1>5. BlockStep
  <2>1. /\ block[s].phase \in {"open", "processed", "confirmed"}
        /\ block[s].phase # "open" => to \in {"confirmed", "finalized"}
    <3>1. CASE from = {"open"}
      BY <1>1, <3>1
    <3>2. CASE from = {"processed"}
      BY <1>1, <3>2
    <3>3. CASE from = {"processed", "confirmed"}
      BY <1>1, <3>3
    <3> QED BY <3>1, <3>2, <3>3
  <2>2. to # "none"
    BY <1>1 DEF Commitments
  <2> QED BY <1>3, <2>1, <2>2 DEF BlockStep
<1>6. \A r \in Slots : block'[r].parent < r
  BY <1>3 DEF ChainInv
<1>7. CASE to \notin Statuses
  <2>1. log' = log
    BY <1>7, Zenon DEF Settle
  <2> QED BY <1>1, <1>3, <1>4, <1>5, <1>6, <1>7, <2>1 DEF ChainTypeOK
<1>8. CASE to \in Statuses
  <2>1. PICK p \in {block[s].parent} \cup (IF s \in OmitParents THEN {NoParent} ELSE {}) :
            Send(SlotUpdate(s, p, to))
    BY <1>8, Zenon DEF Settle
  <2>2. p \in Parents /\ (OmitParents = {} => p = block[s].parent)
    <3>1. block[s].parent \in 0 .. MaxSlot
      BY DEF ChainTypeOK, Block
    <3> QED BY <2>1, <3>1 DEF Parents
  <2>3. PICK u \in Updates : /\ u = SlotUpdate(s, p, to)
                             /\ u.kind = "slot" /\ u.slot = s /\ u.parent = p /\ u.status = to
    BY <1>1, <2>2, SlotUpdateMade
  <2>4. log' = Append(log, u)
    BY <2>1, <2>3 DEF Send
  <2>5. log' \in Seq(Updates)
    BY <2>4 DEF ChainTypeOK
  <2>6. Honest(u)'
    BY <1>1, <1>3, <2>2, <2>3 DEF Honest, Rooted, Commitments
  <2> QED BY <1>1, <1>3, <1>4, <1>5, <1>6, <1>8, <2>3, <2>4, <2>5, <2>6 DEF Sends
<1> QED BY <1>7, <1>8

\* What a step of the cluster does, by what it sends.
SendsNothing ==
    log' = log /\ \A r \in Slots : Rooted(r)' => Rooted(r) \/ "finalized" \notin Statuses
SendsItem(u) ==
    /\ Sends(u) /\ u.kind # "slot" /\ block[u.slot].phase = "open"
    /\ \A r \in Slots : Rooted(r)' => Rooted(r)
SendsStatus(u) ==
    /\ Sends(u) /\ u.kind = "slot" /\ u.status # "finalized"
    /\ \A r \in Slots : Rooted(r)' => Rooted(r)
SendsRoot(u) ==
    /\ "finalized" \in Statuses
    /\ Sends(u) /\ u.kind = "slot" /\ u.status = "finalized" /\ root < u.slot
    /\ \A r \in Slots : Rooted(r)' => Rooted(r) \/ r = u.slot
ClusterSends ==
    SendsNothing \/ \E u \in Updates : SendsItem(u) \/ SendsStatus(u) \/ SendsRoot(u)

\* Whatever the cluster does, the chain stays a chain and its log honest.
LEMMA ClusterStep ==
    ASSUME ChainTypeOK, ChainInv, Cluster
    PROVE  ChainTypeOK' /\ BlockStep /\ ClusterSends /\ ChainInv'
<1> DEFINE Below == \A r \in Slots : block'[r].parent < r /\ (Rooted(r)' => r <= root')
<1>1. ASSUME NEW s \in Slots, NEW c \in Contents, NEW p \in 0 .. s - 1, StartBlock(s, p, c)
      PROVE  ChainTypeOK' /\ BlockStep /\ ClusterSends /\ Below
  BY <1>1, StartBlockStep DEF ClusterSends, SendsNothing, ChainInv
<1>2. ASSUME NEW s \in Slots, Execute(s)
      PROVE  ChainTypeOK' /\ BlockStep /\ ClusterSends /\ Below
  <2>1. /\ ChainTypeOK' /\ BlockStep /\ UNCHANGED root
        /\ \A r \in Slots : block'[r].parent < r /\ (Rooted(r)' => Rooted(r))
    BY <1>2, ExecuteStep, Zenon
  <2>2. \/ log' = log
        \/ \E u \in Updates : /\ Sends(u) /\ u.slot = s /\ u.kind # "slot"
                              /\ block[s].phase = "open"
    BY <1>2, ExecuteStep, Zenon
  <2>3. SendsNothing \/ \E u \in Updates : SendsItem(u)
    BY <2>1, <2>2, Zenon DEF SendsNothing, SendsItem
  <2>4. Below
    BY <2>1 DEF ChainInv
  <2> QED BY <2>1, <2>3, <2>4, Zenon DEF ClusterSends
<1>3. ASSUME NEW s \in Slots, NEW from, NEW to, Settle(s, from, to), UNCHANGED root,
             from \in {{"open"}, {"processed"}}, to # "finalized",
             "open" \notin from => to = "confirmed"
      PROVE  ChainTypeOK' /\ BlockStep /\ ClusterSends /\ Below
  <2>0. /\ from \in {{"open"}, {"processed"}, {"processed", "confirmed"}}
        /\ "open" \notin from => to \in {"confirmed", "finalized"}
    BY <1>3, Zenon
  <2>1. /\ block' \in [Slots -> Block] /\ log' \in Seq(Updates) /\ BlockStep
        /\ \A r \in Slots : /\ block'[r].parent < r
                            /\ block'[r].phase = IF r = s THEN to ELSE block[r].phase
    BY <1>3, <2>0, SettleStep, ZenonT(60)
  <2>2. log' = log \/ \E u \in Updates : Sends(u) /\ u.kind = "slot" /\ u.slot = s /\ u.status = to
    BY <1>3, <2>0, SettleStep
  <2>3. ChainTypeOK'
    BY <1>3, <2>1 DEF ChainTypeOK
  <2>4. \A r \in Slots : Rooted(r)' => Rooted(r)
    BY <1>3, <2>1 DEF Rooted
  <2>5. SendsNothing \/ \E u \in Updates : SendsStatus(u)
    BY <1>3, <2>2, <2>4, Zenon DEF SendsNothing, SendsStatus
  <2>6. Below
    BY <1>3, <2>1, <2>4 DEF ChainInv
  <2> QED BY <2>1, <2>3, <2>5, <2>6, Zenon DEF ClusterSends
<1>4. ASSUME NEW s \in Slots, Root(s)
      PROVE  ChainTypeOK' /\ BlockStep /\ ClusterSends /\ Below
  <2>1. Settle(s, {"processed", "confirmed"}, "finalized") /\ root' = s /\ block[s].parent = root
    BY <1>4, Zenon DEF Root
  <2>2. /\ block' \in [Slots -> Block] /\ log' \in Seq(Updates) /\ BlockStep
        /\ \A r \in Slots : /\ block'[r].parent < r
                            /\ block'[r].phase = IF r = s THEN "finalized" ELSE block[r].phase
    BY <2>1, SettleStep
  <2>3. \/ log' = log /\ "finalized" \notin Statuses
        \/ \E u \in Updates : /\ Sends(u) /\ u.kind = "slot" /\ u.slot = s
                              /\ u.status = "finalized" /\ "finalized" \in Statuses
    BY <2>1, SettleStep
  <2>4. root < s /\ root \in Int /\ s \in 0 .. MaxSlot
    BY <2>1, SlotFacts, StoreAssumption DEF ChainInv, ChainTypeOK
  <2>5. ChainTypeOK'
    BY <2>1, <2>2, <2>4 DEF ChainTypeOK
  <2>6. \A r \in Slots : Rooted(r)' => Rooted(r) \/ r = s
    BY <2>2 DEF Rooted
  <2>7. SendsNothing \/ \E u \in Updates : SendsRoot(u)
    BY <2>3, <2>4, <2>6, Zenon DEF SendsNothing, SendsRoot
  <2>8. Below
    <3> SUFFICES ASSUME NEW r \in Slots PROVE block'[r].parent < r /\ (Rooted(r)' => r <= root')
      OBVIOUS
    <3>1. Rooted(r) => r <= root
      BY DEF ChainInv
    <3> QED BY <2>1, <2>2, <2>4, <2>6, <3>1, SlotFacts
  <2> QED BY <2>2, <2>5, <2>7, <2>8, Zenon DEF ClusterSends
<1>5. ChainTypeOK' /\ BlockStep /\ ClusterSends /\ Below
  <2>1. ASSUME NEW s \in Slots, Freeze(s) \/ Die(s) \/ Confirm(s)
        PROVE  ChainTypeOK' /\ BlockStep /\ ClusterSends /\ Below
    <3>1. CASE Freeze(s)
      <4>1. Settle(s, {"open"}, "processed") /\ UNCHANGED root
        BY <3>1, Zenon DEF Freeze
      <4> QED BY <4>1, <1>3
    <3>2. CASE Die(s)
      <4>1. Settle(s, {"open"}, "dead") /\ UNCHANGED root
        BY <3>2, Zenon DEF Die
      <4> QED BY <4>1, <1>3
    <3>3. CASE Confirm(s)
      <4>1. Settle(s, {"processed"}, "confirmed") /\ UNCHANGED root
        BY <3>3, Zenon DEF Confirm
      <4> QED BY <4>1, <1>3
    <3> QED BY <2>1, <3>1, <3>2, <3>3
  <2> QED BY <1>1, <1>2, <1>4, <2>1, Zenon DEF Cluster
<1>6. \A i \in DOMAIN log' : Honest(log[i])'
  <2> SUFFICES ASSUME NEW i \in DOMAIN log' PROVE Honest(log[i])'
    OBVIOUS
  <2>1. CASE log' = log
    <3>1. PICK u \in Updates : u = log[i] /\ Honest(u)
      BY <2>1 DEF ChainInv, ChainTypeOK
    <3>2. Honest(u)'
      BY <1>5, <3>1, HonestStays, Zenon
    <3> QED BY <2>1, <3>1, <3>2
  <2>2. ASSUME NEW u \in Updates, Sends(u) PROVE Honest(log[i])'
    <3>1. log' = Append(log, u) /\ Honest(u)' /\ log \in Seq(Updates)
      BY <2>2 DEF Sends, ChainTypeOK
    <3>2. CASE i \in DOMAIN log
      <4>1. PICK w \in Updates : w = log[i] /\ Honest(w)
        BY <3>1, <3>2 DEF ChainInv
      <4>2. log'[i] = w
        BY <3>1, <3>2, <4>1
      <4>3. Honest(w)'
        BY <1>5, <4>1, HonestStays, Zenon
      <4> QED BY <4>2, <4>3
    <3>3. CASE i \notin DOMAIN log
      <4>1. log'[i] = u
        BY <3>1, <3>3
      <4> QED BY <3>1, <4>1
    <3> QED BY <3>2, <3>3
  <2> QED BY <1>5, <2>1, <2>2, Zenon
       DEF ClusterSends, SendsNothing, SendsItem, SendsStatus, SendsRoot
<1> QED BY <1>5, <1>6, Zenon DEF ChainInv

(***************************************************************************)
(* The store, as the engine calls it.                                      *)
(***************************************************************************)
Upserts(u) ==
    /\ engine.at = "upsert" /\ u = engine.update /\ u.kind = "slot" /\ Honest(u)
    /\ UpsertSlot(u)
TakesAccount(u) ==
    /\ queue # <<>> /\ u = Head(queue) /\ u.kind = "account"
    /\ InsertAccount(u.version, "processed")
Finalizes(s) ==
    /\ engine.at = "finalize" /\ IsFinal(engine.update, s)
    /\ FinalizeSlot(s)
OnlyGaps == UNCHANGED <<slotRow, checkpoint, rawAccounts, rawEvents, staged, proj, newest>>

StoreCall ==
    \/ OnlyGaps
    \/ \E u \in Updates : Upserts(u) \/ TakesAccount(u)
    \/ \E t \in Txs, s \in Slots, c \in {"processed", "confirmed"} : InsertEvent(t, s, c)
    \/ \E s \in Slots : Finalizes(s)

\* What a step may do to the gap table.
GapStep ==
    /\ gaps' \in [Slots \X Slots -> GapStatus]
    /\ \A g \in Slots \X Slots :
          /\ gaps[g] # "none" => gaps'[g] # "none"
          /\ gaps'[g] \in {gaps[g], "open", "failed", "partial"}

\* A queue without its first element.
LEMMA HeadFacts ==
    ASSUME NEW S, NEW q \in Seq(S), q # <<>>
    PROVE  /\ Head(q) \in S /\ Head(q) = q[1] /\ 1 \in DOMAIN q
           /\ Tail(q) \in Seq(S) /\ Len(Tail(q)) = Len(q) - 1 /\ Len(q) \in Nat \ {0}
           /\ DOMAIN q = 1 .. Len(q) /\ DOMAIN Tail(q) = 1 .. Len(q) - 1
           /\ \A k \in DOMAIN Tail(q) : k + 1 \in DOMAIN q /\ Tail(q)[k] = q[k + 1]
OBVIOUS

\* No gap is touched.
LEMMA GapsUnchanged ==
    ASSUME gaps \in [Slots \X Slots -> GapStatus], gaps' = gaps
    PROVE  GapStep
BY DEF GapStep

\* Recording a gap adds it and touches no other.
LEMMA RecordGapStep ==
    ASSUME gaps \in [Slots \X Slots -> GapStatus], NEW g \in Slots \X Slots, RecordGap(g)
    PROVE  GapStep /\ gaps'[g] # "none" /\ OnlyGaps
<1>1. gaps' = [gaps EXCEPT ![g] = IF gaps[g] = "none" THEN "open" ELSE gaps[g]]
  BY Zenon DEF RecordGap
<1>2. OnlyGaps
  BY Zenon DEF RecordGap, OnlyGaps
<1> DEFINE n == IF gaps[g] = "none" THEN "open" ELSE gaps[g]
<1>3. n \in GapStatus /\ n # "none" /\ n \in {gaps[g], "open"}
  BY DEF GapStatus
<1> HIDE DEF n
<1>4. gaps' = [gaps EXCEPT ![g] = n]
  BY <1>1 DEF n
<1>5. GapStep /\ gaps'[g] # "none"
  BY <1>3, <1>4 DEF GapStep
<1> QED BY <1>2, <1>5

\* Marking a gap forgets none.
LEMMA MarkGapStep ==
    ASSUME gaps \in [Slots \X Slots -> GapStatus], NEW g \in Slots \X Slots,
           NEW c \in {"failed", "partial"}, MarkGap(g, c)
    PROVE  GapStep /\ OnlyGaps
<1>1. OnlyGaps
  BY Zenon DEF MarkGap, OnlyGaps
<1> DEFINE n == IF gaps[g] = "none" THEN gaps[g] ELSE c
<1>2. gaps' = [gaps EXCEPT ![g] = n]
  BY Zenon DEF MarkGap
<1>3. n \in GapStatus /\ (gaps[g] # "none" => n # "none") /\ n \in {gaps[g], "failed", "partial"}
  BY DEF GapStatus
<1> HIDE DEF n
<1>4. GapStep
  BY <1>2, <1>3 DEF GapStep
<1> QED BY <1>1, <1>4

\* Every step of the engine is one call of the store, or none.
LEMMA StoreCalls ==
    ASSUME TypeOK, UpdateInv, RepairInv, EngineStep
    PROVE  StoreCall /\ GapStep
<1>1. gaps \in [Slots \X Slots -> GapStatus] /\ queue \in Seq(Updates)
  BY DEF TypeOK, StoreTypeOK
<1>2. CASE UNCHANGED storeVars
  BY <1>1, <1>2, GapsUnchanged, Zenon DEF storeVars, StoreCall, OnlyGaps
<1>3. CASE TakeAccount
  <2>0. CASE Fail
    BY <1>2, <2>0, Zenon DEF Fail
  <2> SUFFICES ASSUME ~Fail PROVE StoreCall /\ GapStep
    BY <2>0
  <2>1. queue # <<>> /\ Head(queue).kind = "account" /\ InsertAccount(Head(queue).version, "processed")
    BY <1>3, Zenon DEF TakeAccount, Waiting, Received
  <2>2. PICK u \in Updates : u = Head(queue)
    BY <1>1, <2>1, HeadFacts, Zenon
  <2>3. TakesAccount(u) /\ gaps' = gaps
    BY <2>1, <2>2, Zenon DEF TakesAccount, InsertAccount
  <2> QED BY <1>1, <2>3, GapsUnchanged, Zenon DEF StoreCall
<1>4. CASE TakeEvent
  <2>1. /\ queue # <<>> /\ Head(queue).kind = "event"
        /\ InsertEvent(Head(queue).tx, Head(queue).slot, "processed")
    BY <1>4, Zenon DEF TakeEvent, Take, Waiting, Received
  <2>2. Head(queue).tx \in Txs /\ Head(queue).slot \in Slots
    BY <1>1, <2>1, HeadFacts, UpdateFacts, Zenon
  <2>3. gaps' = gaps
    BY <2>1, Zenon DEF InsertEvent
  <2> QED BY <1>1, <2>1, <2>2, <2>3, GapsUnchanged, Zenon DEF StoreCall
<1>5. CASE TakeSlot
  <2>1. UNCHANGED storeVars \/ (Gap(Received.slot) # NoGap /\ RecordGap(Gap(Received.slot)))
    BY <1>5, Zenon DEF TakeSlot
  <2>2. Received \in Updates /\ Received.slot \in Slots
    BY <1>1, <1>5, HeadFacts, UpdateFacts, Zenon DEF TakeSlot, Take, Waiting, Received
  <2>3. Gap(Received.slot) # NoGap => Gap(Received.slot) \in Slots \X Slots
    <3>1. engine.last \in 0 .. MaxSlot
      BY DEF TypeOK
    <3> QED BY <2>2, <3>1, StoreAssumption DEF Gap, DetectForwardGap, Slots
  <2>4. CASE Gap(Received.slot) # NoGap /\ RecordGap(Gap(Received.slot))
    <3>1. PICK g \in Slots \X Slots : g = Gap(Received.slot)
      BY <2>3, <2>4, Zenon
    <3> QED BY <1>1, <2>4, <3>1, RecordGapStep, Zenon DEF StoreCall
  <2> QED BY <1>2, <2>1, <2>4
<1>6. CASE Upsert
  <2>1. UNCHANGED storeVars \/ UpsertSlot(engine.update)
    BY <1>6, Zenon DEF Upsert, Fail
  <2>2. PICK u \in Updates : u = engine.update /\ u.kind = "slot" /\ Honest(u) /\ engine.at = "upsert"
    BY <1>6, Zenon DEF UpdateInv, Upsert
  <2>3. CASE UpsertSlot(engine.update)
    <3>1. Upserts(u) /\ gaps' = gaps
      BY <2>2, <2>3, Zenon DEF Upserts, UpsertSlot
    <3> QED BY <1>1, <3>1, GapsUnchanged, Zenon DEF StoreCall
  <2> QED BY <1>2, <2>1, <2>3
<1>7. CASE Finalize
  <2>0. CASE Fail
    BY <1>2, <2>0, Zenon DEF Fail
  <2> SUFFICES ASSUME ~Fail PROVE StoreCall /\ GapStep
    BY <2>0
  <2>1. engine.at = "finalize" /\ FinalizeSlot(engine.update.slot)
    BY <1>7, Zenon DEF Finalize
  <2>2. engine.update \in Updates /\ engine.update.kind = "slot" /\ engine.update.status = "finalized"
    BY <2>1, Zenon DEF UpdateInv
  <2>3. PICK s \in Slots : s = engine.update.slot
    BY <2>2, UpdateFacts, Zenon
  <2>4. Finalizes(s) /\ gaps' = gaps
    BY <2>1, <2>2, <2>3, Zenon DEF Finalizes, IsFinal, FinalizeSlot
  <2> QED BY <1>1, <2>4, GapsUnchanged, Zenon DEF StoreCall
<1>8. CASE EndRepair
  <2>1. engine.gap \in Slots \X Slots
    <3>1. engine.gap # NoGap
      BY <1>8, Zenon DEF EndRepair, RepairTooLong, FetchFails, ReconcileAccounts, Fetching, RepairInv
    <3> QED BY <3>1 DEF TypeOK
  <2>2. PICK g \in Slots \X Slots : g = engine.gap
    BY <2>1, Zenon
  <2>3. MarkGap(g, "failed") \/ MarkGap(g, "partial")
    BY <1>8, <2>2, Zenon DEF EndRepair, RepairTooLong, FetchFails, ReconcileAccounts
  <2> QED BY <1>1, <2>3, MarkGapStep DEF StoreCall
<1>9. CASE FetchSlot
  BY <1>2, <1>9, Zenon DEF FetchSlot
<1>10. CASE RepairSlot
  BY <1>2, <1>10, Zenon DEF RepairSlot, Fail
<1>11. CASE RepairEvent
  <2>1. PICK i \in engine.todo \ {0} :
           InsertEvent(block[Fetched].content[i].tx, Fetched, "confirmed")
    BY <1>11, Zenon DEF RepairEvent
  <2>2. Fetched \in Slots /\ i \in DOMAIN block[Fetched].content
        /\ block[Fetched].content[i].kind = "event"
    BY <2>1, Zenon DEF RepairInv
  <2>3. ChainTypeOK
    BY DEF TypeOK, ChainTypeOK, Block
  <2>4. block[Fetched].content[i].tx \in Txs
    BY <2>2, <2>3, ItemFacts, Zenon
  <2>5. gaps' = gaps
    BY <2>1, Zenon DEF InsertEvent
  <2>6. PICK t \in Txs, s \in Slots : InsertEvent(t, s, "confirmed")
    BY <2>1, <2>2, <2>4, Zenon
  <2> QED BY <1>1, <2>5, <2>6, GapsUnchanged, Zenon DEF StoreCall
<1> QED BY <1>3, <1>4, <1>5, <1>6, <1>7, <1>8, <1>9, <1>10, <1>11, Zenon DEF EngineStep

(***************************************************************************)
(* Types of the tables.                                                    *)
(***************************************************************************)
\* The latest of what is applied now and what was applied before exists.
LEMMA NewestOfFacts ==
    ASSUME StoreTypeOK, NEW s \in Slots, NEW a \in Addrs
    PROVE  LET rows == {v \in staged : v.slot = s /\ v.addr = a} \cup {newest[a]}
           IN  /\ NewestOf(s, a) \in rows
               /\ \A w \in rows \ {NoRow} :
                     NewestOf(s, a) # NoRow /\ LaterOf(NewestOf(s, a), w) = NewestOf(s, a)
<1> DEFINE now == {v \in staged : v.slot = s /\ v.addr = a}
           rows == now \cup {newest[a]}
           Last(v) == \A w \in rows \ {NoRow} : v # NoRow /\ LaterOf(v, w) = v
<1>1. newest[a] \in Versions \cup {NoRow} /\ staged \subseteq Versions
  BY DEF StoreTypeOK
<1>2. \A v \in now : v \in Versions /\ v # NoRow /\ v.slot = s /\ v.write \in 0 .. MaxVersion
  BY <1>1, VersionFacts, StoreAssumption
<1>3. s \in Int
  BY SlotFacts
<1>4. newest[a] # NoRow => newest[a].slot \in Int /\ newest[a].write \in Int
  BY <1>1, VersionFacts, SlotFacts, StoreAssumption
<1>5. CASE now = {}
  <2>1. newest[a] # NoRow => LaterOf(newest[a], newest[a]) = newest[a]
    BY <1>4 DEF LaterOf
  <2>2. newest[a] \in rows /\ Last(newest[a])
    BY <1>5, <2>1, Zenon
  <2> QED BY <2>2, Zenon DEF NewestOf
<1>6. CASE now # {}
  <2> DEFINE W == {v.write : v \in now}
  <2>1. W \subseteq 0 .. MaxVersion /\ W # {} /\ MaxVersion \in Nat
    BY <1>2, <1>6, StoreAssumption
  <2>2. PICK x \in W : \A y \in W : x >= y
    BY <2>1, GreatestOf, Zenon
  <2>3. PICK l \in now : \A w \in now : l.write >= w.write
    BY <2>2
  <2>4. \A w \in now : LaterOf(l, w) = l
    BY <1>2, <1>3, <2>3 DEF LaterOf
  <2>5. CASE newest[a] = NoRow \/ LaterOf(l, newest[a]) = l
    <3>1. l \in rows /\ Last(l)
      BY <1>2, <2>4, <2>5, Zenon
    <3> QED BY <3>1, Zenon DEF NewestOf
  <2>6. CASE newest[a] # NoRow /\ LaterOf(l, newest[a]) # l
    <3>1. newest[a].slot > s \/ (newest[a].slot = s /\ newest[a].write > l.write)
      BY <1>2, <1>3, <1>4, <2>6, StoreAssumption DEF LaterOf
    <3>2. \A w \in now : LaterOf(newest[a], w) = newest[a]
      BY <1>2, <1>3, <1>4, <2>3, <2>6, <3>1, StoreAssumption DEF LaterOf
    <3>3. LaterOf(newest[a], newest[a]) = newest[a]
      BY <1>4, <2>6 DEF LaterOf
    <3>4. newest[a] \in rows /\ Last(newest[a])
      BY <2>6, <3>2, <3>3, Zenon
    <3> QED BY <3>4, Zenon DEF NewestOf
  <2> QED BY <2>5, <2>6
<1> QED BY <1>5, <1>6

\* The history of applied versions holds versions.
LEMMA NewestTyped ==
    ASSUME StoreTypeOK, StoreCall
    PROVE  newest' \in [Addrs -> Versions \cup {NoRow}]
<1>1. newest \in [Addrs -> Versions \cup {NoRow}]
  BY DEF StoreTypeOK
<1>2. ASSUME NEW u \in Updates, TakesAccount(u)
      PROVE  newest' \in [Addrs -> Versions \cup {NoRow}]
  <2>1. u.version \in Versions /\ u.version.addr \in Addrs
    BY <1>2, UpdateFacts, VersionFacts, Zenon DEF TakesAccount
  <2> DEFINE v == u.version
             n == LaterOf(v, newest[v.addr])
  <2>2. newest' = newest \/ newest' = [newest EXCEPT ![v.addr] = n]
    BY <1>2, Zenon DEF TakesAccount, InsertAccount, ApplyProjection
  <2>3. n \in Versions \cup {NoRow}
    BY <1>1, <2>1, Zenon DEF LaterOf
  <2> HIDE DEF n, v
  <2> QED BY <1>1, <2>2, <2>3
<1>3. ASSUME NEW s \in Slots, Finalizes(s)
      PROVE  newest' \in [Addrs -> Versions \cup {NoRow}]
  <2>1. newest' = [a \in Addrs |-> NewestOf(s, a)]
    BY <1>3, Zenon DEF Finalizes, FinalizeSlot
  <2>2. \A a \in Addrs : NewestOf(s, a) \in Versions \cup {NoRow}
    <3> SUFFICES ASSUME NEW a \in Addrs PROVE NewestOf(s, a) \in Versions \cup {NoRow}
      OBVIOUS
    <3>1. NewestOf(s, a) \in {v \in staged : v.slot = s /\ v.addr = a} \cup {newest[a]}
      BY NewestOfFacts, Zenon
    <3>2. staged \subseteq Versions
      BY DEF StoreTypeOK
    <3> QED BY <1>1, <3>1, <3>2
  <2> QED BY <2>1, <2>2, Zenon
<1>4. CASE newest' = newest
  BY <1>1, <1>4
<1>5. \A u \in Updates : Upserts(u) => newest' = newest
  BY Zenon DEF Upserts, UpsertSlot
<1>6. \A t \in Txs, s \in Slots, c \in {"processed", "confirmed"} :
          InsertEvent(t, s, c) => newest' = newest
  BY Zenon DEF InsertEvent
<1> QED BY <1>2, <1>3, <1>4, <1>5, <1>6, Zenon DEF StoreCall, OnlyGaps

\* What becomes of an event row: it is kept, taken away with its dead slot,
\* written by its first report, or finalized with its slot.
EventStep ==
    \A t \in Txs :
        \/ rawEvents'[t] = rawEvents[t]
        \/ rawEvents'[t].commitment # "finalized"
        \/ /\ rawEvents'[t].slot \in Slots
           /\ \/ slotRow[rawEvents'[t].slot].status = "finalized"
              \/ Pending(rawEvents'[t].slot)

\* Every call of the store does one of these to every event row.
LEMMA EventsStep ==
    ASSUME StoreTypeOK, StoreCall
    PROVE  rawEvents' \in [Txs -> EventRow] /\ EventStep
<1>1. rawEvents \in [Txs -> EventRow]
  BY DEF StoreTypeOK
<1>2. CASE rawEvents' = rawEvents
  BY <1>1, <1>2 DEF EventStep
<1>3. ASSUME NEW u \in Updates, Upserts(u), rawEvents' # rawEvents
      PROVE  rawEvents' \in [Txs -> EventRow] /\ EventStep
  <2> DEFINE none == [slot |-> 0, commitment |-> "none"]
  <2>1. rawEvents' = [t \in Txs |->
            IF rawEvents[t].slot = u.slot /\ rawEvents[t].commitment # "finalized"
            THEN none ELSE rawEvents[t]]
    BY <1>3, Zenon DEF Upserts, UpsertSlot, CleanupDeadSlot
  <2>2. none \in EventRow /\ none.commitment # "finalized"
    BY StoreAssumption DEF EventRow
  <2> HIDE DEF none
  <2>3. \A t \in Txs : rawEvents'[t] \in {none, rawEvents[t]}
    BY <2>1, Zenon
  <2>4. rawEvents' \in [Txs -> EventRow]
    BY <1>1, <2>1, <2>2
  <2>5. EventStep
    BY <2>2, <2>3, Zenon DEF EventStep
  <2> QED BY <2>4, <2>5
<1>4. ASSUME NEW t \in Txs, NEW s \in Slots, NEW c \in {"processed", "confirmed"},
             InsertEvent(t, s, c), rawEvents' # rawEvents
      PROVE  rawEvents' \in [Txs -> EventRow] /\ EventStep
  <2> DEFINE row == [slot |-> s, commitment |-> IF slotRow[s].status = "finalized"
                                                THEN "finalized" ELSE c]
  <2>1. rawEvents' = [rawEvents EXCEPT ![t] = row]
    BY <1>4, Zenon DEF InsertEvent
  <2>2. row \in EventRow /\ row.slot = s
        /\ (row.commitment = "finalized" => slotRow[s].status = "finalized")
    BY SlotFacts DEF EventRow, Commitments
  <2> HIDE DEF row
  <2>3. rawEvents' \in [Txs -> EventRow]
    BY <1>1, <2>1, <2>2
  <2>4. \A x \in Txs : rawEvents'[x] = IF x = t THEN row ELSE rawEvents[x]
    BY <1>1, <2>1
  <2>5. EventStep
    BY <2>2, <2>4, Zenon DEF EventStep
  <2> QED BY <2>3, <2>5
<1>5. ASSUME NEW s \in Slots, Finalizes(s)
      PROVE  rawEvents' \in [Txs -> EventRow] /\ EventStep
  <2>1. rawEvents' = [t \in Txs |-> IF rawEvents[t].slot = s
                        THEN [rawEvents[t] EXCEPT !.commitment = "finalized"] ELSE rawEvents[t]]
    BY <1>5, Zenon DEF Finalizes, FinalizeSlot
  <2>2. \A t \in Txs : /\ [rawEvents[t] EXCEPT !.commitment = "finalized"] \in EventRow
                       /\ [rawEvents[t] EXCEPT !.commitment = "finalized"].slot = rawEvents[t].slot
    BY <1>1 DEF EventRow, Commitments
  <2>3. rawEvents' \in [Txs -> EventRow]
    BY <1>1, <2>1, <2>2
  <2>4. Pending(s)
    BY <1>5, Zenon DEF Finalizes, Pending
  <2>5. EventStep
    <3> SUFFICES ASSUME NEW t \in Txs, rawEvents'[t] # rawEvents[t]
                 PROVE  rawEvents'[t].slot \in Slots /\ Pending(rawEvents'[t].slot)
      BY Zenon DEF EventStep
    <3>1. rawEvents'[t].slot = s
      BY <2>1, <2>2, Zenon
    <3> QED BY <2>4, <3>1
  <2> QED BY <2>3, <2>5
<1>6. \A u \in Updates : TakesAccount(u) => rawEvents' = rawEvents
  BY Zenon DEF TakesAccount, InsertAccount
<1> QED BY <1>2, <1>3, <1>4, <1>5, <1>6, Zenon DEF StoreCall, OnlyGaps

\* The store's own invariants hold of it under the engine's calls.
LEMMA StoreStep ==
    ASSUME StoreTypeOK, CheckpointSound, RowsInv, StoreCall, GapStep
    PROVE  StoreTypeOK' /\ CheckpointSound' /\ RowsInv' /\ SlotStep
<1>1. SlotsTypeOK
  BY DEF StoreTypeOK, SlotsTypeOK, SlotRows, Checkpoints
<1>2. SlotsTypeOK' /\ CheckpointSound' /\ SlotStep /\ RowsInv'
  <2>1. ASSUME NEW u \in Updates, Upserts(u)
        PROVE  SlotsTypeOK' /\ CheckpointSound' /\ SlotStep /\ RowsInv'
    <3>1. IsSlotUpdate(u) /\ UpsertSlot(u)
      BY <2>1, UpdateFacts, Zenon DEF Upserts
    <3> QED BY <1>1, <3>1, UpsertStep, UpsertRows, Zenon
  <2>2. ASSUME NEW u \in Updates, TakesAccount(u)
        PROVE  SlotsTypeOK' /\ CheckpointSound' /\ SlotStep /\ RowsInv'
    <3>1. u.version \in Versions /\ InsertAccount(u.version, "processed") /\ "processed" \in Commitments
      BY <2>2, UpdateFacts DEF TakesAccount, Commitments
    <3>2. UNCHANGED <<slotRow, checkpoint>>
      BY <3>1, Zenon DEF InsertAccount
    <3> QED BY <1>1, <3>1, <3>2, SlotsUntouched, InsertRows, Zenon
  <2>3. ASSUME NEW t \in Txs, NEW s \in Slots, NEW c \in {"processed", "confirmed"},
               InsertEvent(t, s, c)
        PROVE  SlotsTypeOK' /\ CheckpointSound' /\ SlotStep /\ RowsInv'
    <3>1. UNCHANGED <<slotRow, checkpoint>> /\ UNCHANGED <<rawAccounts, staged, proj>>
      BY <2>3, Zenon DEF InsertEvent
    <3> QED BY <1>1, <3>1, SlotsUntouched, RowsUntouched, Zenon
  <2>4. ASSUME NEW s \in Slots, Finalizes(s)
        PROVE  SlotsTypeOK' /\ CheckpointSound' /\ SlotStep /\ RowsInv'
    BY <1>1, <2>4, FinalizeStep, FinalizeRows, Zenon DEF Finalizes
  <2>5. CASE OnlyGaps
    <3>1. UNCHANGED <<slotRow, checkpoint>> /\ UNCHANGED <<rawAccounts, staged, proj>>
      BY <2>5, Zenon DEF OnlyGaps
    <3> QED BY <1>1, <3>1, SlotsUntouched, RowsUntouched, Zenon
  <2> QED BY <2>1, <2>2, <2>3, <2>4, <2>5, Zenon DEF StoreCall
<1>3. newest' \in [Addrs -> Versions \cup {NoRow}] /\ rawEvents' \in [Txs -> EventRow]
  BY NewestTyped, EventsStep, Zenon
<1>4. StoreTypeOK'
  BY <1>2, <1>3 DEF StoreTypeOK, SlotsTypeOK, SlotRows, Checkpoints, RowsInv, RowsTypeOK, GapStep
<1> QED BY <1>2, <1>4

(***************************************************************************)
(* The engine.                                                             *)
(***************************************************************************)
EngineInv == engine \in EngineState /\ UpdateInv /\ RepairInv

\* The parts of the engine have their types.
LEMMA EngineFacts ==
    ASSUME TypeOK
    PROVE  /\ engine \in EngineState /\ engine.last \in 0 .. MaxSlot
           /\ engine.fetch \in 0 .. MaxSlot /\ engine.todo \subseteq 0 .. MaxVersion
           /\ engine.gap # NoGap => engine.gap \in Slots \X Slots
           /\ queue \in Seq(Updates) /\ ChainTypeOK
BY DEF TypeOK, EngineState, ChainTypeOK, Block

\* Nothing is left of the engine's state in a process that stopped.
LEMMA StoppedInv ==
    ASSUME NEW at \in {"down", "failed", "idle"}, NEW last \in 0 .. MaxSlot,
           engine' = [at |-> at, last |-> last, update |-> NoUpdate, gap |-> NoGap,
                      fetch |-> 0, todo |-> {}]
    PROVE  EngineInv'
<1>1. engine'.at = at /\ engine'.gap = NoGap /\ engine'.todo = {}
  OBVIOUS
<1>2. engine' \in EngineState
  BY StoreAssumption DEF EngineState
<1>3. UpdateInv' /\ RepairInv'
  BY <1>1 DEF UpdateInv, RepairInv
<1> QED BY <1>2, <1>3 DEF EngineInv

\* So after an error of the store.
LEMMA FailStops ==
    ASSUME Fail
    PROVE  EngineInv' /\ engine'.at = "failed" /\ ~Running' /\ UNCHANGED storeVars /\ base' = base
<1>1. engine' = [Down EXCEPT !.at = "failed"] /\ UNCHANGED storeVars /\ base' = base
  BY Zenon DEF Fail, Stop
<1>2. engine' = [at |-> "failed", last |-> 0, update |-> NoUpdate, gap |-> NoGap,
                 fetch |-> 0, todo |-> {}]
  BY <1>1 DEF Down
<1>3. 0 \in 0 .. MaxSlot
  BY StoreAssumption
<1>4. EngineInv'
  BY <1>2, <1>3, StoppedInv
<1>5. engine'.at = "failed"
  BY <1>2
<1> QED BY <1>1, <1>4, <1>5 DEF Running

\* The chain moves on under an engine that stands still.
LEMMA EngineUntouched ==
    ASSUME TypeOK, UpdateInv, RepairInv, engine' = engine, BlockStep
    PROVE  EngineInv'
<1>1. UpdateInv'
  <2>1. engine.at \in {"upsert", "finalize"} =>
           \E u \in Updates : u = engine.update /\ Honest(u) /\ Honest(u)'
    BY HonestStays, Zenon DEF UpdateInv
  <2> QED BY <2>1 DEF UpdateInv
<1>2. RepairInv'
  <2>1. ASSUME engine.todo # {}
        PROVE  /\ Frozen(Fetched)' /\ block'[Fetched].content = block[Fetched].content
    <3>1. Fetched \in Slots /\ Frozen(Fetched)
      BY <2>1, Zenon DEF RepairInv
    <3>2. Fetched' = Fetched
      BY DEF Fetched
    <3> QED BY <3>1, <3>2 DEF Frozen, BlockStep
  <2>2. Fetched' = Fetched
    BY DEF Fetched
  <2> QED BY <2>1, <2>2, Zenon DEF RepairInv
<1>3. engine' \in EngineState
  BY EngineFacts
<1> QED BY <1>1, <1>2, <1>3 DEF EngineInv

\* A forward gap lies between the last slot and the new one.
LEMMA GapFacts ==
    ASSUME TypeOK, NEW s \in Slots, Gap(s) # NoGap
    PROVE  /\ Gap(s) \in Slots \X Slots
           /\ Gap(s)[1] = engine.last + 1 /\ Gap(s)[2] = s - 1
           /\ Gap(s)[1] <= Gap(s)[2] /\ engine.last # 0
<1>1. engine.last \in 0 .. MaxSlot
  BY EngineFacts
<1>2. engine.last # 0 /\ s > engine.last + 1 /\ Gap(s) = <<engine.last + 1, s - 1>>
  BY Zenon DEF Gap, DetectForwardGap
<1> QED BY <1>1, <1>2, StoreAssumption DEF Slots

\* Taking a slot update from the channel.
LEMMA TakeSlotInv ==
    ASSUME TypeOK, ChainInv, QueueInv, UpdateInv, RepairInv, TakeSlot, UNCHANGED chainVars
    PROVE  EngineInv'
<1>1. engine.at = "idle" /\ queue # <<>> /\ engine.todo = {}
  BY Zenon DEF TakeSlot, Take, Waiting, RepairInv
<1>2. PICK u \in Updates : u = Head(queue) /\ u.kind = "slot" /\ Honest(u)
  <2>1. Head(queue) \in Updates /\ Head(queue) = queue[1] /\ 1 \in DOMAIN queue
    BY <1>1, EngineFacts, HeadFacts, Zenon
  <2>2. Honest(Head(queue))
    BY <2>1 DEF QueueInv, ChainInv
  <2> QED BY <2>1, <2>2, Zenon DEF TakeSlot, Received
<1>3. u.slot \in Slots /\ u.slot \in 0 .. MaxSlot /\ Honest(u)'
  BY <1>2, UpdateFacts, SlotFacts DEF Honest, Rooted, chainVars
<1> DEFINE g == Gap(u.slot)
           f == IF g = NoGap THEN 0 ELSE g[1]
           n == Greatest(engine.last, u.slot)
<1>4. g # NoGap => /\ g \in Slots \X Slots /\ g[1] = engine.last + 1 /\ g[2] = u.slot - 1
                   /\ g[1] <= g[2]
  BY <1>3, GapFacts, Zenon
<1>5. engine' = [engine EXCEPT !.at = "upsert", !.update = u, !.last = n, !.gap = g, !.fetch = f]
  BY <1>2, Zenon DEF TakeSlot, Received
<1>6. n \in 0 .. MaxSlot /\ u.slot <= n
  BY <1>3, EngineFacts, GreatestFacts
<1>7. f \in 0 .. MaxSlot
  BY <1>4, SlotFacts, StoreAssumption
<1>8. g \in (Slots \X Slots) \cup {NoGap} /\ (g # NoGap => f = g[1])
  BY <1>4
<1> HIDE DEF g, f, n
<1>9. engine' \in EngineState
  BY <1>5, <1>6, <1>7, <1>8, EngineFacts DEF EngineState
<1>10. /\ engine'.at = "upsert" /\ engine'.update = u /\ engine'.last = n /\ engine'.gap = g
       /\ engine'.fetch = f /\ engine'.todo = {}
  BY <1>1, <1>5, EngineFacts DEF EngineState
<1>11. UpdateInv'
  BY <1>2, <1>3, <1>6, <1>10 DEF UpdateInv
<1>12. RepairInv'
  <2>1. g # NoGap => g[2] < n /\ g[1] <= f /\ f <= g[2] + 1
    BY <1>3, <1>4, <1>6, <1>8, EngineFacts, SlotFacts
  <2> QED BY <1>10, <2>1 DEF RepairInv
<1> QED BY <1>9, <1>11, <1>12 DEF EngineInv

\* Going on after a slot update.
LEMMA AfterSlotInv ==
    ASSUME TypeOK, UpdateInv, RepairInv, engine' = AfterSlot, UNCHANGED chainVars
    PROVE  EngineInv'
<1> DEFINE at == IF engine.gap = NoGap THEN "idle" ELSE "repair"
<1>1. engine' = [engine EXCEPT !.at = at, !.update = NoUpdate]
  BY DEF AfterSlot
<1>2. /\ at \in {"idle", "repair"} /\ (at = "repair" => engine.gap # NoGap)
      /\ at = "idle" => engine.gap = NoGap
  OBVIOUS
<1> HIDE DEF at
<1>3. /\ engine'.at = at /\ engine'.last = engine.last /\ engine'.gap = engine.gap
      /\ engine'.fetch = engine.fetch /\ engine'.todo = engine.todo /\ engine' \in EngineState
  BY <1>1, <1>2, EngineFacts DEF EngineState
<1>4. UpdateInv'
  BY <1>2, <1>3 DEF UpdateInv
<1>5. RepairInv'
  BY <1>2, <1>3, Zenon DEF RepairInv, chainVars, Fetched, Frozen
<1> QED BY <1>3, <1>4, <1>5 DEF EngineInv

\* Writing the row of a slot.
LEMMA UpsertInv ==
    ASSUME TypeOK, UpdateInv, RepairInv, Upsert, UNCHANGED chainVars
    PROVE  EngineInv'
<1>1. CASE Fail
  BY <1>1, FailStops
<1>2. CASE engine' = AfterSlot
  BY <1>2, AfterSlotInv
<1>3. CASE engine.update.status = "finalized" /\ engine' = [engine EXCEPT !.at = "finalize"]
  <2>1. /\ engine'.at = "finalize" /\ engine'.last = engine.last /\ engine'.gap = engine.gap
        /\ engine'.fetch = engine.fetch /\ engine'.todo = engine.todo
        /\ engine'.update = engine.update /\ engine' \in EngineState
    BY <1>3, EngineFacts DEF EngineState
  <2>2. engine.at = "upsert"
    BY Zenon DEF Upsert
  <2>3. Honest(engine.update)'
    BY <2>1, <2>2 DEF UpdateInv, Honest, Rooted, chainVars
  <2>4. UpdateInv'
    BY <1>3, <2>1, <2>2, <2>3 DEF UpdateInv
  <2>5. RepairInv'
    BY <2>1, Zenon DEF RepairInv, chainVars, Fetched, Frozen
  <2> QED BY <2>1, <2>4, <2>5 DEF EngineInv
<1> QED BY <1>1, <1>2, <1>3, Zenon DEF Upsert

\* Ending a repair with its mark.
LEMMA EndRepairInv ==
    ASSUME TypeOK, UpdateInv, RepairInv, EndRepair, UNCHANGED chainVars
    PROVE  EngineInv'
<1>1. engine' = [engine EXCEPT !.at = "idle", !.gap = NoGap, !.fetch = 0]
  BY Zenon DEF EndRepair
<1>2. engine.todo = {}
  <2>1. CASE RepairTooLong
    <3>1. engine.gap[2] - engine.gap[1] + 1 > MaxBackfill /\ engine.gap \in Slots \X Slots
      BY <2>1, EngineFacts DEF RepairTooLong, RepairInv
    <3>2. MaxBackfill \in Nat /\ engine.gap[1] \in Int /\ engine.gap[2] \in Int
      BY <3>1, SlotFacts, IndexerAssumption
    <3>3. ~(engine.gap[2] - engine.gap[1] + 1 <= MaxBackfill)
      BY <3>1, <3>2
    <3> QED BY <3>3, Zenon DEF RepairInv
  <2> QED BY <2>1, Zenon DEF EndRepair, FetchFails, ReconcileAccounts, Fetching
<1>3. engine'.at = "idle" /\ engine'.gap = NoGap /\ engine'.todo = {}
  BY <1>1, <1>2, EngineFacts DEF EngineState
<1>4. engine' \in EngineState
  <2>1. 0 \in 0 .. MaxSlot
    BY StoreAssumption
  <2> QED BY <1>1, <2>1, EngineFacts DEF EngineState
<1> QED BY <1>3, <1>4 DEF EngineInv, UpdateInv, RepairInv

\* Fetching a block of a gap.
LEMMA FetchSlotInv ==
    ASSUME TypeOK, UpdateInv, RepairInv, FetchSlot, UNCHANGED chainVars
    PROVE  EngineInv'
<1> DEFINE n == engine.fetch
           items == FetchedItems(n)
<1>1. /\ engine.at = "repair" /\ engine.gap \in Slots \X Slots /\ engine.gap # NoGap
      /\ engine.gap[2] - engine.gap[1] + 1 <= MaxBackfill
      /\ n <= engine.gap[2] /\ Frozen(n)
      /\ engine.gap[2] < engine.last /\ engine.gap[1] <= n
  BY EngineFacts, Zenon DEF FetchSlot, Fetching, RepairInv
<1>2. engine' = [engine EXCEPT !.fetch = n + 1, !.todo = items]
  BY DEF FetchSlot
<1>3. n \in Slots /\ n + 1 \in 0 .. MaxSlot
  BY <1>1, EngineFacts, StoreAssumption, SMTT(30) DEF Slots
<1>4. items \subseteq 0 .. MaxVersion
  <2>1. \A i \in DOMAIN block[n].content : i \in 0 .. MaxVersion
    BY <1>3, EngineFacts, ItemFacts, StoreAssumption
  <2> QED BY <2>1, StoreAssumption DEF FetchedItems
<1>5. \A i \in items \ {0} : i \in DOMAIN block[n].content /\ block[n].content[i].kind = "event"
  BY DEF FetchedItems
<1> HIDE DEF items
<1>6. /\ engine'.at = "repair" /\ engine'.gap = engine.gap /\ engine'.last = engine.last
      /\ engine'.fetch = n + 1 /\ engine'.todo = items /\ engine' \in EngineState
  BY <1>1, <1>2, <1>3, <1>4, EngineFacts DEF EngineState
<1>7. Fetched' = n
  BY <1>3, <1>6, SlotFacts DEF Fetched
<1>8. UpdateInv'
  BY <1>6 DEF UpdateInv
<1>9. RepairInv'
  <2>1. engine.gap[1] <= n + 1 /\ n + 1 <= engine.gap[2] + 1
    BY <1>1, <1>3, SlotFacts
  <2>2. Frozen(Fetched)' /\ block' = block
    BY <1>1, <1>7 DEF Frozen, chainVars
  <2> QED BY <1>1, <1>3, <1>5, <1>6, <1>7, <2>1, <2>2 DEF RepairInv
<1> QED BY <1>6, <1>8, <1>9 DEF EngineInv

\* Writing the row of a fetched slot, which detects no gap of its own.
LEMMA RepairSlotInv ==
    ASSUME TypeOK, ChainInv, UpdateInv, RepairInv, RepairSlot, UNCHANGED chainVars
    PROVE  EngineInv' /\ Gap(Fetched) = NoGap
<1>1. /\ engine.at = "repair" /\ engine.todo # {} /\ Fetched \in Slots /\ Frozen(Fetched)
      /\ engine.gap \in Slots \X Slots /\ engine.gap[2] < engine.last /\ Fetched <= engine.gap[2]
  BY EngineFacts DEF RepairSlot, Ingests, RepairInv
<1>2. Fetched < engine.last /\ Fetched <= engine.last
  BY <1>1, EngineFacts, SlotFacts
<1>3. Gap(Fetched) = NoGap
  BY <1>1, <1>2, EngineFacts, SlotFacts DEF Gap, DetectForwardGap
<1>4. block[Fetched].parent \in Parents /\ "confirmed" \in Commitments
  BY <1>1, EngineFacts DEF ChainTypeOK, Block, Parents, Commitments
<1>5. PICK u \in Updates : /\ u = SlotUpdate(Fetched, block[Fetched].parent, "confirmed")
                           /\ u.kind = "slot" /\ u.slot = Fetched
                           /\ u.parent = block[Fetched].parent /\ u.status = "confirmed"
  BY <1>1, <1>4, SlotUpdateMade
<1> DEFINE rest == engine.todo \ {0}
<1>6. engine' = [engine EXCEPT !.at = "upsert", !.todo = rest, !.update = u]
  BY <1>3, <1>5, Zenon DEF RepairSlot
<1>7. rest \subseteq 0 .. MaxVersion /\ rest \subseteq engine.todo
  BY EngineFacts
<1> HIDE DEF rest
<1>8. /\ engine'.at = "upsert" /\ engine'.gap = engine.gap /\ engine'.last = engine.last
      /\ engine'.fetch = engine.fetch /\ engine'.todo = rest /\ engine'.update = u
      /\ engine' \in EngineState
  BY <1>6, <1>7, EngineFacts DEF EngineState
<1>9. Honest(u)'
  BY <1>1, <1>5 DEF Honest, Rooted, Frozen, chainVars
<1>10. UpdateInv'
  BY <1>2, <1>5, <1>8, <1>9 DEF UpdateInv
<1>11. Fetched' = Fetched /\ block' = block
  BY <1>8 DEF Fetched, chainVars
<1>12. RepairInv'
  <2>1. rest # {} => engine.todo # {}
    BY <1>7
  <2>2. Frozen(Fetched)' = Frozen(Fetched)
    BY <1>11 DEF Frozen
  <2> QED BY <1>7, <1>8, <1>11, <2>1, <2>2, Zenon DEF RepairInv
<1> QED BY <1>3, <1>8, <1>10, <1>12 DEF EngineInv

\* Recording an event of a fetched block.
LEMMA RepairEventInv ==
    ASSUME TypeOK, UpdateInv, RepairInv, RepairEvent, UNCHANGED chainVars
    PROVE  EngineInv'
<1>1. PICK i \in engine.todo \ {0} : engine.at = "repair" /\ engine' = [engine EXCEPT !.todo = @ \ {i}]
  BY Zenon DEF RepairEvent, Ingests
<1> DEFINE rest == engine.todo \ {i}
<1>2. rest \subseteq 0 .. MaxVersion /\ rest \subseteq engine.todo
  BY EngineFacts
<1>3. engine' = [engine EXCEPT !.todo = rest]
  BY <1>1
<1> HIDE DEF rest
<1>4. /\ engine'.at = "repair" /\ engine'.gap = engine.gap /\ engine'.last = engine.last
      /\ engine'.fetch = engine.fetch /\ engine'.todo = rest /\ engine' \in EngineState
  BY <1>1, <1>2, <1>3, EngineFacts DEF EngineState
<1>5. Fetched' = Fetched /\ block' = block
  BY <1>4 DEF Fetched, chainVars
<1>6. RepairInv'
  <2>1. rest # {} => engine.todo # {}
    BY <1>2
  <2>2. Frozen(Fetched)' = Frozen(Fetched)
    BY <1>5 DEF Frozen
  <2> QED BY <1>1, <1>2, <1>4, <1>5, <2>1, <2>2, Zenon DEF RepairInv
<1> QED BY <1>4, <1>6 DEF EngineInv, UpdateInv

(***************************************************************************)
(* The slot table.                                                         *)
(***************************************************************************)
SlotChange ==
    /\ \A s \in Slots :
          \/ slotRow'[s] = slotRow[s]
          \/ \E u \in Updates : Upserts(u) /\ u.slot = s /\ slotRow'[s] = Updated(u)
          \/ /\ Finalizes(s) /\ Known(s) /\ slotRow'[s].status = "finalized"
             /\ slotRow'[s].parent = slotRow[s].parent
    /\ \/ checkpoint'.processed = checkpoint.processed
       \/ /\ engine.at \in {"upsert", "finalize"}
          /\ checkpoint'.processed = engine.update.slot
    /\ \/ checkpoint'.finalized = checkpoint.finalized
       \/ \E s \in Slots : /\ Finalizes(s) /\ checkpoint'.finalized = s
                           /\ checkpoint.finalized < s
    /\ \A s \in Slots : Finalizes(s) => /\ s <= checkpoint'.finalized
                                        /\ slotRow'[s].status = "finalized"
    /\ \A u \in Updates : Upserts(u) =>
          /\ Known(u.slot)'
          /\ u.status \in {"finalized", "dead"} => slotRow'[u.slot].status = u.status

\* An accepted update makes its slot known and its final status stand.
LEMMA UpsertedStatus ==
    ASSUME StoreTypeOK, NEW u \in Updates, Upserts(u)
    PROVE  /\ Known(u.slot)'
           /\ u.status \in {"finalized", "dead"} => slotRow'[u.slot].status = u.status
<1>1. IsSlotUpdate(u) /\ UpsertSlot(u) /\ UpsertAccepted(u)
  BY UpdateFacts, Zenon DEF Upserts, UpsertSlot
<1>2. SlotsTypeOK
  BY DEF StoreTypeOK, SlotsTypeOK, SlotRows, Checkpoints
<1>3. u.slot \in Slots /\ u.status \in Commitments
      /\ slotRow[u.slot].status \in Commitments \cup {"none"}
  BY <1>1, <1>2 DEF IsSlotUpdate, SlotsTypeOK, SlotRows
<1>4. CASE Known(u.slot) /\ ~CanUpgrade(slotRow[u.slot].status, u.status)
  <2>1. slotRow' = slotRow
    BY <1>1, <1>4, Zenon DEF UpsertSlot
  <2>2. {slotRow[u.slot].status, u.status} # {"finalized", "dead"}
    BY <1>1, <1>4, Zenon DEF UpsertAccepted
  <2>3. u.status \in {"finalized", "dead"} => slotRow[u.slot].status = u.status
    <3>1. u.status = "finalized" => slotRow[u.slot].status # "dead"
      BY <2>2
    <3>2. u.status = "dead" => slotRow[u.slot].status # "finalized"
      BY <2>2
    <3> QED BY <1>3, <1>4, <3>1, <3>2 DEF CanUpgrade, Known, Commitments
  <2> QED BY <1>4, <2>1, <2>3 DEF Known
<1>5. CASE ~(Known(u.slot) /\ ~CanUpgrade(slotRow[u.slot].status, u.status))
  <2>1. slotRow' = [slotRow EXCEPT ![u.slot] = Updated(u)]
    BY <1>1, <1>5, Zenon DEF UpsertSlot, Updated
  <2>2. slotRow'[u.slot].status = u.status
    BY <1>1, <1>2, <2>1, UpdatedFacts, Zenon
  <2> QED BY <1>3, <2>2 DEF Known, Commitments
<1> QED BY <1>4, <1>5

\* What a call of the store may do to the slot table.
LEMMA SlotChanges ==
    ASSUME StoreTypeOK, StoreCall
    PROVE  SlotChange
<1>1. SlotsTypeOK /\ checkpoint \in Checkpoints
  BY DEF StoreTypeOK, SlotsTypeOK, SlotRows, Checkpoints
<1>2. /\ \A u \in Updates : Upserts(u) =>
          /\ Known(u.slot)'
          /\ u.status \in {"finalized", "dead"} => slotRow'[u.slot].status = u.status
  BY UpsertedStatus
<1>3. ASSUME NEW s \in Slots, Finalizes(s)
      PROVE  /\ slotRow'[s].status = "finalized" /\ slotRow'[s].parent = slotRow[s].parent
             /\ \A r \in Slots : r # s => slotRow'[r] = slotRow[r]
             /\ checkpoint'.finalized = Greatest(checkpoint.finalized, s)
             /\ checkpoint'.processed = Greatest(checkpoint.processed, s)
             /\ Known(s) /\ s = engine.update.slot /\ engine.at = "finalize"
  <2>1. /\ slotRow' = [slotRow EXCEPT ![s].status = "finalized"]
        /\ checkpoint' = [finalized |-> Greatest(checkpoint.finalized, s),
                          processed |-> Greatest(checkpoint.processed, s)]
        /\ Known(s) /\ s = engine.update.slot /\ engine.at = "finalize"
    BY <1>3, Zenon DEF Finalizes, FinalizeSlot, FinalizeAccepted, IsFinal
  <2> QED BY <1>1, <2>1 DEF SlotsTypeOK, SlotRows
<1>4. ASSUME NEW s \in Slots, Finalizes(s)
      PROVE  /\ checkpoint'.finalized \in {checkpoint.finalized, s}
             /\ s <= checkpoint'.finalized
             /\ checkpoint'.finalized # checkpoint.finalized => checkpoint.finalized < s
             /\ checkpoint'.processed \in {checkpoint.processed, s}
  <2>1. s \in Int /\ checkpoint.finalized \in Int /\ checkpoint.processed \in Int
    BY <1>1, SlotFacts DEF Checkpoints
  <2> QED BY <1>3, <1>4, <2>1 DEF Greatest
<1>5. ASSUME NEW u \in Updates, Upserts(u)
      PROVE  /\ \A s \in Slots : slotRow'[s] = slotRow[s] \/ (s = u.slot /\ slotRow'[s] = Updated(u))
             /\ checkpoint'.finalized = checkpoint.finalized
             /\ checkpoint'.processed \in {checkpoint.processed, u.slot}
             /\ engine.at = "upsert" /\ u = engine.update
  <2>1. IsSlotUpdate(u) /\ UpsertSlot(u) /\ engine.at = "upsert" /\ u = engine.update
    BY <1>5, UpdateFacts, Zenon DEF Upserts
  <2>2. CASE UNCHANGED <<slotRow, checkpoint>>
    BY <2>1, <2>2
  <2>3. CASE /\ slotRow' = [slotRow EXCEPT ![u.slot] = Updated(u)]
             /\ \/ checkpoint' = checkpoint
                \/ /\ checkpoint'.finalized = checkpoint.finalized
                   /\ checkpoint'.processed = Greatest(checkpoint.processed, u.slot)
    <3>1. \A s \in Slots : slotRow'[s] = slotRow[s] \/ (s = u.slot /\ slotRow'[s] = Updated(u))
      <4>1. /\ [slotRow EXCEPT ![u.slot] = Updated(u)][u.slot] = Updated(u)
            /\ \A s \in Slots : s # u.slot =>
                  [slotRow EXCEPT ![u.slot] = Updated(u)][s] = slotRow[s]
        <5>1. u.slot \in Slots
          BY <2>1 DEF IsSlotUpdate
        <5> QED BY <1>1, <5>1 DEF SlotsTypeOK, SlotRows
      <4>2. slotRow'[u.slot] = Updated(u) /\ \A s \in Slots : s # u.slot => slotRow'[s] = slotRow[s]
        BY <2>3, <4>1, Zenon
      <4> QED BY <4>2, Zenon
    <3>2. checkpoint'.finalized = checkpoint.finalized
      BY <2>3, Zenon
    <3>3. checkpoint'.processed \in {checkpoint.processed, u.slot}
      BY <2>3 DEF Greatest
    <3> QED BY <2>1, <3>1, <3>2, <3>3
  <2> QED BY <1>1, <2>1, <2>2, <2>3, UpsertEffect, Zenon
<1>6. CASE \E u \in Updates : Upserts(u)
  <2>1. PICK u \in Updates : Upserts(u)
    BY <1>6, Zenon
  <2>2. /\ \A s \in Slots : slotRow'[s] = slotRow[s] \/ (s = u.slot /\ slotRow'[s] = Updated(u))
        /\ checkpoint'.finalized = checkpoint.finalized
        /\ checkpoint'.processed \in {checkpoint.processed, u.slot}
        /\ engine.at = "upsert" /\ u = engine.update
    BY <1>5, <2>1, Zenon
  <2>3. \A s \in Slots : ~Finalizes(s)
    BY <2>2 DEF Finalizes
  <2> QED BY <1>2, <2>1, <2>2, <2>3, Zenon DEF SlotChange
<1>7. CASE \E s \in Slots : Finalizes(s)
  <2>1. PICK s \in Slots : Finalizes(s)
    BY <1>7, Zenon
  <2>2. \A r \in Slots : Finalizes(r) => r = s
    BY <1>3, <2>1, Zenon
  <2>3. /\ slotRow'[s].status = "finalized" /\ slotRow'[s].parent = slotRow[s].parent
        /\ \A r \in Slots : r # s => slotRow'[r] = slotRow[r]
        /\ Known(s) /\ s = engine.update.slot /\ engine.at = "finalize"
    BY <1>3, <2>1, Zenon
  <2>4. /\ checkpoint'.finalized \in {checkpoint.finalized, s}
        /\ s <= checkpoint'.finalized
        /\ checkpoint'.finalized # checkpoint.finalized => checkpoint.finalized < s
        /\ checkpoint'.processed \in {checkpoint.processed, s}
    BY <1>4, <2>1, Zenon
  <2> QED BY <1>2, <2>1, <2>2, <2>3, <2>4, Zenon DEF SlotChange
<1>8. CASE /\ UNCHANGED <<slotRow, checkpoint>>
           /\ ~\E u \in Updates : Upserts(u)
           /\ ~\E s \in Slots : Finalizes(s)
  BY <1>2, <1>8, Zenon DEF SlotChange
<1>9. CASE OnlyGaps
  <2>1. UNCHANGED <<slotRow, checkpoint>>
    BY <1>9, Zenon DEF OnlyGaps
  <2> QED BY <1>6, <1>7, <1>8, <2>1, Zenon
<1>10. ASSUME NEW u \in Updates, TakesAccount(u) PROVE UNCHANGED <<slotRow, checkpoint>>
  BY <1>10, Zenon DEF TakesAccount, InsertAccount
<1>11. ASSUME NEW t \in Txs, NEW s \in Slots, NEW c \in {"processed", "confirmed"},
              InsertEvent(t, s, c)
       PROVE  UNCHANGED <<slotRow, checkpoint>>
  BY <1>11, Zenon DEF InsertEvent
<1> QED BY <1>6, <1>7, <1>8, <1>9, <1>10, <1>11, Zenon DEF StoreCall

\* A known slot stays known.
LEMMA KnownStays ==
    ASSUME StoreTypeOK, SlotChange, NEW s \in Slots, Known(s)
    PROVE  Known(s)'
<1>1. CASE slotRow'[s] = slotRow[s]
  BY <1>1 DEF Known
<1>2. ASSUME NEW u \in Updates, Upserts(u), u.slot = s
      PROVE  Known(s)'
  BY <1>2, Zenon DEF SlotChange
<1>3. CASE slotRow'[s].status = "finalized"
  BY <1>3 DEF Known
<1> QED BY <1>1, <1>2, <1>3, Zenon DEF SlotChange

\* What is written in the slot table is so: the updates are honest.
LEMMA SlotTableStep ==
    ASSUME TypeOK, ChainInv, UpdateInv, SlotTableInv, SlotChange, UNCHANGED block
    PROVE  SlotTableInv'
<1>1. StoreTypeOK /\ SlotsTypeOK /\ ChainTypeOK
  BY DEF TypeOK, StoreTypeOK, SlotsTypeOK, SlotRows, Checkpoints, ChainTypeOK, Block
<1> SUFFICES ASSUME NEW s \in Slots
             PROVE  /\ ~Known(s)' => slotRow'[s].parent = NoParent
                    /\ Known(s)' =>
                         /\ block[s].phase # "none"
                         /\ slotRow'[s].status = "finalized" => Rooted(s)
                         /\ slotRow'[s].status = "dead" => block[s].phase = "dead"
                         /\ OmitParents = {} => slotRow'[s].parent = block[s].parent
  BY Zenon DEF SlotTableInv, Rooted
<1>2. CASE slotRow'[s] = slotRow[s]
  BY <1>2 DEF SlotTableInv, Known
<1>3. ASSUME NEW u \in Updates, Upserts(u), u.slot = s, slotRow'[s] = Updated(u)
      PROVE  /\ Known(s)' /\ block[s].phase # "none"
             /\ slotRow'[s].status = "finalized" => Rooted(s)
             /\ slotRow'[s].status = "dead" => block[s].phase = "dead"
             /\ OmitParents = {} => slotRow'[s].parent = block[s].parent
  <2>1. Honest(u) /\ u.kind = "slot" /\ IsSlotUpdate(u)
    BY <1>3, UpdateFacts, Zenon DEF Upserts
  <2>2. Known(s)'
    BY <1>3, <1>1, UpsertedStatus, Zenon
  <2>3. slotRow'[s].status = u.status
    BY <1>3 DEF Updated
  <2>4. OmitParents = {} => slotRow'[s].parent = block[s].parent
    <3>1. block[s].parent \in 0 .. MaxSlot /\ block[s].parent # NoParent
      BY <1>1, StoreAssumption DEF ChainTypeOK, Block
    <3>2. OmitParents = {} => u.parent = block[s].parent
      BY <1>3, <2>1 DEF Honest
    <3>3. slotRow'[s].parent = IF slotRow[s].parent = NoParent THEN u.parent ELSE slotRow[s].parent
      BY <1>3 DEF Updated
    <3>4. OmitParents = {} => slotRow[s].parent \in {NoParent, block[s].parent}
      BY Zenon DEF SlotTableInv
    <3> QED BY <3>2, <3>3, <3>4
  <2> QED BY <1>3, <2>1, <2>2, <2>3, <2>4 DEF Honest
<1>4. CASE /\ Finalizes(s) /\ Known(s) /\ slotRow'[s].status = "finalized"
           /\ slotRow'[s].parent = slotRow[s].parent
  <2>1. Rooted(s)
    <3>1. Honest(engine.update) /\ IsFinal(engine.update, s)
      BY <1>4, Zenon DEF Finalizes, UpdateInv
    <3> QED BY <3>1, Zenon DEF Honest, IsFinal
  <2> QED BY <1>4, <2>1 DEF SlotTableInv, Known
<1> QED BY <1>2, <1>3, <1>4, Zenon DEF SlotChange

\* The cluster makes no row of the slot table wrong.
LEMMA SlotTableUntouched ==
    ASSUME SlotTableInv, BlockStep, UNCHANGED slotRow
    PROVE  SlotTableInv'
BY DEF SlotTableInv, BlockStep, Known, Rooted

(***************************************************************************)
(* The public rows.                                                        *)
(***************************************************************************)

\* A public row is new only if its slot is finalized in the table, or is being
\* finalized.
LEMMA ProjStep ==
    ASSUME StoreTypeOK, RowsInv, StoreCall, NEW a \in Addrs
    PROVE  \/ proj'[a] \in {NoRow, proj[a]}
           \/ /\ proj'[a] \in Versions
              /\ \/ Pending(proj'[a].slot)
                 \/ \E u \in Updates : /\ TakesAccount(u) /\ proj'[a] = u.version
                                       /\ ~Duplicate(u.version)
                                       /\ slotRow[u.version.slot].status = "finalized"
<1>1. CASE proj' = proj
  BY <1>1
<1>2. ASSUME NEW u \in Updates, TakesAccount(u), proj' # proj
      PROVE  \/ proj'[a] \in {NoRow, proj[a]}
             \/ /\ proj'[a] = u.version /\ u.version \in Versions
                /\ ~Duplicate(u.version) /\ slotRow[u.version.slot].status = "finalized"
  <2> DEFINE v == u.version
             n == Applied(v, proj[v.addr])
  <2>1. v \in Versions /\ v.addr \in Addrs
    BY <1>2, UpdateFacts, VersionFacts, Zenon DEF TakesAccount
  <2>2. ~Duplicate(v) /\ ApplyNow(v, "processed") /\ proj' = [proj EXCEPT ![v.addr] = n]
    BY <1>2, Zenon DEF TakesAccount, InsertAccount, ApplyProjection
  <2>3. slotRow[v.slot].status = "finalized"
    BY <2>2 DEF ApplyNow
  <2>4. n \in {NoRow, proj[v.addr], v}
    BY Zenon DEF Applied
  <2> HIDE DEF n
  <2>5. proj'[a] = proj[a] \/ (a = v.addr /\ proj'[a] = n)
    BY <2>1, <2>2 DEF StoreTypeOK
  <2> QED BY <2>1, <2>2, <2>3, <2>4, <2>5, Zenon
<1>3. ASSUME NEW s \in Slots, Finalizes(s)
      PROVE  proj'[a] \in {NoRow, proj[a]} \/ (proj'[a] \in Versions /\ Pending(proj'[a].slot))
  <2>1. proj'[a] = IF LastStaged(s, a) = NoRow THEN proj[a] ELSE Applied(LastStaged(s, a), proj[a])
    BY <1>3, Zenon DEF Finalizes, FinalizeSlot
  <2>2. CASE LastStaged(s, a) # NoRow
    <3> DEFINE l == LastStaged(s, a)
    <3>1. l \in Versions /\ l.slot = s
      BY <2>2, LastStagedFacts, Zenon DEF RowsInv, RowsTypeOK
    <3>2. Applied(l, proj[a]) \in {NoRow, proj[a], l}
      BY Zenon DEF Applied
    <3>3. Pending(s)
      BY <1>3, Zenon DEF Finalizes, Pending
    <3> HIDE DEF l
    <3>4. proj'[a] \in {NoRow, proj[a], l}
      BY <2>1, <2>2, <3>2, Zenon DEF l
    <3> QED BY <3>1, <3>3, <3>4, Zenon
  <2> QED BY <2>1, <2>2, Zenon
<1>4. \A u \in Updates : Upserts(u) => proj' = proj
  BY Zenon DEF Upserts, UpsertSlot
<1>5. \A t \in Txs, s \in Slots, c \in {"processed", "confirmed"} :
          InsertEvent(t, s, c) => proj' = proj
  BY Zenon DEF InsertEvent
<1> QED BY <1>1, <1>2, <1>3, <1>4, <1>5, Zenon DEF StoreCall, OnlyGaps

\* A finalization that the engine is at is of a rooted slot.
LEMMA PendingRooted ==
    ASSUME UpdateInv, NEW s \in Slots, Pending(s)
    PROVE  Rooted(s)
BY Zenon DEF Pending, UpdateInv, Honest, IsFinal

\* A call of the store shows nothing that is not rooted.
LEMMA PublicStep ==
    ASSUME TypeOK, RowsInv, UpdateInv, SlotTableInv, PublicIsRooted, EventSlots, StoreCall,
           UNCHANGED block
    PROVE  PublicIsRooted' /\ EventSlots'
<1>1. StoreTypeOK
  BY DEF TypeOK
<1>2. ASSUME NEW s \in Slots, slotRow[s].status = "finalized" PROVE Rooted(s)
  BY <1>2 DEF SlotTableInv, Known
<1>3. ASSUME NEW a \in Addrs, proj'[a] # NoRow
      PROVE  block'[proj'[a].slot].phase = "finalized"
  <2>1. CASE proj'[a] = proj[a]
    BY <1>3, <2>1 DEF PublicIsRooted
  <2>2. CASE proj'[a] \in Versions /\ Pending(proj'[a].slot)
    <3>1. proj'[a].slot \in Slots
      BY <2>2, VersionFacts, Zenon
    <3> QED BY <2>2, <3>1, PendingRooted, Zenon DEF Rooted
  <2>3. CASE proj'[a] \in Versions /\ slotRow[proj'[a].slot].status = "finalized"
    <3>1. proj'[a].slot \in Slots
      BY <2>3, VersionFacts, Zenon
    <3> QED BY <1>2, <2>3, <3>1, Zenon DEF Rooted
  <2> QED BY <1>1, <1>3, <2>1, <2>2, <2>3, ProjStep, Zenon
<1>4. ASSUME NEW t \in Txs, rawEvents'[t].commitment = "finalized"
      PROVE  block'[rawEvents'[t].slot].phase = "finalized"
  <2>1. CASE rawEvents'[t] = rawEvents[t]
    BY <1>4, <2>1 DEF PublicIsRooted
  <2>2. CASE /\ rawEvents'[t].slot \in Slots
             /\ slotRow[rawEvents'[t].slot].status = "finalized" \/ Pending(rawEvents'[t].slot)
    BY <1>2, <2>2, PendingRooted, Zenon DEF Rooted
  <2> QED BY <1>1, <1>4, <2>1, <2>2, EventsStep, Zenon DEF EventStep
<1>5. EventSlots'
  BY <1>1, EventsStep, Zenon DEF EventSlots, EventStep
<1> QED BY <1>3, <1>4, <1>5, Zenon DEF PublicIsRooted

\* Steps outside the tables show nothing new.
LEMMA PublicUntouched ==
    ASSUME TypeOK, PublicIsRooted, EventSlots, BlockStep, UNCHANGED <<proj, rawEvents>>
    PROVE  PublicIsRooted' /\ EventSlots'
<1>1. ASSUME NEW s \in Slots, block[s].phase = "finalized" PROVE block'[s].phase = "finalized"
  BY <1>1 DEF BlockStep
<1>2. ASSUME NEW a \in Addrs, proj[a] # NoRow PROVE proj[a].slot \in Slots
  <2>1. proj[a] \in Versions
    BY <1>2 DEF TypeOK, StoreTypeOK
  <2> QED BY <2>1, VersionFacts, Zenon
<1> QED BY <1>1, <1>2, Zenon DEF PublicIsRooted, EventSlots

(***************************************************************************)
(* Gaps.                                                                   *)
(***************************************************************************)
LEMMA TrackedStays ==
    ASSUME StoreTypeOK, SlotChange, GapStep, NEW s \in Slots, Tracked(s)
    PROVE  Tracked(s)'
<1>1. CASE Known(s)
  BY <1>1, KnownStays, Zenon DEF Tracked
<1>2. ASSUME NEW g \in Slots \X Slots, g[1] <= s, s <= g[2], gaps[g] # "none"
      PROVE  Tracked(s)'
  BY <1>2, Zenon DEF GapStep, Tracked
<1> QED BY <1>1, <1>2, Zenon DEF Tracked

\* GapsRecorded in terms of tracked slots.
LEMMA RecordedMeans ==
    GapsRecorded <=> \A s \in Slots : base <= s /\ s <= checkpoint.processed => Tracked(s)
BY Zenon DEF GapsRecorded, Tracked

\* Checkpoint and base are slots or zero.
LEMMA CheckpointFacts ==
    ASSUME TypeOK
    PROVE  /\ checkpoint \in Checkpoints /\ base \in 0 .. MaxSlot
           /\ checkpoint.processed \in 0 .. MaxSlot /\ checkpoint.finalized \in 0 .. MaxSlot
BY DEF TypeOK, StoreTypeOK, Checkpoints

\* The engine goes on from a slot that is in the table by then.
LEMMA PassedOn ==
    ASSUME TypeOK, UpdateInv, PassedInv, SlotChange, GapStep,
           Running, engine'.last = engine.last, base' = base,
           engine.at = "upsert" => slotRow'[engine.update.slot].status # "none"
    PROVE  PassedInv' /\ GapsRecorded'
<1>1. StoreTypeOK
  BY DEF TypeOK
<1>2. ASSUME NEW s \in Slots, base <= s, s <= engine.last PROVE Tracked(s)'
  <2>1. CASE Tracked(s)
    BY <1>1, <2>1, TrackedStays, Zenon
  <2>2. CASE engine.at = "upsert" /\ s = engine.update.slot
    BY <2>2 DEF Tracked, Known
  <2> QED BY <1>2, <2>1, <2>2, Zenon DEF PassedInv
<1>3. checkpoint'.processed <= engine.last
  BY Zenon DEF PassedInv, SlotChange, UpdateInv
<1>4. PassedInv'
  BY <1>2, <1>3, Zenon DEF PassedInv
<1>5. ASSUME NEW s \in Slots, base' <= s, s <= checkpoint'.processed PROVE Tracked(s)'
  <2>1. checkpoint'.processed \in Int /\ s \in Int /\ engine.last \in Int
    <3>1. engine.at \in {"upsert", "finalize"} => engine.update.slot \in Int
      BY UpdateFacts, SlotFacts DEF UpdateInv
    <3> QED BY <3>1, EngineFacts, CheckpointFacts, SlotFacts DEF SlotChange
  <2>2. s <= engine.last
    BY <1>3, <1>5, <2>1
  <2> QED BY <1>2, <1>5, <2>2, Zenon
<1>6. GapsRecorded'
  BY <1>5, Zenon DEF GapsRecorded, Tracked
<1> QED BY <1>4, <1>6

\* Steps outside tables and engine pass no slot.
LEMMA PassedUntouched ==
    ASSUME PassedInv, GapsRecorded, UNCHANGED <<storeVars, engine, base>>
    PROVE  PassedInv' /\ GapsRecorded'
BY Zenon DEF PassedInv, GapsRecorded, Running, Tracked, Known, storeVars

\* A stopped process passes no slot.
LEMMA PassedStopped ==
    ASSUME PassedInv, GapsRecorded, UNCHANGED <<storeVars, base>>, ~Running'
    PROVE  PassedInv' /\ GapsRecorded'
BY Zenon DEF PassedInv, GapsRecorded, Known, storeVars

\* A restart continues from the checkpoint, so that it passes no slot untracked.
LEMMA PassedRestart ==
    ASSUME TypeOK, CheckpointSound, PassedInv, GapsRecorded, Restart
    PROVE  PassedInv' /\ GapsRecorded'
<1>1. UNCHANGED storeVars /\ base' = base
  BY Zenon DEF Restart
<1>2. /\ engine'.last = IF checkpoint.processed > 0 THEN checkpoint.processed
                        ELSE checkpoint.finalized
      /\ engine'.at = "idle"
  BY DEF Restart, Down
<1>3. engine'.last = checkpoint.processed
  BY <1>2, CheckpointFacts, StoreAssumption DEF CheckpointSound
<1>4. GapsRecorded'
  BY <1>1, Zenon DEF GapsRecorded, Known, storeVars
<1>5. \A s \in Slots : base' <= s /\ s <= engine'.last => Tracked(s)'
  BY <1>1, <1>3, <1>4, Zenon DEF GapsRecorded, Tracked, storeVars
<1>6. checkpoint'.processed <= engine'.last
  BY <1>1, <1>3, CheckpointFacts DEF storeVars
<1> QED BY <1>4, <1>5, <1>6, Zenon DEF PassedInv

\* A slot further on is taken only when what it leaves out is recorded.
LEMMA PassedTakeSlot ==
    ASSUME TypeOK, PassedInv, GapsRecorded, TakeSlot
    PROVE  PassedInv' /\ GapsRecorded' /\ base' \in 0 .. MaxSlot
<1>1. StoreTypeOK /\ gaps \in [Slots \X Slots -> GapStatus]
  BY DEF TypeOK, StoreTypeOK
<1>2. engine.at = "idle" /\ queue # <<>>
  BY Zenon DEF TakeSlot, Take, Waiting
<1>3. PICK n \in Slots : n = Received.slot
  BY <1>2, EngineFacts, HeadFacts, UpdateFacts, Zenon DEF Received
<1>4. PICK g : g = Gap(n)
  OBVIOUS
<1>5. /\ engine'.at = "upsert" /\ engine'.last = Greatest(engine.last, n)
      /\ engine'.update = Received
  BY <1>3, EngineFacts DEF TakeSlot, EngineState
<1>6. base' = IF engine.last = 0 /\ checkpoint.processed = 0 THEN n ELSE base
  BY <1>3, Zenon DEF TakeSlot
<1>7. /\ g = NoGap \/ g \in Slots \X Slots
      /\ UNCHANGED <<slotRow, checkpoint>>
      /\ \A s \in Slots : Tracked(s) => Tracked(s)'
      /\ g # NoGap => gaps'[g] # "none"
  <2>1. CASE g = NoGap
    <3>1. UNCHANGED storeVars
      BY <1>3, <1>4, <2>1, Zenon DEF TakeSlot
    <3> QED BY <2>1, <3>1, Zenon DEF storeVars, Tracked, Known
  <2>2. CASE g # NoGap
    <3>1. g \in Slots \X Slots
      BY <1>3, <1>4, <2>2, GapFacts, Zenon
    <3>2. RecordGap(g)
      BY <1>3, <1>4, <2>2, Zenon DEF TakeSlot
    <3>3. GapStep /\ gaps'[g] # "none" /\ UNCHANGED <<slotRow, checkpoint>>
      BY <1>1, <3>1, <3>2, RecordGapStep, Zenon DEF OnlyGaps
    <3>4. \A s \in Slots : Tracked(s) => Tracked(s)'
      BY <3>3, Zenon DEF Tracked, Known, GapStep
    <3> QED BY <3>1, <3>3, <3>4
  <2> QED BY <2>1, <2>2
<1>8. /\ engine.last \in Nat /\ n \in Nat /\ n > 0 /\ base \in Nat
      /\ checkpoint.processed \in Nat /\ checkpoint.processed <= engine.last
  <2>1. Running
    BY <1>2 DEF Running
  <2> QED BY <1>3, <2>1, EngineFacts, CheckpointFacts, SlotFacts DEF PassedInv
<1>9. ASSUME NEW s \in Slots, base' <= s, s <= engine'.last
      PROVE  Tracked(s)' \/ s = n
  <2>1. s \in Nat /\ s > 0
    BY SlotFacts
  <2>2. CASE engine.last = 0
    BY <1>5, <1>6, <1>8, <1>9, <2>1, <2>2 DEF Greatest
  <2>3. CASE engine.last # 0 /\ s <= engine.last
    <3>1. base <= s /\ Running /\ engine.at # "upsert"
      BY <1>2, <1>6, <1>9, <2>3 DEF Running
    <3> QED BY <1>7, <2>3, <3>1, Zenon DEF PassedInv
  <2>4. CASE engine.last # 0 /\ ~(s <= engine.last) /\ s # n
    <3>1. engine'.last = n /\ s > engine.last /\ s < n
      BY <1>5, <1>8, <1>9, <2>1, <2>4 DEF Greatest
    <3>2. g = <<engine.last + 1, n - 1>> /\ g # NoGap
      <4>1. Gap(n) = <<engine.last + 1, n - 1>>
        BY <1>8, <2>1, <2>4, <3>1 DEF Gap, DetectForwardGap
      <4>2. <<engine.last + 1, n - 1>> \in Slots \X Slots
        BY <1>8, <2>1, <3>1, StoreAssumption DEF Slots
      <4> QED BY <1>4, <4>1, <4>2, IndexerAssumption
    <3>3. g \in Slots \X Slots /\ g[1] <= s /\ s <= g[2] /\ gaps'[g] # "none"
      BY <1>7, <1>8, <2>1, <3>1, <3>2
    <3> QED BY <3>3, Zenon DEF Tracked
  <2> QED BY <2>2, <2>3, <2>4
<1>10. PassedInv'
  <2>1. checkpoint'.processed <= engine'.last
    BY <1>5, <1>7, <1>8 DEF Greatest
  <2>2. n = engine'.update.slot
    BY <1>3, <1>5
  <2> QED BY <1>5, <1>9, <2>1, <2>2, Zenon DEF PassedInv
<1>11. GapsRecorded'
  <2>1. ASSUME NEW s \in Slots, base' <= s, s <= checkpoint'.processed PROVE Tracked(s)'
    <3>1. s \in Nat /\ s > 0
      BY SlotFacts
    <3>2. base' = base
      BY <1>6, <1>7, <1>8, <2>1, <3>1
    <3>3. Tracked(s)
      BY <1>7, <2>1, <3>2, RecordedMeans, Zenon
    <3> QED BY <1>7, <3>3
  <2> QED BY <2>1, Zenon DEF GapsRecorded, Tracked
<1>12. base' \in 0 .. MaxSlot
  BY <1>3, <1>6, CheckpointFacts, SlotFacts
<1> QED BY <1>10, <1>11, <1>12

(***************************************************************************)
(* The channel.                                                            *)
(***************************************************************************)
LogGrows == \A i \in DOMAIN log : i \in DOMAIN log' /\ log'[i] = log[i]

\* The cluster only appends to the log.
LEMMA ClusterLog ==
    ASSUME ChainTypeOK, ClusterSends
    PROVE  LogGrows
<1>1. CASE log' = log
  BY <1>1 DEF LogGrows
<1>2. ASSUME NEW u \in Updates, log' = Append(log, u) PROVE LogGrows
  BY <1>2, AppendFacts DEF ChainTypeOK, LogGrows
<1> QED BY <1>1, <1>2, Zenon
     DEF ClusterSends, SendsNothing, SendsItem, SendsStatus, SendsRoot, Sends

\* What is in the channel after a step was there, or comes from the log.
LEMMA FeedStep ==
    ASSUME TypeOK, QueueInv, Next, LogGrows
    PROVE  FeedTypeOK' /\ QueueInv'
<1>1. /\ session \in SessionState /\ queue \in Seq(Updates) /\ Len(queue) <= QueueMax
      /\ log \in Seq(Updates) /\ QueueMax \in Nat
  BY IndexerAssumption DEF TypeOK, SessionState
<1>2. CASE UNCHANGED <<session, queue>>
  BY <1>1, <1>2 DEF FeedTypeOK, QueueInv, LogGrows
<1>3. CASE session' \in SessionState /\ queue' = <<>>
  <2>1. <<>> \in Seq(Updates) /\ Len(<<>>) = 0 /\ DOMAIN <<>> = {}
    OBVIOUS
  <2> QED BY <1>1, <1>3, <2>1 DEF FeedTypeOK, QueueInv
<1>4. CASE Connect
  <2>1. session' = [on |-> TRUE, from |-> checkpoint.finalized,
                    cursor |-> IF checkpoint.finalized > 0 THEN 0 ELSE Len(log)] /\ queue' = queue
    BY <1>4, Zenon DEF Connect
  <2>2. session' \in SessionState
    BY <1>1, <2>1, CheckpointFacts DEF SessionState
  <2> QED BY <1>1, <2>1, <2>2 DEF FeedTypeOK, QueueInv, LogGrows
<1>5. CASE Forward
  <2>1. PICK u \in Updates : u = log[session.cursor + 1] /\ session.cursor + 1 \in DOMAIN log
    BY <1>1, <1>5 DEF Forward, SessionState
  <2>2. session' = [session EXCEPT !.cursor = @ + 1]
    BY <1>5, Zenon DEF Forward
  <2>3. session' \in SessionState
    BY <1>1, <2>2 DEF SessionState
  <2>4. queue' = queue \/ (Len(queue) < QueueMax /\ queue' = Append(queue, u))
    BY <1>5, <2>1, Zenon DEF Forward
  <2>5. CASE queue' = queue
    BY <1>1, <2>3, <2>5 DEF FeedTypeOK, QueueInv, LogGrows
  <2>6. CASE Len(queue) < QueueMax /\ queue' = Append(queue, u)
    <3>1. /\ queue' \in Seq(Updates) /\ Len(queue') = Len(queue) + 1
          /\ DOMAIN queue' = 1 .. Len(queue) + 1 /\ DOMAIN queue = 1 .. Len(queue)
          /\ Len(queue) \in Nat /\ queue'[Len(queue) + 1] = u
          /\ \A k \in DOMAIN queue : queue'[k] = queue[k]
      BY <1>1, <2>6, AppendFacts
    <3>2. Len(queue') <= QueueMax
      BY <1>1, <2>6, <3>1
    <3>3. QueueInv'
      <4>1. ASSUME NEW k \in DOMAIN queue' PROVE \E i \in DOMAIN log' : queue'[k] = log'[i]
        <5>1. CASE k \in DOMAIN queue
          BY <3>1, <5>1 DEF QueueInv, LogGrows
        <5>2. CASE k = Len(queue) + 1
          BY <2>1, <3>1, <5>2 DEF LogGrows
        <5> QED BY <3>1, <4>1, <5>1, <5>2
      <4> QED BY <4>1 DEF QueueInv
    <3> QED BY <2>3, <3>1, <3>2, <3>3 DEF FeedTypeOK
  <2> QED BY <2>4, <2>5, <2>6
<1>6. CASE Drop
  <2>1. session' = [session EXCEPT !.on = FALSE, !.from = 0, !.cursor = 0] /\ queue' = queue
    BY <1>6, Zenon DEF Drop
  <2>2. session' \in SessionState
    <3>1. 0 \in 0 .. MaxSlot
      BY StoreAssumption
    <3> QED BY <1>1, <2>1, <3>1 DEF SessionState
  <2> QED BY <1>1, <2>1, <2>2 DEF FeedTypeOK, QueueInv, LogGrows
<1>7. ASSUME NEW at, Stop(at) PROVE session' \in SessionState /\ queue' = <<>>
  <2>1. session' = [on |-> FALSE, from |-> 0, cursor |-> 0] /\ queue' = <<>>
    BY <1>7, Zenon DEF Stop
  <2> QED BY <2>1, StoreAssumption DEF SessionState
<1>8. CASE Take
  <2>1. queue # <<>> /\ queue' = Tail(queue) /\ session' = session
    BY <1>8, Zenon DEF Take, Waiting
  <2>2. /\ queue' \in Seq(Updates) /\ Len(queue') = Len(queue) - 1 /\ Len(queue) \in Nat
        /\ \A k \in DOMAIN queue' : k + 1 \in DOMAIN queue /\ queue'[k] = queue[k + 1]
    BY <1>1, <2>1, HeadFacts
  <2>3. Len(queue') <= QueueMax
    BY <1>1, <2>2
  <2>4. QueueInv'
    <3>1. ASSUME NEW k \in DOMAIN queue' PROVE \E i \in DOMAIN log' : queue'[k] = log'[i]
      <4>1. k + 1 \in DOMAIN queue /\ queue'[k] = queue[k + 1]
        BY <2>2, <3>1
      <4>2. PICK i \in DOMAIN log : queue[k + 1] = log[i]
        BY <4>1, Zenon DEF QueueInv
      <4> QED BY <4>1, <4>2, Zenon DEF LogGrows
    <3> QED BY <3>1, Zenon DEF QueueInv
  <2> QED BY <1>1, <2>1, <2>2, <2>3, <2>4 DEF FeedTypeOK
<1>9. CASE Cluster \/ Restart
  BY <1>2, <1>9, Zenon DEF Cluster, Restart
<1>10. CASE Crash
  BY <1>3, <1>7, <1>10, Zenon DEF Crash
<1>11. CASE EngineStep
  <2>1. UNCHANGED <<session, queue>> \/ Take \/ Stop("failed")
    BY <1>11, Zenon DEF EngineStep, TakeAccount, TakeEvent, TakeSlot, Upsert, Fail, Finalize,
                        EndRepair, FetchSlot, RepairSlot, RepairEvent
  <2> QED BY <1>2, <1>3, <1>7, <1>8, <2>1, Zenon
<1> QED BY <1>4, <1>5, <1>6, <1>9, <1>10, <1>11, Zenon DEF Next

(***************************************************************************)
(* The first part of the invariant.                                        *)
(***************************************************************************)
LEMMA TypeMeans ==
    TypeOK <=> /\ StoreTypeOK /\ ChainTypeOK /\ FeedTypeOK
               /\ engine \in EngineState /\ base \in 0 .. MaxSlot
BY Zenon DEF TypeOK, ChainTypeOK, FeedTypeOK, Block, EngineState, SessionState

\* A step that changes nothing.
LEMMA CoreUntouched ==
    ASSUME CoreInv, UNCHANGED vars
    PROVE  CoreInv'
<1>1. /\ UNCHANGED <<slotRow, checkpoint, rawAccounts, rawEvents, staged, proj, newest, gaps>>
      /\ UNCHANGED <<block, root, log>> /\ UNCHANGED <<session, queue, engine, base>>
  BY Zenon DEF vars, storeVars, chainVars
<1>2. TypeOK'
  BY <1>1, Zenon DEF CoreInv, TypeOK, StoreTypeOK
<1>3. ChainInv' /\ QueueInv' /\ SlotTableInv'
  BY <1>1 DEF CoreInv, ChainInv, QueueInv, SlotTableInv, Known, Rooted, Honest
<1>4. UpdateInv' /\ RepairInv'
  BY <1>1, Zenon DEF CoreInv, UpdateInv, RepairInv, Rooted, Honest, Fetched, Frozen
<1>5. CheckpointSound' /\ RowsInv'
  BY <1>1, Zenon DEF CoreInv, CheckpointSound, Known, RowsInv, RowsTypeOK, StagedIsPending,
                     ProjectionBacked
<1>6. PublicIsRooted' /\ EventSlots' /\ PassedInv' /\ GapsRecorded' /\ GapsUnrepaired'
  BY <1>1, Zenon DEF CoreInv, PublicIsRooted, EventSlots, PassedInv, GapsRecorded, GapsUnrepaired,
                     Running, Tracked, Known
<1> QED BY <1>2, <1>3, <1>4, <1>5, <1>6 DEF CoreInv

\* A step outside the store.
LEMMA StoreUntouched ==
    ASSUME CoreInv, UNCHANGED storeVars
    PROVE  /\ StoreTypeOK' /\ CheckpointSound' /\ RowsInv' /\ GapsUnrepaired'
           /\ UNCHANGED slotRow /\ UNCHANGED <<proj, rawEvents>>
<1>1. UNCHANGED <<slotRow, checkpoint, rawAccounts, rawEvents, staged, proj, newest, gaps>>
  BY Zenon DEF storeVars
<1>2. StoreTypeOK'
  BY <1>1, Zenon DEF CoreInv, TypeOK, StoreTypeOK
<1>3. CheckpointSound' /\ RowsInv' /\ GapsUnrepaired'
  BY <1>1, Zenon DEF CoreInv, CheckpointSound, Known, RowsInv, RowsTypeOK, StagedIsPending,
                     ProjectionBacked, GapsUnrepaired
<1> QED BY <1>1, <1>2, <1>3

\* A step of the process leaves the chain alone.
LEMMA ChainUntouched ==
    ASSUME CoreInv, UNCHANGED chainVars
    PROVE  ChainTypeOK' /\ ChainInv' /\ BlockStep /\ LogGrows /\ UNCHANGED block
<1>1. UNCHANGED <<block, root, log>>
  BY Zenon DEF chainVars
<1>2. ChainTypeOK /\ ChainInv
  BY TypeMeans, Zenon DEF CoreInv
<1>3. ChainTypeOK' /\ ChainInv'
  BY <1>1, <1>2 DEF ChainTypeOK, ChainInv, Honest, Rooted
<1>4. BlockStep /\ LogGrows
  BY <1>1 DEF BlockStep, LogGrows
<1> QED BY <1>1, <1>3, <1>4

\* The core invariant through a step of the cluster.
LEMMA ClusterCore ==
    ASSUME CoreInv, Cluster
    PROVE  CoreInv'
<1>1. UNCHANGED storeVars /\ UNCHANGED <<session, queue, engine, base>>
  BY Zenon DEF Cluster
<1>2. ChainTypeOK' /\ BlockStep /\ ClusterSends /\ ChainInv'
  BY TypeMeans, ClusterStep, Zenon DEF CoreInv
<1>3. LogGrows
  BY <1>2, TypeMeans, ClusterLog, Zenon DEF CoreInv
<1>4. FeedTypeOK' /\ QueueInv'
  BY <1>3, FeedStep, Zenon DEF CoreInv, Next
<1>5. EngineInv'
  BY <1>1, <1>2, EngineUntouched, Zenon DEF CoreInv
<1>6. StoreTypeOK' /\ CheckpointSound' /\ RowsInv' /\ GapsUnrepaired'
  BY <1>1, StoreUntouched, Zenon
<1>7. PassedInv' /\ GapsRecorded'
  BY <1>1, PassedUntouched, Zenon DEF CoreInv
<1>8. SlotTableInv' /\ PublicIsRooted' /\ EventSlots'
  BY <1>1, <1>2, StoreUntouched, SlotTableUntouched, PublicUntouched, Zenon DEF CoreInv
<1>9. base' \in 0 .. MaxSlot
  BY <1>1, TypeMeans, Zenon DEF CoreInv
<1>10. TypeOK'
  BY <1>2, <1>4, <1>5, <1>6, <1>9, Zenon
     DEF EngineInv, TypeOK, ChainTypeOK, FeedTypeOK, Block, EngineState, SessionState
<1> QED BY <1>2, <1>4, <1>5, <1>6, <1>7, <1>8, <1>10, Zenon DEF CoreInv, EngineInv

\* The session, and the process as it starts and stops.
LEMMA ProcessCore ==
    ASSUME CoreInv, Connect \/ Forward \/ Drop \/ Restart \/ Crash
    PROVE  CoreInv'
<1>1. UNCHANGED storeVars /\ UNCHANGED chainVars /\ base' = base
  BY Zenon DEF Connect, Forward, Drop, Restart, Crash
<1>2. ChainTypeOK' /\ ChainInv' /\ BlockStep /\ LogGrows
  BY <1>1, ChainUntouched, Zenon
<1>3. FeedTypeOK' /\ QueueInv'
  BY <1>2, FeedStep, Zenon DEF CoreInv, Next
<1>4. StoreTypeOK' /\ CheckpointSound' /\ RowsInv' /\ GapsUnrepaired'
  BY <1>1, StoreUntouched, Zenon
<1>5. SlotTableInv' /\ PublicIsRooted' /\ EventSlots'
  BY <1>1, <1>2, StoreUntouched, SlotTableUntouched, PublicUntouched, Zenon DEF CoreInv
<1>6. EngineInv' /\ PassedInv' /\ GapsRecorded'
  <2>1. CASE Connect \/ Forward \/ Drop
    <3>1. engine' = engine
      BY <2>1, Zenon DEF Connect, Forward, Drop
    <3> QED BY <1>1, <1>2, <3>1, EngineUntouched, PassedUntouched, Zenon DEF CoreInv
  <2>2. CASE Restart
    <3> DEFINE n == IF checkpoint.processed > 0 THEN checkpoint.processed ELSE checkpoint.finalized
    <3>1. engine' = [at |-> "idle", last |-> n, update |-> NoUpdate, gap |-> NoGap,
                     fetch |-> 0, todo |-> {}]
      BY <2>2 DEF Restart, Down
    <3>2. n \in 0 .. MaxSlot
      BY CheckpointFacts DEF CoreInv
    <3> HIDE DEF n
    <3>3. EngineInv'
      <4>1. PICK m \in 0 .. MaxSlot : m = n
        BY <3>2
      <4> QED BY <3>1, <4>1, StoppedInv
    <3> QED BY <2>2, <3>3, PassedRestart, Zenon DEF CoreInv
  <2>3. CASE Crash
    <3>1. engine' = [Down EXCEPT !.at = "down"]
      BY <2>3, Zenon DEF Crash, Stop
    <3>2. engine' = [at |-> "down", last |-> 0, update |-> NoUpdate, gap |-> NoGap,
                     fetch |-> 0, todo |-> {}]
      BY <3>1 DEF Down
    <3>3. ~Running'
      BY <3>2 DEF Running
    <3>4. 0 \in 0 .. MaxSlot
      BY StoreAssumption
    <3>5. EngineInv'
      BY <3>2, <3>4, StoppedInv
    <3> QED BY <1>1, <3>3, <3>5, PassedStopped, Zenon DEF CoreInv
  <2> QED BY <2>1, <2>2, <2>3
<1>7. base' \in 0 .. MaxSlot
  BY <1>1, TypeMeans, Zenon DEF CoreInv
<1>8. TypeOK'
  BY <1>2, <1>3, <1>4, <1>6, <1>7, Zenon
     DEF EngineInv, TypeOK, ChainTypeOK, FeedTypeOK, Block, EngineState, SessionState
<1> QED BY <1>2, <1>3, <1>4, <1>5, <1>6, <1>8, Zenon DEF CoreInv, EngineInv

\* The engine's own state through its steps.
LEMMA EngineEngine ==
    ASSUME CoreInv, EngineStep
    PROVE  EngineInv'
<1>1. UNCHANGED chainVars /\ BlockStep
  <2>1. UNCHANGED chainVars
    BY Zenon DEF EngineStep
  <2> QED BY <2>1, ChainUntouched, Zenon
<1>2. /\ TypeOK /\ ChainInv /\ QueueInv /\ UpdateInv /\ RepairInv
  BY Zenon DEF CoreInv
<1>3. CASE TakeAccount \/ TakeEvent
  <2>1. engine' = engine \/ Fail
    BY <1>3, Zenon DEF TakeAccount, TakeEvent
  <2> QED BY <1>1, <1>2, <2>1, EngineUntouched, FailStops, Zenon
<1>4. CASE Finalize
  BY <1>1, <1>2, <1>4, AfterSlotInv, FailStops, Zenon DEF Finalize
<1> QED BY <1>1, <1>2, <1>3, <1>4, TakeSlotInv, UpsertInv, EndRepairInv, FetchSlotInv,
           RepairSlotInv, RepairEventInv, Zenon DEF EngineStep

\* The engine passes no slot untracked.
LEMMA EnginePassed ==
    ASSUME CoreInv, EngineStep
    PROVE  PassedInv' /\ GapsRecorded' /\ base' \in 0 .. MaxSlot
<1>1. /\ TypeOK /\ StoreTypeOK /\ UpdateInv /\ RepairInv /\ ChainInv /\ PassedInv /\ GapsRecorded
      /\ engine \in EngineState /\ base \in 0 .. MaxSlot
  BY TypeMeans, Zenon DEF CoreInv
<1>2. StoreCall /\ GapStep
  BY <1>1, StoreCalls, Zenon
<1>3. SlotChange
  BY <1>1, <1>2, SlotChanges, Zenon
<1>4. UNCHANGED chainVars
  BY Zenon DEF EngineStep
<1>5. CASE TakeSlot
  BY <1>1, <1>5, PassedTakeSlot, Zenon
<1>6. CASE Fail
  BY <1>1, <1>6, FailStops, PassedStopped, Zenon
<1>7. CASE Upsert /\ ~Fail
  <2>0. engine.at = "upsert" /\ base' = base /\ UpsertSlot(engine.update)
    BY <1>7, Zenon DEF Upsert
  <2>1. PICK u \in Updates : u = engine.update /\ Upserts(u)
    BY <1>1, <2>0, Zenon DEF UpdateInv, Upserts
  <2>2. slotRow'[engine.update.slot].status # "none"
    BY <1>1, <2>1, UpsertedStatus, Zenon DEF Known
  <2>3. engine' = AfterSlot \/ engine' = [engine EXCEPT !.at = "finalize"]
    BY <1>7, Zenon DEF Upsert
  <2>4. engine'.last = engine.last
    BY <1>1, <2>3 DEF AfterSlot, EngineState
  <2>5. Running
    BY <2>0 DEF Running
  <2> QED BY <1>1, <1>2, <1>3, <2>0, <2>2, <2>4, <2>5, PassedOn, Zenon
<1>8. CASE /\ ~Fail
           /\ TakeAccount \/ TakeEvent \/ Finalize \/ EndRepair \/ FetchSlot \/ RepairSlot \/ RepairEvent
  <2>1. base' = base
    BY <1>8, Zenon DEF TakeAccount, TakeEvent, Finalize, EndRepair, FetchSlot, RepairSlot,
                       RepairEvent, Fail
  <2>2. engine.at \in {"idle", "finalize", "repair"}
    BY <1>8, Zenon DEF TakeAccount, TakeEvent, Take, Waiting, Finalize, EndRepair, RepairTooLong, FetchFails,
                       ReconcileAccounts, Fetching, FetchSlot, RepairSlot, RepairEvent, Ingests
  <2>3. engine'.last = engine.last
    <3>1. CASE TakeAccount \/ TakeEvent
      <4>1. engine' = engine \/ Fail
        BY <3>1, Zenon DEF TakeAccount, TakeEvent
      <4> QED BY <1>8, <4>1, Zenon
    <3>2. CASE Finalize
      <4>1. engine' = AfterSlot \/ Fail
        BY <3>2, Zenon DEF Finalize
      <4>2. engine' = AfterSlot
        BY <1>8, <4>1, Zenon
      <4> QED BY <1>1, <4>2 DEF AfterSlot, EngineState
    <3>3. CASE EndRepair
      <4>1. engine' = [engine EXCEPT !.at = "idle", !.gap = NoGap, !.fetch = 0]
        BY <3>3, Zenon DEF EndRepair
      <4> QED BY <1>1, <4>1 DEF EngineState
    <3>4. CASE FetchSlot
      <4>1. PICK n, items : engine' = [engine EXCEPT !.fetch = n, !.todo = items]
        BY <3>4, Zenon DEF FetchSlot
      <4> QED BY <1>1, <4>1 DEF EngineState
    <3>5. CASE RepairSlot
      <4>1. Gap(Fetched) = NoGap
        BY <1>1, <1>4, <3>5, RepairSlotInv, Zenon
      <4>2. PICK u, items : engine' = [engine EXCEPT !.at = "upsert", !.todo = items, !.update = u]
        BY <3>5, <4>1, Zenon DEF RepairSlot
      <4> QED BY <1>1, <4>2 DEF EngineState
    <3>6. CASE RepairEvent
      <4>1. PICK items : engine' = [engine EXCEPT !.todo = items]
        BY <3>6, Zenon DEF RepairEvent
      <4> QED BY <1>1, <4>1 DEF EngineState
    <3> QED BY <1>8, <3>1, <3>2, <3>3, <3>4, <3>5, <3>6
  <2>4. Running /\ engine.at # "upsert"
    BY <2>2 DEF Running
  <2> QED BY <1>1, <1>2, <1>3, <2>1, <2>3, <2>4, PassedOn, Zenon
<1> QED BY <1>5, <1>6, <1>7, <1>8, Zenon DEF EngineStep

\* The core invariant through a step of the engine.
LEMMA EngineCore ==
    ASSUME CoreInv, EngineStep
    PROVE  CoreInv'
<1>1. /\ TypeOK /\ StoreTypeOK /\ UpdateInv /\ RepairInv /\ ChainInv /\ CheckpointSound /\ RowsInv
      /\ SlotTableInv /\ PublicIsRooted /\ EventSlots /\ GapsUnrepaired /\ QueueInv
  BY TypeMeans, Zenon DEF CoreInv
<1>2. StoreCall /\ GapStep
  BY <1>1, StoreCalls, Zenon
<1>3. StoreTypeOK' /\ CheckpointSound' /\ RowsInv'
  BY <1>1, <1>2, StoreStep, Zenon
<1>4. ChainTypeOK' /\ ChainInv' /\ BlockStep /\ LogGrows /\ UNCHANGED block
  <2>1. UNCHANGED chainVars
    BY Zenon DEF EngineStep
  <2> QED BY <2>1, ChainUntouched, Zenon
<1>5. FeedTypeOK' /\ QueueInv'
  BY <1>1, <1>4, FeedStep, Zenon DEF Next
<1>6. SlotChange
  BY <1>1, <1>2, SlotChanges, Zenon
<1>7. SlotTableInv' /\ PublicIsRooted' /\ EventSlots'
  BY <1>1, <1>2, <1>4, <1>6, SlotTableStep, PublicStep, Zenon
<1>8. GapsUnrepaired'
  BY <1>1, <1>2, Zenon DEF GapsUnrepaired, GapStep
<1>9. EngineInv' /\ PassedInv' /\ GapsRecorded' /\ base' \in 0 .. MaxSlot
  BY EngineEngine, EnginePassed, Zenon
<1>10. TypeOK'
  BY <1>3, <1>4, <1>5, <1>9, Zenon
     DEF EngineInv, TypeOK, ChainTypeOK, FeedTypeOK, Block, EngineState, SessionState
<1> QED BY <1>3, <1>4, <1>5, <1>7, <1>8, <1>9, <1>10, Zenon DEF CoreInv, EngineInv

\* The core invariant is inductive.
LEMMA CoreInvariant ==
    ASSUME CoreInv, [Next]_vars
    PROVE  CoreInv'
BY ClusterCore, ProcessCore, EngineCore, CoreUntouched, Zenon DEF Next

\* The core invariant holds when the indexer starts.
LEMMA CoreInitially ==
    ASSUME Init
    PROVE  CoreInv
<1>1. /\ StartSlot \in 0 .. MaxSlot /\ MaxSlot \in Nat /\ MaxVersion \in Nat /\ QueueMax \in Nat
      /\ StartSlot \in Nat
  BY StoreAssumption, IndexerAssumption
<1>2. \A s \in Slots : s \in Int /\ s > 0 /\ s - 1 \in 0 .. MaxSlot /\ s \in Parents /\ s - 1 \in Parents
  BY <1>1 DEF Slots, Parents
<1>3. /\ \A s \in Slots : /\ block[s].phase = IF s <= StartSlot THEN "finalized" ELSE "none"
                          /\ block[s].parent = IF s <= StartSlot THEN s - 1 ELSE 0
      /\ root = StartSlot
  BY DEF Init
<1>4. block \in [Slots -> Block]
  <2> DEFINE b(s) == [phase |-> IF s <= StartSlot THEN "finalized" ELSE "none",
                      parent |-> IF s <= StartSlot THEN s - 1 ELSE 0,
                      content |-> <<>>, sent |-> 0, landed |-> {}]
  <2>1. \A s \in Slots : b(s) \in Block
    BY <1>1, <1>2 DEF Block, Phases, Commitments
  <2>2. block = [s \in Slots |-> b(s)]
    BY DEF Init
  <2> HIDE DEF b
  <2> QED BY <2>1, <2>2
<1>5. /\ log \in Seq(Updates) /\ DOMAIN log = 1 .. StartSlot
      /\ \A i \in DOMAIN log :
            /\ i \in Slots /\ i <= StartSlot
            /\ log[i].kind = "slot" /\ log[i].slot = i
            /\ log[i].parent = i - 1 /\ log[i].status = "finalized"
  <2> DEFINE u(s) == SlotUpdate(s, s - 1, "finalized")
  <2>1. \A s \in 1 .. StartSlot :
            /\ s \in Slots /\ u(s) \in Updates /\ u(s).kind = "slot" /\ u(s).slot = s
            /\ u(s).parent = s - 1 /\ u(s).status = "finalized"
    <3> SUFFICES ASSUME NEW s \in 1 .. StartSlot
                 PROVE  /\ s \in Slots /\ u(s) \in Updates /\ u(s).kind = "slot" /\ u(s).slot = s
                        /\ u(s).parent = s - 1 /\ u(s).status = "finalized"
      OBVIOUS
    <3>1. s \in Slots /\ s - 1 \in Parents /\ "finalized" \in Commitments
      BY <1>1 DEF Slots, Parents, Commitments
    <3> QED BY <3>1, SlotUpdateMade
  <2>2. log = [s \in 1 .. StartSlot |-> u(s)]
    BY DEF Init
  <2> HIDE DEF u
  <2>3. log \in [1 .. StartSlot -> Updates]
    BY <2>1, <2>2
  <2>4. log \in Seq(Updates)
    BY <1>1, <2>3
  <2> QED BY <1>1, <2>1, <2>2, <2>4
<1>6. ChainTypeOK
  BY <1>1, <1>3, <1>4, <1>5, Zenon DEF ChainTypeOK
<1>7. ChainInv
  <2>1. \A s \in Slots : block[s].parent < s /\ (Rooted(s) => s <= root)
    BY <1>2, <1>3 DEF Rooted
  <2>2. \A i \in DOMAIN log : Honest(log[i])
    BY <1>3, <1>5 DEF Honest, Rooted
  <2> QED BY <2>1, <2>2 DEF ChainInv
<1>8. queue = <<>> /\ session = [on |-> FALSE, from |-> 0, cursor |-> 0] /\ base = StartSlot
  BY Zenon DEF Init
<1>9. FeedTypeOK /\ QueueInv
  BY <1>1, <1>8 DEF FeedTypeOK, SessionState, QueueInv
<1>10. /\ engine = [at |-> "down", last |-> 0, update |-> NoUpdate, gap |-> NoGap,
                    fetch |-> 0, todo |-> {}]
       /\ engine.at = "down" /\ engine.gap = NoGap /\ engine.todo = {}
  BY DEF Init, Down
<1>11. engine \in EngineState
  <2>1. 0 \in 0 .. MaxSlot
    BY <1>1
  <2> QED BY <1>10, <2>1 DEF EngineState
<1>12. UpdateInv /\ RepairInv /\ PassedInv
  BY <1>10 DEF UpdateInv, RepairInv, PassedInv, Running
<1>13. /\ \A s \in Slots : /\ slotRow[s].status = IF s <= StartSlot THEN "finalized" ELSE "none"
                           /\ slotRow[s].parent = IF s <= StartSlot THEN s - 1 ELSE NoParent
       /\ checkpoint = [finalized |-> StartSlot, processed |-> StartSlot]
  BY DEF Init
<1>14. /\ proj = [a \in Addrs |-> NoRow] /\ newest = [a \in Addrs |-> NoRow]
       /\ rawAccounts = {} /\ staged = {} /\ gaps = [g \in Slots \X Slots |-> "none"]
       /\ rawEvents = [t \in Txs |-> [slot |-> 0, commitment |-> "none"]]
  BY Zenon DEF Init
<1>15. StoreTypeOK
  <2>1. slotRow \in [Slots -> [status: Commitments \cup {"none"}, parent: Parents]]
    <3> DEFINE r(s) == [status |-> IF s <= StartSlot THEN "finalized" ELSE "none",
                        parent |-> IF s <= StartSlot THEN s - 1 ELSE NoParent]
    <3>1. \A s \in Slots : r(s) \in [status: Commitments \cup {"none"}, parent: Parents]
      BY <1>2 DEF Commitments, Parents
    <3>2. slotRow = [s \in Slots |-> r(s)]
      BY DEF Init
    <3> HIDE DEF r
    <3> QED BY <3>1, <3>2
  <2>2. checkpoint \in [finalized: 0 .. MaxSlot, processed: 0 .. MaxSlot]
    BY <1>1, <1>13
  <2>3. rawEvents \in [Txs -> EventRow]
    BY <1>1, <1>14 DEF EventRow
  <2>4. gaps \in [Slots \X Slots -> GapStatus]
    <3>1. "none" \in GapStatus
      BY DEF GapStatus
    <3> QED BY <1>14, <3>1
  <2>5. /\ proj \in [Addrs -> Versions \cup {NoRow}] /\ newest \in [Addrs -> Versions \cup {NoRow}]
        /\ rawAccounts \in SUBSET Stored /\ staged \in SUBSET Versions
    BY <1>14
  <2> QED BY <2>1, <2>2, <2>3, <2>4, <2>5, Zenon DEF StoreTypeOK
<1>16. SlotTableInv
  BY <1>2, <1>3, <1>13 DEF SlotTableInv, Known, Rooted
<1>17. CheckpointSound
  BY <1>1, <1>13 DEF CheckpointSound, Known
<1>18. RowsInv /\ PublicIsRooted /\ EventSlots
  <2>1. \A a \in Addrs : proj[a] = NoRow
    BY <1>14
  <2>2. \A t \in Txs : rawEvents[t].commitment = "none"
    BY <1>14
  <2>3. RowsTypeOK
    BY <1>15, Zenon DEF StoreTypeOK, RowsTypeOK
  <2> QED BY <1>14, <2>1, <2>2, <2>3
     DEF RowsInv, StagedIsPending, ProjectionBacked, PublicIsRooted, EventSlots
<1>19. GapsRecorded
  BY <1>1, <1>2, <1>8, <1>13 DEF GapsRecorded, Known
<1>20. GapsUnrepaired
  BY <1>14 DEF GapsUnrepaired
<1>21. TypeOK
  BY <1>1, <1>6, <1>8, <1>9, <1>11, <1>15, TypeMeans, Zenon
<1> QED BY <1>7, <1>9, <1>12, <1>16, <1>17, <1>18, <1>19, <1>20, <1>21, Zenon DEF CoreInv

(***************************************************************************)
(* The theorems that hold from any start.                                  *)
(***************************************************************************)

\* The chain, the channel, the engine and the tables have their types: the
\* channel keeps its bound, no slot, gap or position of a block leaves its
\* range.
THEOREM IndexerTypeCorrect == Spec => []TypeOK
<1>1. CoreInv => TypeOK
  BY DEF CoreInv
<1> QED BY <1>1, CoreInitially, CoreInvariant, PTL DEF Spec

\* What the public reads return comes from the finalized chain alone, on any
\* forking chain and through any crashes, replays and repairs.
THEOREM PublicIsRootedCorrect == Spec => []PublicIsRooted
<1>1. CoreInv => PublicIsRooted
  BY DEF CoreInv
<1> QED BY <1>1, CoreInitially, CoreInvariant, PTL DEF Spec

\* Every slot between the first one tracked and the processed checkpoint is in
\* the slot table or inside a recorded gap.
THEOREM GapsRecordedCorrect == Spec => []GapsRecorded
<1>1. CoreInv => GapsRecorded
  BY DEF CoreInv
<1> QED BY <1>1, CoreInitially, CoreInvariant, PTL DEF Spec

\* The store accepts what an honest cluster says of a slot, if every update
\* comes with the parent.
LEMMA HonestAccepted ==
    ASSUME OmitParents = {}, TypeOK, ChainInv, SlotTableInv,
           NEW u \in Updates, u.kind = "slot", Honest(u)
    PROVE  UpsertAccepted(u)
<1>1. u.slot \in Slots /\ u.slot \in Int /\ NoParent \notin Nat
  BY UpdateFacts, StoreAssumption DEF Slots
<1>2. u.parent = block[u.slot].parent /\ block[u.slot].parent < u.slot
  BY <1>1 DEF Honest, ChainInv
<1>3. u.parent \in Nat /\ u.parent # u.slot /\ u.parent # NoParent
  <2>1. block[u.slot].parent \in 0 .. MaxSlot
    BY <1>1, TypeMeans DEF ChainTypeOK, Block
  <2> QED BY <1>1, <1>2, <2>1
<1>4. ASSUME Known(u.slot)
      PROVE  /\ slotRow[u.slot].parent = u.parent
             /\ {slotRow[u.slot].status, u.status} # {"finalized", "dead"}
  <2>1. /\ slotRow[u.slot].parent = block[u.slot].parent
        /\ slotRow[u.slot].status = "finalized" => Rooted(u.slot)
        /\ slotRow[u.slot].status = "dead" => block[u.slot].phase = "dead"
    BY <1>1, <1>4 DEF SlotTableInv
  <2>2. u.status = "finalized" => Rooted(u.slot)
    BY DEF Honest
  <2>3. u.status = "dead" => block[u.slot].phase = "dead"
    BY DEF Honest
  <2>4. ~(slotRow[u.slot].status = "finalized" /\ u.status = "dead")
    BY <2>1, <2>3 DEF Rooted
  <2>5. ~(slotRow[u.slot].status = "dead" /\ u.status = "finalized")
    BY <2>1, <2>2 DEF Rooted
  <2> QED BY <1>2, <2>1, <2>4, <2>5
<1> QED BY <1>3, <1>4 DEF UpsertAccepted, ParentConflict

(***************************************************************************)
(* The status route.                                                       *)
(***************************************************************************)

\* What has been read of the checkpoint is still behind it.
ReadInv ==
    /\ CoreInv /\ ReaderTypeOK
    /\ reader.at = "gaps" => reader.processed <= checkpoint.processed

\* The processed checkpoint never goes back.
LEMMA CheckpointGrows ==
    ASSUME CoreInv, [Next]_vars
    PROVE  checkpoint.processed <= checkpoint'.processed
<1>1. checkpoint.processed \in 0 .. MaxSlot
  BY CheckpointFacts DEF CoreInv
<1>2. CASE UNCHANGED storeVars
  BY <1>1, <1>2 DEF storeVars
<1>3. CASE EngineStep
  <2>1. StoreCall /\ GapStep
    BY <1>3, StoreCalls, Zenon DEF CoreInv
  <2>2. SlotStep
    BY <2>1, StoreStep, TypeMeans, Zenon DEF CoreInv
  <2> QED BY <2>2 DEF SlotStep
<1>4. UNCHANGED storeVars \/ EngineStep
  BY Zenon DEF Next, Cluster, Connect, Forward, Drop, Restart, Crash, vars
<1> QED BY <1>2, <1>3, <1>4

\* The indexer does not make a half-done status answer wrong.
LEMMA ReadInvariant ==
    ASSUME ReadInv, [ReadNext]_<<vars, reader>>
    PROVE  ReadInv'
<1>1. CoreInv /\ ReaderTypeOK
  BY DEF ReadInv
<1>2. /\ checkpoint.processed \in 0 .. MaxSlot /\ checkpoint.finalized \in 0 .. MaxSlot
  BY <1>1, CheckpointFacts DEF CoreInv
<1>3. [Next]_vars
  BY Zenon DEF ReadNext, ReadCheckpoint, CountGaps
<1>4. CoreInv' /\ checkpoint.processed <= checkpoint'.processed
  BY <1>1, <1>3, CoreInvariant, CheckpointGrows
<1>5. checkpoint'.processed \in 0 .. MaxSlot
  <2>1. TypeOK'
    BY <1>4 DEF CoreInv
  <2> QED BY <2>1 DEF TypeOK, StoreTypeOK
<1>6. CASE UNCHANGED reader
  <2>1. reader.at = "gaps" => reader.processed \in 0 .. MaxSlot
    BY <1>1 DEF ReaderTypeOK
  <2> QED BY <1>2, <1>4, <1>5, <1>6, <2>1 DEF ReadInv, ReaderTypeOK
<1>7. CASE ReadCheckpoint
  BY <1>2, <1>4, <1>5, <1>7 DEF ReadCheckpoint, ReadInv, ReaderTypeOK
<1>8. CASE CountGaps
  BY <1>4, <1>8, StoreAssumption DEF CountGaps, Idle, ReadInv, ReaderTypeOK
<1> QED BY <1>6, <1>7, <1>8 DEF ReadNext

\* What the invariant says of an answer that is complete.
LEMMA ReadInvComplete ==
    ASSUME ReadInv
    PROVE  StatusComplete
<1> SUFFICES ASSUME reader.at = "gaps", OpenGaps = {}, NEW s \in Slots,
                    base <= s, s <= reader.processed
             PROVE  Known(s)
  BY DEF StatusComplete
<1>1. GapsRecorded /\ GapsUnrepaired
  BY DEF ReadInv, CoreInv
<1>2. s <= checkpoint.processed
  <2>1. /\ checkpoint.processed \in 0 .. MaxSlot /\ reader.processed \in 0 .. MaxSlot
        /\ s \in 0 .. MaxSlot /\ reader.processed <= checkpoint.processed
    BY CheckpointFacts, SlotFacts DEF ReadInv, CoreInv, ReaderTypeOK
  <2> QED BY <2>1
<1>3. \A g \in Slots \X Slots : gaps[g] = "none"
  BY <1>1, Zenon DEF GapsUnrepaired, OpenGaps, Unrepaired
<1> QED BY <1>1, <1>2, <1>3, Zenon DEF GapsRecorded

\* A status without open gaps is the truth about what it covers, although the
\* indexer went on between its two queries.
THEOREM StatusCompleteCorrect == ReadSpec => []StatusComplete
<1>1. ReadInit => ReadInv
  BY CoreInitially, StoreAssumption DEF ReadInit, ReadInv, ReaderTypeOK, Idle
<1>2. ReadInv /\ [ReadNext]_<<vars, reader>> => ReadInv'
  BY ReadInvariant
<1>3. ReadInv => StatusComplete
  BY ReadInvComplete
<1> QED BY <1>1, <1>2, <1>3, PTL DEF ReadSpec

(***************************************************************************)
(* Resuming, part two of the invariant.  A step that touches neither the   *)
(* channel nor the tables.                                                 *)
(***************************************************************************)
TablesInv == KeysUnique /\ NewestInv /\ PagesReadable /\ NewestWins
Tables == <<slotRow, checkpoint, rawAccounts, staged, proj, newest>>

\* The parts of the invariant, the tables as one.
LEMMA ResumeMeans ==
    ResumeInv <=> /\ LogOrder /\ SessionInv /\ ChannelInv /\ PendingInv /\ CompleteInv
                  /\ NothingStranded /\ TablesInv
BY Zenon DEF ResumeInv, TablesInv

\* Rows that nobody writes keep their order.
LEMMA TablesUntouched ==
    ASSUME TablesInv, UNCHANGED Tables
    PROVE  TablesInv'
<1>1. UNCHANGED <<checkpoint, rawAccounts, proj, newest>>
  BY Zenon DEF Tables
<1> QED BY <1>1 DEF TablesInv, KeysUnique, NewestInv, PagesReadable, NewestWins

\* Steps outside chain and tables keep what relates the two.
LEMMA LogUntouched ==
    ASSUME LogOrder, CompleteInv, NothingStranded, UNCHANGED chainVars, UNCHANGED Tables
    PROVE  LogOrder' /\ CompleteInv' /\ NothingStranded'
<1>1. UNCHANGED block /\ UNCHANGED log /\ UNCHANGED slotRow /\ UNCHANGED checkpoint
      /\ UNCHANGED rawAccounts /\ UNCHANGED staged
  BY Zenon DEF Tables, chainVars
<1>2. LogOrder'
  BY <1>1 DEF LogOrder, Rooted, IsFinal
<1>3. CompleteInv'
  BY <1>1 DEF CompleteInv, Rooted, Arrived, Duplicate, SameKey
<1>4. NothingStranded'
  BY <1>1 DEF NothingStranded
<1> QED BY <1>2, <1>3, <1>4

\* Steps of the engine between its calls of the store.
LEMMA ResumeQuiet ==
    ASSUME ResumeInv, UNCHANGED chainVars, UNCHANGED Tables, UNCHANGED <<session, queue>>,
           \A s \in Slots : Pending(s)' <=> Pending(s)
    PROVE  ResumeInv'
<1>1. /\ LogOrder /\ SessionInv /\ ChannelInv /\ PendingInv /\ CompleteInv
      /\ NothingStranded /\ TablesInv
  BY ResumeMeans, Zenon
<1>2. UNCHANGED block /\ UNCHANGED log /\ UNCHANGED slotRow /\ UNCHANGED checkpoint
      /\ UNCHANGED rawAccounts /\ UNCHANGED session /\ UNCHANGED queue
  BY Zenon DEF Tables, chainVars
<1> HIDE DEF Pending
<1>3. SessionInv'
  BY <1>1, <1>2 DEF SessionInv, IsFinal, Arrived, Duplicate
<1>4. ChannelInv'
  BY <1>1, <1>2 DEF ChannelInv, IsFinal, Arrived, Duplicate, Rooted
<1>5. PendingInv'
  BY <1>1, <1>2 DEF PendingInv, Arrived, Duplicate, Rooted
<1> QED BY <1>1, <1>3, <1>4, <1>5, TablesUntouched, LogUntouched, Zenon DEF ResumeInv, TablesInv

\* A process that has stopped.
LEMMA ResumeStopped ==
    ASSUME ResumeInv, UNCHANGED chainVars, UNCHANGED Tables, queue' = <<>>, ~session'.on,
           ~Running'
    PROVE  ResumeInv'
<1>1. /\ LogOrder /\ SessionInv /\ CompleteInv /\ NothingStranded /\ TablesInv
  BY ResumeMeans, Zenon
<1>2. UNCHANGED checkpoint
  BY Zenon DEF Tables
<1>3. SessionInv'
  BY <1>1, <1>2 DEF SessionInv
<1>4. ChannelInv'
  BY DEF ChannelInv
<1>5. PendingInv'
  BY DEF PendingInv, Pending, Running
<1> QED BY <1>1, <1>3, <1>4, <1>5, TablesUntouched, LogUntouched, Zenon DEF ResumeInv, TablesInv

\* The finalized checkpoint is a slot of the finalized chain.
LEMMA CheckpointRooted ==
    ASSUME CoreInv, SessionInv
    PROVE  /\ checkpoint.finalized \in Slots /\ root \in 0 .. MaxSlot
           /\ checkpoint.finalized <= root
<1>1. checkpoint.finalized \in 0 .. MaxSlot /\ root \in 0 .. MaxSlot
  BY CheckpointFacts DEF CoreInv, TypeOK
<1>2. checkpoint.finalized \in Slots
  BY <1>1 DEF SessionInv, Slots
<1>3. slotRow[checkpoint.finalized].status = "finalized"
  BY <1>2 DEF CoreInv, CheckpointSound
<1>4. Rooted(checkpoint.finalized)
  BY <1>2, <1>3 DEF CoreInv, SlotTableInv, Known
<1> QED BY <1>1, <1>2, <1>4 DEF CoreInv, ChainInv

\* A finalization that the engine or the channel holds is one of the chain.
LEMMA FinalRooted ==
    ASSUME CoreInv, NEW s \in Slots
    PROVE  /\ \A i \in DOMAIN log : IsFinal(log[i], s) => Rooted(s)
           /\ \A k \in DOMAIN queue : IsFinal(queue[k], s) => Rooted(s)
           /\ Pending(s) => Rooted(s)
<1>1. ChainInv /\ QueueInv /\ UpdateInv
  BY Zenon DEF CoreInv
<1>2. \A i \in DOMAIN log : IsFinal(log[i], s) => Rooted(s)
  BY <1>1, Zenon DEF ChainInv, Honest, IsFinal
<1>3. \A k \in DOMAIN queue : IsFinal(queue[k], s) => Rooted(s)
  BY <1>1, <1>2, Zenon DEF QueueInv
<1> QED BY <1>1, <1>2, <1>3, PendingRooted

\* What the cluster adds does not touch what is finalized: a new account is of
\* an open block, and a newly finalized slot is above the root.
LEMMA ClusterNews ==
    ASSUME StartSlot > 0, CoreInv, Cluster
    PROVE  /\ Len(log) \in Nat /\ DOMAIN log = 1 .. Len(log)
           /\ \A i \in DOMAIN log : i \in DOMAIN log' /\ log'[i] = log[i]
           /\ \A i \in DOMAIN log' : i \notin DOMAIN log => i = Len(log) + 1
           /\ \A i \in DOMAIN log' : log'[i].kind = "account" /\ i \notin DOMAIN log =>
                 log'[i].slot \in Slots /\ ~Rooted(log'[i].slot)
           /\ \A r \in Slots : Rooted(r) => Rooted(r)'
           /\ \A r \in Slots : Rooted(r)' => Rooted(r) \/ root < r
           /\ \A i \in DOMAIN log', s \in Slots : IsFinal(log'[i], s) /\ i \notin DOMAIN log =>
                 \A r \in Slots : Rooted(r)' => Rooted(r) \/ r = s
           /\ \A r \in Slots : Rooted(r)' /\ ~Rooted(r) =>
                 Len(log) + 1 \in DOMAIN log' /\ IsFinal(log'[Len(log) + 1], r)
<1>1. ChainTypeOK /\ ChainInv
  BY TypeMeans, Zenon DEF CoreInv
<1>2. BlockStep /\ ClusterSends
  BY <1>1, ClusterStep, Zenon
<1>3. log \in Seq(Updates) /\ Len(log) \in Nat /\ DOMAIN log = 1 .. Len(log)
  BY <1>1 DEF ChainTypeOK
<1>4. \A r \in Slots : Rooted(r) => Rooted(r)'
  BY <1>2 DEF BlockStep, Rooted
<1>5. CASE SendsNothing
  BY <1>3, <1>4, <1>5, IndexerAssumption DEF SendsNothing
<1>6. ASSUME NEW u \in Updates, SendsItem(u) \/ SendsStatus(u) \/ SendsRoot(u)
      PROVE  /\ log' = Append(log, u) /\ u.slot \in Slots
             /\ u.kind = "account" => ~Rooted(u.slot)
             /\ \A r \in Slots : Rooted(r)' => Rooted(r) \/ (root < r /\ IsFinal(u, r))
  <2>1. u.slot \in Slots
    BY UpdateFacts
  <2>2. CASE SendsItem(u)
    BY <2>1, <2>2 DEF SendsItem, Sends, Rooted
  <2>3. CASE SendsStatus(u)
    BY <2>1, <2>3 DEF SendsStatus, Sends
  <2>4. CASE SendsRoot(u)
    BY <2>1, <2>4 DEF SendsRoot, Sends, IsFinal
  <2> QED BY <1>6, <2>2, <2>3, <2>4
<1>7. ASSUME NEW u \in Updates, SendsItem(u) \/ SendsStatus(u) \/ SendsRoot(u)
      PROVE  /\ \A i \in DOMAIN log : i \in DOMAIN log' /\ log'[i] = log[i]
             /\ \A i \in DOMAIN log' : i \notin DOMAIN log => i = Len(log) + 1
             /\ Len(log) + 1 \in DOMAIN log' /\ log'[Len(log) + 1] = u
  BY <1>3, <1>6, <1>7, AppendFacts
<1>8. ASSUME NEW u \in Updates, SendsItem(u) \/ SendsStatus(u) \/ SendsRoot(u)
      PROVE  /\ \A i \in DOMAIN log' : log'[i].kind = "account" /\ i \notin DOMAIN log =>
                   log'[i].slot \in Slots /\ ~Rooted(log'[i].slot)
             /\ \A r \in Slots : Rooted(r)' => Rooted(r) \/ root < r
             /\ \A r \in Slots : Rooted(r)' /\ ~Rooted(r) =>
                   Len(log) + 1 \in DOMAIN log' /\ IsFinal(log'[Len(log) + 1], r)
             /\ \A i \in DOMAIN log', s \in Slots : IsFinal(log'[i], s) /\ i \notin DOMAIN log =>
                   \A r \in Slots : Rooted(r)' => Rooted(r) \/ r = s
  <2>1. \A r \in Slots : Rooted(r)' => Rooted(r) \/ (root < r /\ IsFinal(u, r))
    BY <1>6, <1>8
  <2>2. u.slot \in Slots /\ (u.kind = "account" => ~Rooted(u.slot))
    BY <1>6, <1>8
  <2>3. Len(log) + 1 \in DOMAIN log' /\ log'[Len(log) + 1] = u
    BY <1>7, <1>8
  <2>4. \A i \in DOMAIN log' : i \notin DOMAIN log => log'[i] = u
    BY <1>7, <1>8, <2>3
  <2>5. \A r, s \in Slots : IsFinal(u, r) /\ IsFinal(u, s) => r = s
    BY DEF IsFinal
  <2> QED BY <2>1, <2>2, <2>3, <2>4, <2>5, Zenon
<1> QED BY <1>2, <1>3, <1>4, <1>5, <1>7, <1>8, Zenon DEF ClusterSends

\* A block is finalized in the log after its writes and after the slots below it.
LEMMA ClusterLogOrder ==
    ASSUME StartSlot > 0, CoreInv, LogOrder, Cluster
    PROVE  LogOrder'
<1> DEFINE n == Len(log)
<1>1. /\ n \in Nat /\ DOMAIN log = 1 .. n
      /\ \A i \in DOMAIN log : i \in DOMAIN log' /\ log'[i] = log[i]
      /\ \A i \in DOMAIN log' : i \notin DOMAIN log => i = n + 1
  BY ClusterNews
<1>2. /\ \A i \in DOMAIN log' : log'[i].kind = "account" /\ i \notin DOMAIN log =>
                 log'[i].slot \in Slots /\ ~Rooted(log'[i].slot)
      /\ \A r \in Slots : Rooted(r)' => Rooted(r) \/ root < r
      /\ \A i \in DOMAIN log', s \in Slots : IsFinal(log'[i], s) /\ i \notin DOMAIN log =>
            \A r \in Slots : Rooted(r)' => Rooted(r) \/ r = s
      /\ \A r \in Slots : Rooted(r)' /\ ~Rooted(r) =>
            n + 1 \in DOMAIN log' /\ IsFinal(log'[n + 1], r)
  BY ClusterNews
<1>3. \A i \in DOMAIN log, s \in Slots : IsFinal(log[i], s) => Rooted(s) /\ s <= root
  BY FinalRooted DEF CoreInv, ChainInv
<1>4. root \in Int /\ \A s \in Slots : s \in Int
  BY SlotFacts, StoreAssumption DEF CoreInv, TypeOK
<1> HIDE DEF n
<1>5. \A s \in Slots : Rooted(s)' => \E i \in DOMAIN log' : IsFinal(log'[i], s)
  <2> SUFFICES ASSUME NEW s \in Slots, Rooted(s)' PROVE \E i \in DOMAIN log' : IsFinal(log'[i], s)
    OBVIOUS
  <2>1. CASE Rooted(s)
    <3>1. PICK i \in DOMAIN log : IsFinal(log[i], s)
      BY <2>1 DEF LogOrder
    <3> QED BY <1>1, <3>1
  <2>2. CASE ~Rooted(s)
    BY <1>2, <2>2, Zenon
  <2> QED BY <2>1, <2>2
<1>6. ASSUME NEW i \in DOMAIN log', NEW r \in Slots, NEW s \in Slots,
             IsFinal(log'[i], s), Rooted(r)', r < s
      PROVE  \E j \in DOMAIN log' : j < i /\ IsFinal(log'[j], r)
  <2>1. CASE i \in DOMAIN log
    <3>1. IsFinal(log[i], s) /\ s <= root
      BY <1>1, <1>3, <1>6, <2>1
    <3>2. Rooted(r)
      BY <1>2, <1>4, <1>6, <3>1
    <3>3. PICK j \in DOMAIN log : j < i /\ IsFinal(log[j], r)
      BY <1>6, <2>1, <3>1, <3>2, Zenon DEF LogOrder
    <3> QED BY <1>1, <3>3
  <2>2. CASE i \notin DOMAIN log
    <3>1. Rooted(r)
      BY <1>2, <1>4, <1>6, <2>2
    <3>2. PICK j \in DOMAIN log : IsFinal(log[j], r)
      BY <3>1 DEF LogOrder
    <3>3. i = n + 1 /\ j < i
      BY <1>1, <2>2
    <3> QED BY <1>1, <3>2, <3>3
  <2> QED BY <2>1, <2>2
<1>7. ASSUME NEW i \in DOMAIN log', NEW j \in DOMAIN log',
             log'[i].kind = "account", IsFinal(log'[j], log'[i].slot)
      PROVE  i < j
  <2>1. CASE i \in DOMAIN log /\ j \in DOMAIN log
    BY <1>1, <1>7, <2>1 DEF LogOrder
  <2>2. CASE i \in DOMAIN log /\ j \notin DOMAIN log
    BY <1>1, <2>2
  <2>3. CASE i \notin DOMAIN log /\ j \in DOMAIN log
    BY <1>1, <1>2, <1>3, <1>7, <2>3
  <2>4. CASE i \notin DOMAIN log /\ j \notin DOMAIN log
    <3>1. i = j
      BY <1>1, <2>4
    <3> QED BY <1>7, <3>1 DEF IsFinal
  <2> QED BY <2>1, <2>2, <2>3, <2>4
<1> QED BY <1>5, <1>6, <1>7 DEF LogOrder, IsFinal

\* The cluster appends to the log behind what the session has taken.
LEMMA ClusterResume ==
    ASSUME StartSlot > 0, CoreInv, ResumeInv, Cluster
    PROVE  ResumeInv'
<1>1. /\ LogOrder /\ SessionInv /\ ChannelInv /\ PendingInv /\ CompleteInv
      /\ NothingStranded /\ TablesInv
  BY ResumeMeans, Zenon
<1>2. UNCHANGED storeVars /\ UNCHANGED session /\ UNCHANGED queue /\ UNCHANGED engine
  BY Zenon DEF Cluster
<1>3. /\ UNCHANGED slotRow /\ UNCHANGED checkpoint /\ UNCHANGED rawAccounts /\ UNCHANGED staged
      /\ UNCHANGED Tables
  BY <1>2, Zenon DEF storeVars, Tables
<1>4. /\ \A s \in Slots : Pending(s)' <=> Pending(s)
      /\ \A u : Arrived(u)' <=> Arrived(u)
  BY <1>2, <1>3 DEF Pending, IsFinal, Arrived, Duplicate
<1>5. /\ Len(log) \in Nat /\ DOMAIN log = 1 .. Len(log)
      /\ \A i \in DOMAIN log : i \in DOMAIN log' /\ log'[i] = log[i]
      /\ \A i \in DOMAIN log' : i \notin DOMAIN log => i = Len(log) + 1
      /\ \A i \in DOMAIN log' : log'[i].kind = "account" /\ i \notin DOMAIN log =>
                 log'[i].slot \in Slots /\ ~Rooted(log'[i].slot)
      /\ \A r \in Slots : Rooted(r)' => Rooted(r) \/ root < r
  BY ClusterNews, Zenon
<1>6. /\ checkpoint.finalized \in Slots /\ root \in 0 .. MaxSlot
      /\ checkpoint.finalized <= root
  BY <1>1, CheckpointRooted
<1>7. /\ \A k \in DOMAIN queue, s \in Slots : IsFinal(queue[k], s) => Rooted(s)
      /\ \A s \in Slots : Pending(s) => Rooted(s)
      /\ \A s \in Slots : slotRow[s].status = "finalized" => Rooted(s)
  BY FinalRooted DEF CoreInv, SlotTableInv, Known
<1>8. \A s \in Slots : Rooted(s) => s <= root
  BY DEF CoreInv, ChainInv
<1>9. root \in Int /\ checkpoint.finalized \in Int /\ \A s \in Slots : s \in Int
  BY <1>6, SlotFacts, StoreAssumption
<1>10. \A r, s \in Slots : Rooted(r)' /\ Rooted(s) /\ r < s => Rooted(r)
  BY <1>5, <1>8, <1>9
<1> HIDE DEF Pending, Arrived, IsFinal, Rooted
<1>11. SessionInv'
  <2>1. checkpoint'.finalized > 0
    BY <1>1, <1>3 DEF SessionInv
  <2> SUFFICES ASSUME session.on
               PROVE  /\ session.from <= checkpoint.finalized
                      /\ session.cursor <= Len(log')
                      /\ \A i \in 1 .. session.cursor :
                            log'[i].kind = "account" /\ log'[i].slot >= session.from =>
                                \/ \E k \in DOMAIN queue : queue[k] = log'[i]
                                \/ Arrived(log'[i])
                                \/ slotRow[log'[i].slot].status = "dead"
                      /\ \A i \in 1 .. session.cursor, s \in Slots :
                            IsFinal(log'[i], s) /\ s > checkpoint.finalized =>
                                Pending(s) \/ \E k \in DOMAIN queue : IsFinal(queue[k], s)
    BY <1>2, <1>3, <1>4, <2>1 DEF SessionInv, Arrived, Duplicate, IsFinal
  <2>2. session.cursor \in Nat /\ session.cursor <= Len(log)
    BY <1>1, TypeMeans DEF SessionInv, CoreInv, FeedTypeOK, SessionState
  <2>3. \A i \in 1 .. session.cursor : i \in DOMAIN log /\ log'[i] = log[i]
    BY <1>5, <2>2
  <2>4. session.cursor <= Len(log')
    <3>1. log' \in Seq(Updates) /\ log \in Seq(Updates)
      BY ClusterStep, TypeMeans DEF CoreInv, ChainTypeOK
    <3>2. CASE session.cursor = 0
      BY <3>1, <3>2
    <3>3. CASE session.cursor # 0
      <4>1. session.cursor \in DOMAIN log'
        BY <1>5, <2>2, <3>3
      <4> QED BY <3>1, <4>1
    <3> QED BY <3>2, <3>3
  <2>5. session.from <= checkpoint.finalized
    BY <1>1 DEF SessionInv
  <2> QED BY <1>1, <2>3, <2>4, <2>5 DEF SessionInv
<1>12. ChannelInv'
  <2> SUFFICES ASSUME NEW k \in DOMAIN queue, NEW s \in Slots, IsFinal(queue[k], s)
               PROVE  /\ \A i \in DOMAIN log' : log'[i].kind = "account" /\ log'[i].slot = s =>
                            Arrived(log'[i]) \/ \E j \in DOMAIN queue : j < k /\ queue[j] = log'[i]
                      /\ \A r \in Slots : Rooted(r)' /\ checkpoint.finalized < r /\ r < s =>
                            Pending(r) \/ \E j \in DOMAIN queue : j < k /\ IsFinal(queue[j], r)
    BY <1>2, <1>3, <1>4 DEF ChannelInv, Arrived, Duplicate, IsFinal
  <2>1. Rooted(s)
    BY <1>7
  <2>2. \A i \in DOMAIN log' : log'[i].kind = "account" /\ log'[i].slot = s =>
            i \in DOMAIN log /\ log'[i] = log[i]
    BY <1>5, <2>1
  <2>3. ASSUME NEW i \in DOMAIN log', log'[i].kind = "account", log'[i].slot = s
        PROVE  Arrived(log'[i]) \/ \E j \in DOMAIN queue : j < k /\ queue[j] = log'[i]
    <3>1. i \in DOMAIN log /\ log'[i] = log[i]
      BY <2>2, <2>3
    <3> QED BY <1>1, <2>3, <3>1 DEF ChannelInv
  <2>4. ASSUME NEW r \in Slots, Rooted(r)', checkpoint.finalized < r, r < s
        PROVE  Pending(r) \/ \E j \in DOMAIN queue : j < k /\ IsFinal(queue[j], r)
    BY <1>1, <1>10, <2>1, <2>4, Zenon DEF ChannelInv
  <2> QED BY <2>3, <2>4
<1>13. PendingInv'
  <2> SUFFICES ASSUME NEW s \in Slots, Pending(s)
               PROVE  /\ \A i \in DOMAIN log' : log'[i].kind = "account" /\ log'[i].slot = s =>
                            Arrived(log'[i])
                      /\ \A r \in Slots : Rooted(r)' /\ r < s => r <= checkpoint.finalized
    BY <1>3, <1>4 DEF PendingInv, Arrived, Duplicate
  <2>1. Rooted(s)
    BY <1>7
  <2>2. \A i \in DOMAIN log' : log'[i].kind = "account" /\ log'[i].slot = s =>
            i \in DOMAIN log /\ log'[i] = log[i]
    BY <1>5, <2>1
  <2> QED BY <1>1, <1>10, <2>1, <2>2, Zenon DEF PendingInv
<1>14. CompleteInv'
  <2>1. ASSUME NEW i \in DOMAIN log', log'[i].kind = "account",
               slotRow[log'[i].slot].status = "finalized"
        PROVE  Arrived(log'[i])
    <3>1. i \in DOMAIN log
      BY <1>5, <1>7, <2>1
    <3> QED BY <1>1, <1>5, <2>1, <3>1 DEF CompleteInv
  <2>2. ASSUME NEW s \in Slots, Rooted(s)', s <= checkpoint.finalized
        PROVE  slotRow[s].status = "finalized"
    BY <1>1, <1>5, <1>6, <1>9, <2>2 DEF CompleteInv
  <2> QED BY <1>3, <1>4, <2>1, <2>2 DEF CompleteInv, Arrived, Duplicate
<1>15. NothingStranded'
  <2> SUFFICES ASSUME NEW v \in staged, Rooted(v.slot)' PROVE checkpoint.finalized < v.slot
    BY <1>3 DEF NothingStranded, Rooted
  <2>1. v.slot \in Slots
    BY VersionFacts DEF CoreInv, RowsInv, RowsTypeOK
  <2>2. CASE Rooted(v.slot)
    BY <1>1, <2>2 DEF NothingStranded, Rooted
  <2>3. CASE root < v.slot
    BY <1>6, <1>9, <2>1, <2>3
  <2> QED BY <1>5, <2>1, <2>2, <2>3
<1>16. LogOrder' /\ TablesInv'
  BY <1>1, <1>3, ClusterLogOrder, TablesUntouched
<1> QED BY <1>11, <1>12, <1>13, <1>14, <1>15, <1>16, Zenon DEF ResumeInv, TablesInv

\* A session that starts over, or has ended, owes nothing yet.
LEMMA ResumeSession ==
    ASSUME ResumeInv, UNCHANGED chainVars, UNCHANGED Tables, UNCHANGED <<queue, engine>>,
           log \in Seq(Updates),
           session'.on => session'.from <= checkpoint.finalized /\ session'.cursor = 0
    PROVE  ResumeInv'
<1>1. /\ LogOrder /\ SessionInv /\ ChannelInv /\ PendingInv /\ CompleteInv
      /\ NothingStranded /\ TablesInv
  BY ResumeMeans, Zenon
<1>2. UNCHANGED block /\ UNCHANGED log /\ UNCHANGED slotRow /\ UNCHANGED checkpoint
      /\ UNCHANGED rawAccounts /\ UNCHANGED queue /\ UNCHANGED engine
  BY Zenon DEF Tables, chainVars
<1>3. SessionInv'
  <2>1. 0 <= Len(log) /\ 1 .. 0 = {}
    OBVIOUS
  <2> QED BY <1>1, <1>2, <2>1 DEF SessionInv
<1>4. \A s \in Slots : Pending(s)' <=> Pending(s)
  BY <1>2 DEF Pending, IsFinal
<1> HIDE DEF Pending
<1>5. ChannelInv'
  BY <1>1, <1>2, <1>4 DEF ChannelInv, IsFinal, Arrived, Duplicate, Rooted
<1>6. PendingInv'
  BY <1>1, <1>2, <1>4 DEF PendingInv, Arrived, Duplicate, Rooted
<1> QED BY <1>1, <1>3, <1>5, <1>6, TablesUntouched, LogUntouched, Zenon DEF ResumeInv, TablesInv

\* An update is passed over only if it is older than the session, and by then
\* the checkpoint; what comes before a finalization in the log has come before
\* it in the channel.
LEMMA ForwardResume ==
    ASSUME CoreInv, ResumeInv, Forward
    PROVE  ResumeInv'
<1> DEFINE n == session.cursor + 1
           u == log[n]
<1>1. /\ LogOrder /\ SessionInv /\ ChannelInv /\ PendingInv /\ CompleteInv
      /\ NothingStranded /\ TablesInv
  BY ResumeMeans, Zenon
<1>2. UNCHANGED chainVars /\ UNCHANGED Tables /\ UNCHANGED engine
  BY Zenon DEF Forward, storeVars, Tables
<1>3. UNCHANGED block /\ UNCHANGED log /\ UNCHANGED slotRow /\ UNCHANGED checkpoint
      /\ UNCHANGED rawAccounts
  BY <1>2, Zenon DEF Tables, chainVars
<1>4. /\ session \in SessionState /\ log \in Seq(Updates) /\ queue \in Seq(Updates)
      /\ session.cursor \in Nat /\ session.on /\ session.cursor < Len(log)
  BY TypeMeans DEF Forward, CoreInv, FeedTypeOK, ChainTypeOK, SessionState
<1>5. n \in DOMAIN log /\ u \in Updates /\ n \in Nat /\ u.slot \in Slots /\ DOMAIN log \subseteq Nat
  BY <1>4, UpdateFacts
<1>6. session'.on /\ session'.from = session.from /\ session'.cursor = n
  BY <1>4 DEF Forward, SessionState
<1>7. \/ u.slot < session.from /\ queue' = queue
      \/ u.slot >= session.from /\ queue' = Append(queue, u)
  <2>1. session.from \in Int /\ u.slot \in Int
    BY <1>4, <1>5, SlotFacts, StoreAssumption DEF SessionState
  <2> QED BY <2>1 DEF Forward
<1>8. /\ session.from <= checkpoint.finalized /\ checkpoint.finalized > 0
      /\ session.from \in Int /\ checkpoint.finalized \in Int /\ \A s \in Slots : s \in Int
  BY <1>1, <1>4, CheckpointRooted, SlotFacts, StoreAssumption DEF SessionInv, SessionState
<1>9. /\ \A s \in Slots : Pending(s)' <=> Pending(s)
      /\ \A x : Arrived(x)' <=> Arrived(x)
  BY <1>2, <1>3 DEF Pending, IsFinal, Arrived, Duplicate
<1>10. /\ \A k \in DOMAIN queue : k \in DOMAIN queue' /\ queue'[k] = queue[k]
       /\ \A k \in DOMAIN queue' :
             \/ k \in DOMAIN queue /\ queue'[k] = queue[k]
             \/ /\ queue'[k] = u /\ u.slot >= session.from
                /\ \A j \in DOMAIN queue : j < k
       /\ u.slot >= session.from => \E k \in DOMAIN queue' : queue'[k] = u
  <2>1. CASE u.slot < session.from /\ queue' = queue
    <3>1. ~(u.slot >= session.from)
      BY <1>5, <1>8, <2>1
    <3> QED BY <2>1, <3>1
  <2>2. CASE u.slot >= session.from /\ queue' = Append(queue, u)
    <3> HIDE DEF u
    <3> QED BY <1>4, <1>5, <2>2, AppendFacts
  <2> QED BY <1>7, <2>1, <2>2
<1>11. \A i \in 1 .. n : i = n \/ i \in 1 .. session.cursor
  BY <1>4
<1>12. \A s \in Slots : IsFinal(u, s) => s = u.slot /\ Rooted(s)
  BY <1>5, FinalRooted DEF IsFinal
<1>13. ASSUME NEW s \in Slots, Rooted(s) PROVE slotRow[s].status # "dead"
  BY <1>13 DEF CoreInv, SlotTableInv, Known, Rooted
<1> HIDE DEF n, u, Pending, Arrived, IsFinal, Rooted
<1>14. SessionInv'
  <2> SUFFICES /\ n <= Len(log)
               /\ \A i \in 1 .. n :
                     log[i].kind = "account" /\ log[i].slot >= session.from =>
                         \/ \E k \in DOMAIN queue' : queue'[k] = log[i]
                         \/ Arrived(log[i])
                         \/ slotRow[log[i].slot].status = "dead"
               /\ \A i \in 1 .. n, s \in Slots :
                     IsFinal(log[i], s) /\ s > checkpoint.finalized =>
                         Pending(s) \/ \E k \in DOMAIN queue' : IsFinal(queue'[k], s)
    BY <1>3, <1>6, <1>8, <1>9 DEF SessionInv, Arrived, Duplicate, IsFinal
  <2>1. n <= Len(log)
    BY <1>4, <1>5
  <2>2. ASSUME NEW i \in 1 .. n, log[i].kind = "account", log[i].slot >= session.from
        PROVE  \/ \E k \in DOMAIN queue' : queue'[k] = log[i]
               \/ Arrived(log[i])
               \/ slotRow[log[i].slot].status = "dead"
    <3>1. CASE i = n
      BY <1>10, <2>2, <3>1 DEF u
    <3>2. CASE i \in 1 .. session.cursor
      <4>1. \/ \E k \in DOMAIN queue : queue[k] = log[i]
            \/ Arrived(log[i])
            \/ slotRow[log[i].slot].status = "dead"
        BY <1>1, <1>4, <2>2, <3>2 DEF SessionInv
      <4> QED BY <1>10, <4>1
    <3> QED BY <1>11, <3>1, <3>2
  <2>3. ASSUME NEW i \in 1 .. n, NEW s \in Slots, IsFinal(log[i], s), s > checkpoint.finalized
        PROVE  Pending(s) \/ \E k \in DOMAIN queue' : IsFinal(queue'[k], s)
    <3>1. CASE i = n
      <4>1. s = u.slot
        BY <1>12, <2>3, <3>1 DEF u
      <4>2. PICK k \in DOMAIN queue' : queue'[k] = u
        BY <1>8, <1>10, <2>3, <4>1
      <4> QED BY <2>3, <3>1, <4>2 DEF u
    <3>2. CASE i \in 1 .. session.cursor
      <4>1. Pending(s) \/ \E k \in DOMAIN queue : IsFinal(queue[k], s)
        BY <1>1, <1>4, <2>3, <3>2 DEF SessionInv
      <4> QED BY <1>10, <4>1
    <3> QED BY <1>11, <3>1, <3>2
  <2> QED BY <2>1, <2>2, <2>3
<1>15. ChannelInv'
  <2> SUFFICES ASSUME NEW k \in DOMAIN queue', NEW s \in Slots, IsFinal(queue'[k], s)
               PROVE  /\ \A i \in DOMAIN log : log[i].kind = "account" /\ log[i].slot = s =>
                            Arrived(log[i]) \/ \E j \in DOMAIN queue' : j < k /\ queue'[j] = log[i]
                      /\ \A r \in Slots : Rooted(r) /\ checkpoint.finalized < r /\ r < s =>
                            Pending(r) \/ \E j \in DOMAIN queue' : j < k /\ IsFinal(queue'[j], r)
    BY <1>3, <1>9 DEF ChannelInv, Arrived, Duplicate, IsFinal, Rooted
  <2>1. CASE k \in DOMAIN queue /\ queue'[k] = queue[k]
    <3>1. ASSUME NEW i \in DOMAIN log, log[i].kind = "account", log[i].slot = s
          PROVE  Arrived(log[i]) \/ \E j \in DOMAIN queue' : j < k /\ queue'[j] = log[i]
      <4>1. Arrived(log[i]) \/ \E j \in DOMAIN queue : j < k /\ queue[j] = log[i]
        BY <1>1, <2>1, <3>1 DEF ChannelInv
      <4> QED BY <1>10, <4>1
    <3>2. ASSUME NEW r \in Slots, Rooted(r), checkpoint.finalized < r, r < s
          PROVE  Pending(r) \/ \E j \in DOMAIN queue' : j < k /\ IsFinal(queue'[j], r)
      <4>1. Pending(r) \/ \E j \in DOMAIN queue : j < k /\ IsFinal(queue[j], r)
        BY <1>1, <2>1, <3>2 DEF ChannelInv
      <4> QED BY <1>10, <4>1
    <3> QED BY <3>1, <3>2
  <2>2. CASE /\ queue'[k] = u /\ u.slot >= session.from
             /\ \A j \in DOMAIN queue : j < k
    <3>1. s = u.slot /\ Rooted(s) /\ IsFinal(log[n], s)
      BY <1>12, <2>2 DEF u
    <3>2. ASSUME NEW i \in DOMAIN log, log[i].kind = "account", log[i].slot = s
          PROVE  Arrived(log[i]) \/ \E j \in DOMAIN queue' : j < k /\ queue'[j] = log[i]
      <4>1. i < n
        BY <1>1, <1>5, <3>1, <3>2 DEF LogOrder
      <4>2. i \in 1 .. session.cursor
        BY <1>4, <1>5, <4>1 DEF n
      <4>3. \/ \E j \in DOMAIN queue : queue[j] = log[i]
            \/ Arrived(log[i])
            \/ slotRow[log[i].slot].status = "dead"
        BY <1>1, <1>4, <2>2, <3>1, <3>2, <4>2 DEF SessionInv
      <4>4. slotRow[log[i].slot].status # "dead"
        BY <1>13, <3>1, <3>2
      <4> QED BY <1>10, <2>2, <4>3, <4>4
    <3>3. ASSUME NEW r \in Slots, Rooted(r), checkpoint.finalized < r, r < s
          PROVE  Pending(r) \/ \E j \in DOMAIN queue' : j < k /\ IsFinal(queue'[j], r)
      <4>1. PICK i \in DOMAIN log : i < n /\ IsFinal(log[i], r)
        BY <1>1, <1>5, <3>1, <3>3, Zenon DEF LogOrder
      <4>2. i \in 1 .. session.cursor
        BY <1>4, <1>5, <4>1 DEF n
      <4>3. Pending(r) \/ \E j \in DOMAIN queue : IsFinal(queue[j], r)
        BY <1>1, <1>4, <1>8, <3>3, <4>1, <4>2 DEF SessionInv
      <4> QED BY <1>10, <2>2, <4>3
    <3> QED BY <3>2, <3>3
  <2> QED BY <1>10, <2>1, <2>2
<1>16. PendingInv'
  BY <1>1, <1>3, <1>9 DEF PendingInv, Arrived, Duplicate, Rooted
<1> QED BY <1>1, <1>2, <1>14, <1>15, <1>16, TablesUntouched, LogUntouched, Zenon
    DEF ResumeInv, TablesInv

\* A session that starts again, from a checkpoint, sees what it had not taken.
LEMMA ProcessResume ==
    ASSUME CoreInv, ResumeInv, Connect \/ Forward \/ Drop \/ Restart \/ Crash
    PROVE  ResumeInv'
<1>1. log \in Seq(Updates) /\ session \in SessionState
  BY TypeMeans DEF CoreInv, ChainTypeOK, FeedTypeOK
<1>2. CASE Connect
  <2>1. UNCHANGED chainVars /\ UNCHANGED Tables /\ UNCHANGED <<queue, engine>>
    BY <1>2, Zenon DEF Connect, storeVars, Tables
  <2>2. checkpoint.finalized > 0 /\ checkpoint.finalized \in Int
    BY CheckpointRooted, SlotFacts DEF ResumeInv, SessionInv
  <2>3. session'.from <= checkpoint.finalized /\ session'.cursor = 0
    BY <1>2, <2>2 DEF Connect
  <2> QED BY <1>1, <2>1, <2>3, ResumeSession
<1>3. CASE Drop
  <2>1. UNCHANGED chainVars /\ UNCHANGED Tables /\ UNCHANGED <<queue, engine>>
    BY <1>3, Zenon DEF Drop, storeVars, Tables
  <2>2. session'.on = FALSE
    BY <1>1, <1>3 DEF Drop, SessionState
  <2> QED BY <1>1, <2>1, <2>2, ResumeSession
<1>4. CASE Restart
  <2>1. UNCHANGED chainVars /\ UNCHANGED Tables /\ UNCHANGED <<session, queue>>
    BY <1>4, Zenon DEF Restart, storeVars, Tables
  <2>2. engine.at \in {"down", "failed"} /\ engine'.at = "idle"
    BY <1>4 DEF Restart, Running, Down
  <2>3. \A s \in Slots : Pending(s)' <=> Pending(s)
    BY <2>2 DEF Pending
  <2> QED BY <2>1, <2>3, ResumeQuiet
<1>5. CASE Crash
  <2>1. UNCHANGED chainVars /\ UNCHANGED Tables
    BY <1>5, Zenon DEF Crash, storeVars, Tables
  <2>2. queue' = <<>> /\ ~session'.on /\ ~Running'
    BY <1>5 DEF Crash, Stop, Running, Down
  <2> QED BY <2>1, <2>2, ResumeStopped
<1> QED BY <1>2, <1>3, <1>4, <1>5, ForwardResume

(***************************************************************************)
(* The engine takes an update out of the channel.                          *)
(***************************************************************************)
LEMMA TakeResume ==
    ASSUME CoreInv, ResumeInv, engine.at = "idle", queue # <<>>, queue' = Tail(queue),
           UNCHANGED session, UNCHANGED chainVars, UNCHANGED slotRow, UNCHANGED checkpoint,
           rawAccounts \subseteq rawAccounts',
           \A x : x = Head(queue) /\ x.kind = "account" => Arrived(x)',
           \A s \in Slots : Pending(s)' <=> IsFinal(Head(queue), s)
    PROVE  LogOrder' /\ SessionInv' /\ ChannelInv' /\ PendingInv' /\ CompleteInv'
<1>0. PICK h : h = Head(queue)
  OBVIOUS
<1>1. LogOrder /\ SessionInv /\ ChannelInv /\ PendingInv /\ CompleteInv
  BY ResumeMeans, Zenon
<1>2. UNCHANGED block /\ UNCHANGED log
  BY Zenon DEF chainVars
<1>3. /\ queue \in Seq(Updates) /\ \A k \in DOMAIN queue : k \in Int /\ k >= 1
      /\ h \in Updates /\ h = queue[1] /\ 1 \in DOMAIN queue
      /\ \A k \in DOMAIN queue' : /\ k \in Int /\ k >= 1 /\ k + 1 \in DOMAIN queue
                                  /\ queue'[k] = queue[k + 1]
      /\ \A k \in DOMAIN queue : k = 1 \/ (k - 1 \in DOMAIN queue' /\ queue'[k - 1] = queue[k])
  <2>1. queue \in Seq(Updates)
    BY TypeMeans DEF CoreInv, FeedTypeOK
  <2> QED BY <1>0, <2>1, HeadFacts
<1>4. \A x : Arrived(x) => Arrived(x)'
  BY Zenon DEF Arrived, Duplicate
<1>5. \A s \in Slots : ~Pending(s)
  BY DEF Pending
<1>6. checkpoint.finalized \in Int /\ \A s \in Slots : s \in Int
  BY <1>1, CheckpointRooted, SlotFacts
<1>7. h.kind = "account" => Arrived(h)'
  BY <1>0, Zenon
<1>8. \A s \in Slots : Pending(s)' <=> IsFinal(h, s)
  BY <1>0
<1>9. \A s \in Slots : IsFinal(h, s) => h.kind # "account"
  BY DEF IsFinal
<1> HIDE DEF Arrived, Pending
<1>10. LogOrder'
  BY <1>1, <1>2 DEF LogOrder, Rooted, IsFinal
<1>11. CompleteInv'
  <2>1. \A i \in DOMAIN log : log[i].kind = "account" /\ slotRow[log[i].slot].status = "finalized"
            => Arrived(log[i])'
    BY <1>1, <1>2, <1>4 DEF CompleteInv, Arrived, Duplicate
  <2>2. \A s \in Slots : Rooted(s)' /\ s <= checkpoint.finalized => slotRow[s].status = "finalized"
    BY <1>1, <1>2 DEF CompleteInv, Rooted
  <2> QED BY <1>2, <2>1, <2>2 DEF CompleteInv
<1>12. SessionInv'
  <2>1. /\ checkpoint.finalized > 0
        /\ session.on => session.from <= checkpoint.finalized /\ session.cursor <= Len(log)
    BY <1>1 DEF SessionInv
  <2>2. ASSUME session.on, NEW i \in 1 .. session.cursor,
               log[i].kind = "account", log[i].slot >= session.from
        PROVE  \/ \E k \in DOMAIN queue' : queue'[k] = log[i]
               \/ Arrived(log[i])'
               \/ slotRow[log[i].slot].status = "dead"
    <3>1. CASE \E k \in DOMAIN queue : queue[k] = log[i]
      <4>1. PICK k \in DOMAIN queue : queue[k] = log[i]
        BY <3>1
      <4>2. CASE k = 1
        BY <1>2, <1>3, <1>7, <2>2, <4>1, <4>2 DEF Arrived, Duplicate
      <4>3. CASE k # 1
        <5>1. k - 1 \in DOMAIN queue' /\ queue'[k - 1] = log[i]
          BY <1>3, <4>1, <4>3
        <5> QED BY <5>1
      <4> QED BY <4>2, <4>3
    <3>2. CASE Arrived(log[i])
      BY <1>2, <1>4, <3>2 DEF Arrived, Duplicate
    <3> QED BY <1>1, <2>2, <3>1, <3>2 DEF SessionInv
  <2>3. ASSUME session.on, NEW i \in 1 .. session.cursor, NEW s \in Slots,
               IsFinal(log[i], s), s > checkpoint.finalized
        PROVE  Pending(s)' \/ \E k \in DOMAIN queue' : IsFinal(queue'[k], s)
    <3>1. PICK k \in DOMAIN queue : IsFinal(queue[k], s)
      BY <1>1, <1>5, <2>3 DEF SessionInv
    <3>2. CASE k = 1
      BY <1>3, <1>8, <3>1, <3>2
    <3>3. CASE k # 1
      BY <1>3, <3>1, <3>3
    <3> QED BY <3>2, <3>3
  <2> QED BY <1>2, <2>1, <2>2, <2>3 DEF SessionInv, IsFinal
<1>13. ChannelInv'
  <2>1. ASSUME NEW k \in DOMAIN queue', NEW s \in Slots, IsFinal(queue'[k], s),
               NEW i \in DOMAIN log, log[i].kind = "account", log[i].slot = s
        PROVE  Arrived(log[i])' \/ \E j \in DOMAIN queue' : j < k /\ queue'[j] = log[i]
    <3>1. k + 1 \in DOMAIN queue /\ IsFinal(queue[k + 1], s)
      BY <1>3, <2>1
    <3>2. Arrived(log[i]) \/ \E j \in DOMAIN queue : j < k + 1 /\ queue[j] = log[i]
      BY <1>1, <2>1, <3>1 DEF ChannelInv
    <3>3. CASE Arrived(log[i])
      BY <1>2, <1>4, <3>3 DEF Arrived, Duplicate
    <3>4. ASSUME NEW j \in DOMAIN queue, j < k + 1, queue[j] = log[i]
          PROVE  Arrived(log[i])' \/ \E l \in DOMAIN queue' : l < k /\ queue'[l] = log[i]
      <4>1. CASE j = 1
        BY <1>2, <1>3, <1>7, <2>1, <3>4, <4>1 DEF Arrived, Duplicate
      <4>2. CASE j # 1
        <5>1. j - 1 \in DOMAIN queue' /\ j - 1 < k /\ queue'[j - 1] = log[i]
          BY <1>3, <3>4, <4>2
        <5> QED BY <5>1
      <4> QED BY <4>1, <4>2
    <3> QED BY <3>2, <3>3, <3>4
  <2>2. ASSUME NEW k \in DOMAIN queue', NEW s \in Slots, IsFinal(queue'[k], s),
               NEW r \in Slots, Rooted(r), checkpoint.finalized < r, r < s
        PROVE  Pending(r)' \/ \E j \in DOMAIN queue' : j < k /\ IsFinal(queue'[j], r)
    <3>1. k + 1 \in DOMAIN queue /\ IsFinal(queue[k + 1], s)
      BY <1>3, <2>2
    <3>2. PICK j \in DOMAIN queue : j < k + 1 /\ IsFinal(queue[j], r)
      BY <1>1, <1>5, <2>2, <3>1 DEF ChannelInv
    <3>3. CASE j = 1
      BY <1>3, <1>8, <3>2, <3>3
    <3>4. CASE j # 1
      <4>1. j - 1 \in DOMAIN queue' /\ j - 1 < k /\ IsFinal(queue'[j - 1], r)
        BY <1>3, <3>2, <3>4
      <4> QED BY <4>1
    <3> QED BY <3>3, <3>4
  <2> QED BY <1>2, <2>1, <2>2 DEF ChannelInv, IsFinal, Rooted
<1>14. PendingInv'
  <2>1. ASSUME NEW s \in Slots, IsFinal(h, s), NEW i \in DOMAIN log,
               log[i].kind = "account", log[i].slot = s
        PROVE  Arrived(log[i])'
    <3>1. Arrived(log[i]) \/ \E j \in DOMAIN queue : j < 1 /\ queue[j] = log[i]
      BY <1>1, <1>3, <2>1 DEF ChannelInv
    <3>2. Arrived(log[i])
      BY <1>3, <3>1
    <3> QED BY <1>2, <1>4, <3>2 DEF Arrived, Duplicate
  <2>2. ASSUME NEW s \in Slots, IsFinal(h, s), NEW r \in Slots, Rooted(r), r < s
        PROVE  r <= checkpoint.finalized
    <3> SUFFICES ASSUME checkpoint.finalized < r PROVE FALSE
      BY <1>6
    <3>1. \E j \in DOMAIN queue : j < 1 /\ IsFinal(queue[j], r)
      BY <1>1, <1>3, <1>5, <2>2 DEF ChannelInv
    <3> QED BY <1>3, <3>1
  <2> QED BY <1>2, <1>8, <2>1, <2>2 DEF PendingInv, Rooted
<1> QED BY <1>10, <1>11, <1>12, <1>13, <1>14

\* A finalized slot has all its versions, so that one that comes when its slot
\* is finalized is there already: nothing is applied out of turn.
LEMMA TakeAccountRows ==
    ASSUME CoreInv, ResumeInv, NEW u \in Updates, u = Head(queue), TakeAccount, ~Fail
    PROVE  /\ UNCHANGED slotRow /\ UNCHANGED checkpoint /\ UNCHANGED proj /\ UNCHANGED newest
           /\ rawAccounts \subseteq rawAccounts' /\ Arrived(u)'
           /\ \/ rawAccounts' = rawAccounts /\ staged' = staged
              \/ /\ ~Duplicate(u.version) /\ slotRow[u.version.slot].status # "finalized"
                 /\ u.version.slot \in Slots
                 /\ \E c : rawAccounts' = rawAccounts \cup {[version |-> u.version, commitment |-> c]}
                 /\ staged' \subseteq staged \cup {u.version}
<1>1. u.kind = "account" /\ InsertAccount(u.version, "processed") /\ queue # <<>>
  BY Zenon DEF TakeAccount, Take, Waiting, Received
<1>2. UNCHANGED slotRow /\ UNCHANGED checkpoint
  BY <1>1, Zenon DEF InsertAccount
<1>3. CASE Duplicate(u.version)
  <2>1. UNCHANGED rawAccounts /\ UNCHANGED staged /\ UNCHANGED proj /\ UNCHANGED newest
    BY <1>1, <1>3, Zenon DEF InsertAccount
  <2> QED BY <1>2, <1>3, <2>1 DEF Arrived, Duplicate
<1>4. CASE ~Duplicate(u.version)
  <2>1. u.version \in Versions /\ u.slot \in Slots
    BY <1>1, UpdateFacts
  <2>2. PICK i \in DOMAIN log : u = log[i]
    <3>1. queue \in Seq(Updates)
      BY TypeMeans DEF CoreInv, FeedTypeOK
    <3>2. 1 \in DOMAIN queue /\ u = queue[1]
      BY <1>1, <3>1, HeadFacts
    <3> QED BY <3>2 DEF CoreInv, QueueInv
  <2>3. u.version.slot = u.slot
    BY <1>1, <2>2 DEF CoreInv, ChainInv, Honest
  <2>4. slotRow[u.version.slot].status # "finalized"
    BY <1>1, <1>4, <2>2, <2>3 DEF ResumeInv, CompleteInv, Arrived
  <2>5. ~ApplyNow(u.version, "processed")
    BY <2>4 DEF ApplyNow
  <2>6. /\ rawAccounts' = rawAccounts \cup {[version |-> u.version, commitment |-> "processed"]}
        /\ UNCHANGED proj /\ UNCHANGED newest /\ staged' \subseteq staged \cup {u.version}
    BY <1>1, <1>4, <2>5 DEF InsertAccount
  <2>7. Arrived(u)'
    <3>1. [version |-> u.version, commitment |-> "processed"] \in rawAccounts'
      BY <2>6
    <3>2. [version |-> u.version, commitment |-> "processed"].version = u.version
      OBVIOUS
    <3> QED BY <3>1, <3>2, Zenon DEF Arrived, Duplicate, SameKey
  <2> QED BY <1>2, <1>4, <2>1, <2>3, <2>4, <2>6, <2>7
<1> QED BY <1>3, <1>4

\* Staging a version, which arrives before the finalization of its slot.
LEMMA TakeAccountResume ==
    ASSUME CoreInv, ResumeInv, TakeAccount, ~Fail, UNCHANGED chainVars
    PROVE  ResumeInv'
<1>1. engine.at = "idle" /\ queue # <<>> /\ queue' = Tail(queue) /\ UNCHANGED session
      /\ UNCHANGED engine /\ Head(queue).kind = "account"
  BY Zenon DEF TakeAccount, Take, Waiting, Received
<1>2. PICK u \in Updates : u = Head(queue)
  <2>1. queue \in Seq(Updates)
    BY TypeMeans DEF CoreInv, FeedTypeOK
  <2> QED BY <1>1, <2>1, HeadFacts
<1>3. /\ UNCHANGED slotRow /\ UNCHANGED checkpoint /\ UNCHANGED proj /\ UNCHANGED newest
      /\ rawAccounts \subseteq rawAccounts' /\ Arrived(u)'
      /\ \/ rawAccounts' = rawAccounts /\ staged' = staged
         \/ /\ ~Duplicate(u.version) /\ slotRow[u.version.slot].status # "finalized"
            /\ u.version.slot \in Slots
            /\ \E c : rawAccounts' = rawAccounts \cup {[version |-> u.version, commitment |-> c]}
            /\ staged' \subseteq staged \cup {u.version}
  BY <1>2, TakeAccountRows
<1>4. \A x : x = Head(queue) /\ x.kind = "account" => Arrived(x)'
  BY <1>2, <1>3, Zenon
<1>5. \A s \in Slots : Pending(s)' <=> IsFinal(Head(queue), s)
  BY <1>1 DEF Pending, IsFinal
<1>6. LogOrder' /\ SessionInv' /\ ChannelInv' /\ PendingInv' /\ CompleteInv'
  BY <1>1, <1>3, <1>4, <1>5, TakeResume, Zenon
<1>7. UNCHANGED block /\ checkpoint.finalized \in Int /\ \A s \in Slots : s \in Int
  BY CheckpointRooted, SlotFacts DEF chainVars, ResumeInv
<1>8. CASE rawAccounts' = rawAccounts /\ staged' = staged
  BY <1>3, <1>6, <1>7, <1>8
     DEF ResumeInv, KeysUnique, NewestInv, PagesReadable, NewestWins, NothingStranded
<1>9. CASE /\ ~Duplicate(u.version) /\ slotRow[u.version.slot].status # "finalized"
           /\ u.version.slot \in Slots
           /\ \E c : rawAccounts' = rawAccounts \cup {[version |-> u.version, commitment |-> c]}
           /\ staged' \subseteq staged \cup {u.version}
  <2>1. NothingStranded'
    <3> SUFFICES ASSUME NEW v \in staged', Rooted(v.slot) PROVE checkpoint.finalized < v.slot
      BY <1>3, <1>7 DEF NothingStranded, Rooted
    <3>1. CASE v \in staged
      BY <3>1 DEF ResumeInv, NothingStranded, Rooted
    <3>2. CASE v = u.version
      BY <1>7, <1>9, <3>2 DEF ResumeInv, CompleteInv
    <3> QED BY <1>9, <3>1, <3>2
  <2>2. KeysUnique'
    <3>1. PICK c : rawAccounts' = rawAccounts \cup {[version |-> u.version, commitment |-> c]}
      BY <1>9
    <3>2. \A r \in rawAccounts' : r \in rawAccounts \/ r.version = u.version
      BY <3>1
    <3>3. \A r \in rawAccounts : ~SameKey(r.version, u.version) /\ ~SameKey(u.version, r.version)
      BY <1>9 DEF Duplicate, SameKey
    <3> QED BY <3>2, <3>3, Zenon DEF ResumeInv, KeysUnique
  <2>3. NewestInv' /\ PagesReadable' /\ NewestWins'
    BY <1>3 DEF ResumeInv, NewestInv, PagesReadable, NewestWins
  <2> QED BY <1>6, <2>1, <2>2, <2>3, Zenon DEF ResumeInv
<1> QED BY <1>3, <1>8, <1>9

\* An event or a slot changes no account's rows when it is taken.
LEMMA TakeOtherResume ==
    ASSUME CoreInv, ResumeInv, TakeEvent \/ TakeSlot, UNCHANGED chainVars
    PROVE  ResumeInv'
<1>1. engine.at = "idle" /\ queue # <<>> /\ queue' = Tail(queue) /\ UNCHANGED session
  BY Zenon DEF TakeEvent, TakeSlot, Take, Waiting
<1>2. UNCHANGED Tables
  BY Zenon DEF TakeEvent, TakeSlot, InsertEvent, RecordGap, storeVars, Tables
<1>3. UNCHANGED slotRow /\ UNCHANGED checkpoint /\ UNCHANGED rawAccounts
  BY <1>2, Zenon DEF Tables
<1>4. Head(queue).kind # "account" /\ \A s \in Slots : Pending(s)' <=> IsFinal(Head(queue), s)
  <2>1. CASE TakeEvent
    <3>1. UNCHANGED engine /\ Head(queue).kind = "event"
      BY <2>1, Zenon DEF TakeEvent, Received
    <3> QED BY <1>1, <3>1 DEF Pending, IsFinal
  <2>2. CASE TakeSlot
    <3>1. engine \in EngineState
      BY EngineFacts DEF CoreInv
    <3>2. Head(queue).kind = "slot"
      BY <2>2, Zenon DEF TakeSlot, Received
    <3>3. PICK l, g, f : engine' = [engine EXCEPT !.at = "upsert", !.update = Head(queue),
                                       !.last = l, !.gap = g, !.fetch = f]
      BY <2>2, Zenon DEF TakeSlot, Received
    <3>4. engine'.at = "upsert" /\ engine'.update = Head(queue)
      BY <3>1, <3>3 DEF EngineState
    <3> QED BY <3>2, <3>4 DEF Pending, IsFinal
  <2> QED BY <2>1, <2>2
<1>5. LogOrder' /\ SessionInv' /\ ChannelInv' /\ PendingInv' /\ CompleteInv'
  <2>1. \A x : x = Head(queue) /\ x.kind = "account" => Arrived(x)'
    BY <1>4
  <2>2. rawAccounts \subseteq rawAccounts'
    BY <1>3
  <2> QED BY <1>1, <1>3, <1>4, <2>1, <2>2, TakeResume, Zenon
<1>6. TablesInv' /\ NothingStranded'
  BY <1>2, TablesUntouched, LogUntouched, Zenon DEF ResumeInv, TablesInv
<1> QED BY <1>5, <1>6, Zenon DEF ResumeInv, TablesInv

(***************************************************************************)
(* The engine writes the row of a slot.                                    *)
(***************************************************************************)

\* Rows go only with a slot that dies.
LEMMA UpsertRowsKept ==
    ASSUME CoreInv, NEW u \in Updates, Upserts(u)
    PROVE  /\ UNCHANGED proj /\ UNCHANGED newest /\ checkpoint'.finalized = checkpoint.finalized
           /\ rawAccounts' \subseteq rawAccounts /\ staged' \subseteq staged
           /\ \A r \in rawAccounts : r.version.slot # u.slot => r \in rawAccounts'
           /\ u.status # "dead" => rawAccounts' = rawAccounts
           /\ u.slot \in Slots /\ SlotStep
           /\ u.status = "dead" => block[u.slot].phase = "dead" /\ slotRow'[u.slot].status = "dead"
           /\ \A t \in Slots : slotRow'[t].status = "finalized" =>
                 slotRow[t].status = "finalized" \/ (t = u.slot /\ u.status = "finalized")
<1>1. UpsertSlot(u) /\ u.kind = "slot" /\ Honest(u)
  BY DEF Upserts
<1>2. u.slot \in Slots /\ IsSlotUpdate(u)
  BY <1>1, UpdateFacts
<1>3. StoreTypeOK /\ CheckpointSound
  BY TypeMeans DEF CoreInv
<1>4. SlotStep
  BY <1>1, <1>2, <1>3, UpsertStep DEF StoreTypeOK, SlotsTypeOK, SlotRows, Checkpoints
<1>5. UNCHANGED proj /\ UNCHANGED newest
  BY <1>1, Zenon DEF UpsertSlot
<1>6. /\ checkpoint'.finalized = checkpoint.finalized
      /\ \A t \in Slots : slotRow'[t].status = "finalized" =>
            slotRow[t].status = "finalized" \/ (t = u.slot /\ u.status = "finalized")
  <2>1. SlotsTypeOK
    BY <1>3 DEF StoreTypeOK, SlotsTypeOK, SlotRows, Checkpoints
  <2>2. SlotChange
    BY <1>3, SlotChanges DEF StoreCall
  <2>3. engine.at = "upsert" /\ u = engine.update
    BY DEF Upserts
  <2>4. \A s \in Slots : ~Finalizes(s)
    BY <2>3 DEF Finalizes
  <2>5. \A w \in Updates : Upserts(w) => w = u
    BY <2>3 DEF Upserts
  <2>6. Updated(u).status = u.status
    BY DEF Updated
  <2>7. \A t \in Slots : slotRow'[t] = slotRow[t] \/ (t = u.slot /\ slotRow'[t] = Updated(u))
    BY <2>2, <2>4, <2>5, Zenon DEF SlotChange
  <2>8. checkpoint'.finalized = checkpoint.finalized
    BY <2>2, <2>4, Zenon DEF SlotChange
  <2> QED BY <2>6, <2>7, <2>8
<1>7. u.status = "dead" => block[u.slot].phase = "dead" /\ slotRow'[u.slot].status = "dead"
  BY <1>1, <1>3, UpsertedStatus DEF Honest
<1>8. \/ rawAccounts' = rawAccounts /\ staged' = staged
      \/ u.status = "dead" /\ CleanupDeadSlot(u.slot)
  BY <1>1 DEF UpsertSlot
<1>9. /\ rawAccounts' \subseteq rawAccounts /\ staged' \subseteq staged
      /\ \A r \in rawAccounts : r.version.slot # u.slot => r \in rawAccounts'
      /\ u.status # "dead" => rawAccounts' = rawAccounts
  BY <1>8 DEF CleanupDeadSlot
<1> QED BY <1>2, <1>4, <1>5, <1>6, <1>7, <1>9

\* Writing the row of a slot.
LEMMA UpsertResume ==
    ASSUME CoreInv, ResumeInv, NEW u \in Updates, Upserts(u), UNCHANGED chainVars,
           UNCHANGED <<session, queue>>, \A s \in Slots : Pending(s)' <=> Pending(s)
    PROVE  ResumeInv'
<1>1. /\ LogOrder /\ SessionInv /\ ChannelInv /\ PendingInv /\ CompleteInv
      /\ NothingStranded /\ TablesInv
  BY ResumeMeans, Zenon
<1>2. UNCHANGED block /\ UNCHANGED log /\ UNCHANGED session /\ UNCHANGED queue
  BY Zenon DEF chainVars
<1>3. /\ UNCHANGED proj /\ UNCHANGED newest /\ checkpoint'.finalized = checkpoint.finalized
      /\ rawAccounts' \subseteq rawAccounts /\ staged' \subseteq staged
      /\ \A r \in rawAccounts : r.version.slot # u.slot => r \in rawAccounts'
      /\ u.status # "dead" => rawAccounts' = rawAccounts
      /\ u.slot \in Slots /\ SlotStep
      /\ u.status = "dead" => block[u.slot].phase = "dead" /\ slotRow'[u.slot].status = "dead"
      /\ \A t \in Slots : slotRow'[t].status = "finalized" =>
            slotRow[t].status = "finalized" \/ (t = u.slot /\ u.status = "finalized")
  BY UpsertRowsKept
<1>4. \A i \in DOMAIN log : log[i].kind = "account" =>
          /\ log[i].slot \in Slots /\ log[i].version.slot = log[i].slot
  <2>1. log \in Seq(Updates) /\ ChainInv
    BY TypeMeans DEF CoreInv, ChainTypeOK
  <2> QED BY <2>1, UpdateFacts DEF ChainInv, Honest
<1>5. ASSUME NEW i \in DOMAIN log, log[i].kind = "account", Arrived(log[i]),
             u.status # "dead" \/ log[i].slot # u.slot
      PROVE  Arrived(log[i])'
  <2>1. PICK r \in rawAccounts : SameKey(r.version, log[i].version)
    BY <1>5 DEF Arrived, Duplicate
  <2>2. r.version.slot = log[i].slot
    BY <1>4, <1>5, <2>1 DEF SameKey
  <2>3. r \in rawAccounts'
    BY <1>3, <1>5, <2>2
  <2> QED BY <1>2, <2>1, <2>3 DEF Arrived, Duplicate, SameKey
<1>6. \A s \in Slots : Rooted(s) => u.status # "dead" \/ s # u.slot
  BY <1>3 DEF Rooted
<1>7. /\ \A k \in DOMAIN queue, s \in Slots : IsFinal(queue[k], s) => Rooted(s)
      /\ \A s \in Slots : Pending(s) => Rooted(s)
      /\ \A s \in Slots : slotRow[s].status = "finalized" => Rooted(s)
  BY FinalRooted DEF CoreInv, SlotTableInv, Known
<1>8. u.status = "finalized" => Pending(u.slot)
  BY DEF Upserts, Pending, IsFinal
<1> HIDE DEF Pending, Arrived, IsFinal, Rooted
<1>9. LogOrder'
  BY <1>1, <1>2 DEF LogOrder, Rooted, IsFinal
<1>10. SessionInv'
  <2>1. /\ checkpoint.finalized > 0
        /\ session.on => session.from <= checkpoint.finalized /\ session.cursor <= Len(log)
    BY <1>1 DEF SessionInv
  <2>2. ASSUME session.on, NEW i \in 1 .. session.cursor,
               log[i].kind = "account", log[i].slot >= session.from
        PROVE  \/ \E k \in DOMAIN queue : queue[k] = log[i]
               \/ Arrived(log[i])'
               \/ slotRow'[log[i].slot].status = "dead"
    <3>1. i \in DOMAIN log
      <4>1. log \in Seq(Updates) /\ session.cursor \in Nat
        BY TypeMeans DEF CoreInv, ChainTypeOK, FeedTypeOK, SessionState
      <4> QED BY <2>1, <2>2, <4>1
    <3>2. CASE Arrived(log[i])
      BY <1>3, <1>5, <2>2, <3>1, <3>2
    <3>3. CASE slotRow[log[i].slot].status = "dead"
      BY <1>3, <1>4, <2>2, <3>1, <3>3 DEF SlotStep
    <3> QED BY <1>1, <2>2, <3>2, <3>3 DEF SessionInv
  <2>3. ASSUME session.on, NEW i \in 1 .. session.cursor, NEW s \in Slots,
               IsFinal(log[i], s), s > checkpoint.finalized
        PROVE  Pending(s)' \/ \E k \in DOMAIN queue : IsFinal(queue[k], s)
    BY <1>1, <2>3 DEF SessionInv
  <2> QED BY <1>2, <1>3, <2>1, <2>2, <2>3 DEF SessionInv, IsFinal
<1>11. ChannelInv'
  <2>1. ASSUME NEW k \in DOMAIN queue, NEW s \in Slots, IsFinal(queue[k], s),
               NEW i \in DOMAIN log, log[i].kind = "account", log[i].slot = s
        PROVE  Arrived(log[i])' \/ \E j \in DOMAIN queue : j < k /\ queue[j] = log[i]
    <3>1. u.status # "dead" \/ log[i].slot # u.slot
      BY <1>6, <1>7, <2>1
    <3> QED BY <1>1, <1>5, <2>1, <3>1 DEF ChannelInv
  <2>2. ASSUME NEW k \in DOMAIN queue, NEW s \in Slots, IsFinal(queue[k], s),
               NEW r \in Slots, Rooted(r), checkpoint.finalized < r, r < s
        PROVE  Pending(r)' \/ \E j \in DOMAIN queue : j < k /\ IsFinal(queue[j], r)
    BY <1>1, <2>2 DEF ChannelInv
  <2> QED BY <1>2, <1>3, <2>1, <2>2 DEF ChannelInv, IsFinal, Rooted
<1>12. PendingInv'
  <2>1. ASSUME NEW s \in Slots, Pending(s), NEW i \in DOMAIN log,
               log[i].kind = "account", log[i].slot = s
        PROVE  Arrived(log[i])'
    <3>1. u.status # "dead" \/ log[i].slot # u.slot
      BY <1>6, <1>7, <2>1
    <3> QED BY <1>1, <1>5, <2>1, <3>1 DEF PendingInv
  <2>2. \A s \in Slots : Pending(s) => \A r \in Slots : Rooted(r)' /\ r < s => r <= checkpoint.finalized
    BY <1>1, <1>2 DEF PendingInv, Rooted
  <2> QED BY <1>2, <1>3, <2>1, <2>2 DEF PendingInv
<1>13. CompleteInv'
  <2>1. ASSUME NEW i \in DOMAIN log, log[i].kind = "account",
               slotRow'[log[i].slot].status = "finalized"
        PROVE  Arrived(log[i])'
    <3>1. CASE slotRow[log[i].slot].status = "finalized"
      <4>1. u.status # "dead" \/ log[i].slot # u.slot
        BY <1>4, <1>6, <1>7, <2>1, <3>1
      <4> QED BY <1>1, <1>5, <2>1, <3>1, <4>1 DEF CompleteInv
    <3>2. CASE log[i].slot = u.slot /\ u.status = "finalized"
      <4>1. Arrived(log[i])
        BY <1>1, <1>3, <1>8, <2>1, <3>2 DEF PendingInv
      <4> QED BY <1>5, <2>1, <3>2, <4>1
    <3> QED BY <1>3, <1>4, <2>1, <3>1, <3>2
  <2>2. \A s \in Slots : Rooted(s)' /\ s <= checkpoint.finalized => slotRow'[s].status = "finalized"
    BY <1>1, <1>2, <1>3 DEF CompleteInv, Rooted, SlotStep
  <2> QED BY <1>2, <1>3, <2>1, <2>2 DEF CompleteInv
<1>14. NothingStranded'
  BY <1>1, <1>2, <1>3 DEF NothingStranded
<1>15. TablesInv'
  BY <1>1, <1>3 DEF TablesInv, KeysUnique, NewestInv, PagesReadable, NewestWins
<1> QED BY <1>9, <1>10, <1>11, <1>12, <1>13, <1>14, <1>15, Zenon DEF ResumeInv, TablesInv

(***************************************************************************)
(* The engine finalizes a slot.                                            *)
(***************************************************************************)
LEMMA FinalizeRowsKept ==
    ASSUME CoreInv, NEW s \in Slots, Finalizes(s)
    PROVE  /\ \A r \in rawAccounts : \E q \in rawAccounts' : q.version = r.version
           /\ \A q \in rawAccounts' : \E r \in rawAccounts : q.version = r.version
           /\ staged' = {v \in staged : v.slot # s}
           /\ checkpoint'.finalized \in {checkpoint.finalized, s}
           /\ checkpoint.finalized <= checkpoint'.finalized /\ s <= checkpoint'.finalized
           /\ slotRow'[s].status = "finalized"
           /\ \A t \in Slots : t # s => slotRow'[t] = slotRow[t]
<1>1. FinalizeSlot(s) /\ engine.at = "finalize"
  BY DEF Finalizes
<1>2. StoreTypeOK /\ StoreCall
  BY TypeMeans DEF CoreInv, StoreCall
<1>3. rawAccounts' = {IF r.version.slot = s THEN [r EXCEPT !.commitment = "finalized"] ELSE r :
                          r \in rawAccounts}
  BY <1>1, Zenon DEF FinalizeSlot
<1>4. \A r \in rawAccounts :
          (IF r.version.slot = s THEN [r EXCEPT !.commitment = "finalized"] ELSE r).version = r.version
  <2>1. \A r \in rawAccounts : r \in Stored
    BY <1>2 DEF StoreTypeOK
  <2> QED BY <2>1 DEF Stored
<1>5. /\ \A r \in rawAccounts : \E q \in rawAccounts' : q.version = r.version
      /\ \A q \in rawAccounts' : \E r \in rawAccounts : q.version = r.version
  BY <1>3, <1>4, Zenon
<1>6. staged' = {v \in staged : v.slot # s}
  BY <1>1, Zenon DEF FinalizeSlot
<1>7. /\ checkpoint'.finalized \in {checkpoint.finalized, s}
      /\ checkpoint.finalized <= checkpoint'.finalized /\ s <= checkpoint'.finalized
  <2>1. checkpoint' = [finalized |-> Greatest(checkpoint.finalized, s),
                       processed |-> Greatest(checkpoint.processed, s)]
    BY <1>1, Zenon DEF FinalizeSlot
  <2>2. checkpoint.finalized \in 0 .. MaxSlot /\ s \in 0 .. MaxSlot
    BY CheckpointFacts, SlotFacts DEF CoreInv
  <2> QED BY <2>1, <2>2, GreatestFacts
<1>8. /\ slotRow'[s].status = "finalized"
      /\ \A t \in Slots : t # s => slotRow'[t] = slotRow[t]
  <2>1. slotRow' = [slotRow EXCEPT ![s].status = "finalized"]
    BY <1>1, Zenon DEF FinalizeSlot
  <2> QED BY <1>2, <2>1 DEF StoreTypeOK
<1> QED BY <1>5, <1>6, <1>7, <1>8

\* The versions that a finalization applies to an address, if there are any,
\* are newer than all that was applied before, and the last one by its write is
\* the newest.
LEMMA FinalizeNewest ==
    ASSUME CoreInv, ResumeInv, NEW s \in Slots, Finalizes(s), NEW a \in Addrs
    PROVE  /\ \/ proj'[a] = proj[a] /\ newest'[a] = newest[a]
              \/ /\ newest'[a] \in Versions /\ newest'[a].slot = s
                 /\ proj'[a] = IF newest'[a].op = "delete" THEN NoRow ELSE newest'[a]
<1> DEFINE rows == {v \in staged : v.slot = s /\ v.addr = a}
           L == LastStaged(s, a)
           N == NewestOf(s, a)
<1>1. FinalizeSlot(s) /\ Rooted(s)
  <2>1. Pending(s)
    BY DEF Finalizes, Pending
  <2> QED BY <2>1, FinalRooted DEF Finalizes
<1>2. StoreTypeOK /\ RowsTypeOK /\ StagedIsPending
  BY TypeMeans DEF CoreInv, RowsInv
<1>3. /\ proj' = [b \in Addrs |-> IF LastStaged(s, b) = NoRow THEN proj[b]
                                  ELSE Applied(LastStaged(s, b), proj[b])]
      /\ newest' = [b \in Addrs |-> NewestOf(s, b)]
  BY <1>1, Zenon DEF FinalizeSlot
<1>4. /\ proj'[a] = IF L = NoRow THEN proj[a] ELSE Applied(L, proj[a])
      /\ newest'[a] = N
  BY <1>3
<1>5. /\ N \in rows \cup {newest[a]}
      /\ \A w \in (rows \cup {newest[a]}) \ {NoRow} : N # NoRow /\ LaterOf(N, w) = N
  BY <1>2, NewestOfFacts
<1>6. CASE rows = {}
  <2>1. L = NoRow
    BY <1>6 DEF LastStaged
  <2>2. N = newest[a]
    BY <1>5, <1>6
  <2> QED BY <1>4, <2>1, <2>2
<1>7. CASE rows # {}
  <2>1. \A v \in rows : /\ v \in staged /\ v \in Versions /\ v.slot = s /\ v.addr = a
                        /\ v # NoRow /\ v.write \in 1 .. MaxVersion
    BY <1>2, VersionFacts DEF RowsTypeOK
  <2>2. PICK v0 \in rows : TRUE
    BY <1>7
  <2>3. checkpoint.finalized < s
    BY <1>1, <2>1, <2>2 DEF ResumeInv, NothingStranded, Rooted
  <2>4. newest[a] # NoRow => newest[a] \in Versions /\ newest[a].slot < s
    <3>1. newest[a] \in Versions \cup {NoRow}
      BY <1>2 DEF StoreTypeOK
    <3>2. newest[a] # NoRow => newest[a].slot <= checkpoint.finalized
      BY DEF ResumeInv, NewestInv
    <3>3. newest[a] # NoRow => newest[a] \in Versions /\ newest[a].slot \in Slots
      BY <3>1, VersionFacts
    <3> QED BY <2>3, <3>2, <3>3, CheckpointFacts, SlotFacts DEF CoreInv
  <2> HIDE DEF rows, N, L
  <2>5. N # NoRow /\ LaterOf(N, v0) = N
    BY <1>5, <2>1, <2>2
  <2>6. N \in rows
    <3> SUFFICES ASSUME N = newest[a] PROVE FALSE
      BY <1>5
    <3>1. N.slot < s /\ N.slot \in Int /\ s \in Int
      BY <2>4, <2>5, VersionFacts, SlotFacts
    <3>2. LaterOf(N, v0) = v0
      BY <2>1, <2>2, <3>1 DEF LaterOf
    <3> QED BY <2>1, <2>2, <2>5, <3>1, <3>2
  <2>7. \A w \in rows : N.write >= w.write
    <3> SUFFICES ASSUME NEW w \in rows, ~(N.write >= w.write) PROVE FALSE
      OBVIOUS
    <3>1. LaterOf(N, w) = N
      BY <1>5, <2>1
    <3>2. N.slot = s /\ w.slot = s /\ w # NoRow /\ s \in Int
      BY <2>1, <2>6, SlotFacts
    <3>3. LaterOf(N, w) = w
      BY <3>2 DEF LaterOf
    <3> QED BY <2>1, <2>6, <3>1, <3>3
  <2>8. L \in rows /\ \A w \in rows : L.write >= w.write
    <3>1. L = CHOOSE v \in rows : \A w \in rows : v.write >= w.write
      BY <1>7, Zenon DEF L, LastStaged, rows
    <3>2. \E v \in rows : \A w \in rows : v.write >= w.write
      BY <2>6, <2>7
    <3> QED BY <3>1, <3>2, Zenon
  <2>9. L = N
    <3>1. L.write = N.write
      BY <2>1, <2>6, <2>7, <2>8
    <3>2. SameKey(L, N)
      BY <2>1, <2>6, <2>8, <3>1 DEF SameKey
    <3>3. PICK r \in rawAccounts, q \in rawAccounts : r.version = L /\ q.version = N
      BY <1>2, <2>1, <2>6, <2>8, Zenon DEF StagedIsPending
    <3> QED BY <3>2, <3>3 DEF ResumeInv, KeysUnique
  <2>10. Applies(N, proj[a])
    <3>1. proj[a] \in {NoRow, newest[a]}
      BY DEF ResumeInv, NewestWins
    <3>2. N.slot = s /\ s \in Int
      BY <2>1, <2>6, SlotFacts
    <3>3. CASE proj[a] = NoRow
      BY <3>3 DEF Applies
    <3>4. CASE proj[a] # NoRow
      <4>1. proj[a].slot < s /\ proj[a].slot \in Int
        BY <2>4, <3>1, <3>4, VersionFacts, SlotFacts
      <4> QED BY <3>2, <4>1 DEF Applies
    <3> QED BY <3>3, <3>4
  <2>11. proj'[a] = IF N.op = "delete" THEN NoRow ELSE N
    BY <1>4, <2>5, <2>9, <2>10 DEF Applied
  <2> QED BY <1>4, <2>1, <2>6, <2>11
<1> QED BY <1>6, <1>7

\* The rows that a finalization projects are newer than those they replace.
LEMMA FinalizeTables ==
    ASSUME CoreInv, ResumeInv, NEW s \in Slots, Finalizes(s)
    PROVE  TablesInv'
<1>1. /\ \A q \in rawAccounts' : \E r \in rawAccounts : q.version = r.version
      /\ checkpoint.finalized <= checkpoint'.finalized /\ s <= checkpoint'.finalized
      /\ checkpoint'.finalized \in {checkpoint.finalized, s}
  BY FinalizeRowsKept
<1>2. KeysUnique'
  BY <1>1, Zenon DEF ResumeInv, KeysUnique
<1>3. checkpoint.finalized \in Int /\ checkpoint'.finalized \in Int /\ s \in Int
  BY <1>1, CheckpointFacts, SlotFacts DEF CoreInv
<1>4. ASSUME NEW a \in Addrs
      PROVE  /\ newest'[a] # NoRow => newest'[a].slot <= checkpoint'.finalized
             /\ proj'[a] = IF newest'[a] = NoRow \/ newest'[a].op = "delete"
                           THEN NoRow ELSE newest'[a]
  <2>1. CASE proj'[a] = proj[a] /\ newest'[a] = newest[a]
    <3>1. newest[a] # NoRow => newest[a].slot \in Int
      <4>1. newest[a] \in Versions \cup {NoRow}
        BY TypeMeans DEF CoreInv, StoreTypeOK
      <4> QED BY <4>1, VersionFacts, SlotFacts
    <3> QED BY <1>1, <1>3, <2>1, <3>1 DEF ResumeInv, NewestInv, NewestWins
  <2>2. CASE /\ newest'[a] \in Versions /\ newest'[a].slot = s
             /\ proj'[a] = IF newest'[a].op = "delete" THEN NoRow ELSE newest'[a]
    BY <1>1, <2>2, VersionFacts
  <2> QED BY <2>1, <2>2, FinalizeNewest
<1>5. NewestInv' /\ NewestWins'
  BY <1>4 DEF NewestInv, NewestWins
<1>6. PagesReadable'
  BY <1>4 DEF PagesReadable
<1> QED BY <1>2, <1>5, <1>6 DEF TablesInv

\* A finalization leaves nothing of its slot in staging.
LEMMA FinalizeResume ==
    ASSUME CoreInv, ResumeInv, NEW s \in Slots, Finalizes(s), UNCHANGED chainVars,
           UNCHANGED <<session, queue>>, \A t \in Slots : ~Pending(t)'
    PROVE  ResumeInv'
<1>1. /\ LogOrder /\ SessionInv /\ ChannelInv /\ PendingInv /\ CompleteInv
      /\ NothingStranded /\ TablesInv
  BY ResumeMeans, Zenon
<1>2. UNCHANGED block /\ UNCHANGED log /\ UNCHANGED session /\ UNCHANGED queue
  BY Zenon DEF chainVars
<1>3. /\ \A r \in rawAccounts : \E q \in rawAccounts' : q.version = r.version
      /\ staged' = {v \in staged : v.slot # s}
      /\ checkpoint'.finalized \in {checkpoint.finalized, s}
      /\ checkpoint.finalized <= checkpoint'.finalized /\ s <= checkpoint'.finalized
      /\ slotRow'[s].status = "finalized"
      /\ \A t \in Slots : t # s => slotRow'[t] = slotRow[t]
  BY FinalizeRowsKept
<1>4. \A i \in DOMAIN log : Arrived(log[i]) => Arrived(log[i])'
  <2>1. \A x : Arrived(x) => Arrived(x)'
    BY <1>3, Zenon DEF Arrived, Duplicate
  <2> QED BY <1>2, <2>1 DEF Arrived, Duplicate
<1>5. /\ Pending(s) /\ Rooted(s) /\ slotRow[s].status # "dead"
      /\ \A t \in Slots : Pending(t) => t = s
  BY FinalRooted DEF Finalizes, Pending, IsFinal, FinalizeSlot, FinalizeAccepted
<1>6. /\ checkpoint.finalized \in Int /\ checkpoint'.finalized \in Int
      /\ \A t \in Slots : t \in Int
  BY <1>3, CheckpointFacts, SlotFacts DEF CoreInv
<1>7. \A i \in DOMAIN log : log[i].kind = "account" => log[i].slot \in Slots
  <2>1. log \in Seq(Updates)
    BY TypeMeans DEF CoreInv, ChainTypeOK
  <2> QED BY <2>1, UpdateFacts
<1> HIDE DEF Pending, Arrived, IsFinal, Rooted
<1>8. LogOrder'
  BY <1>1, <1>2 DEF LogOrder, Rooted, IsFinal
<1>9. SessionInv'
  <2>1. /\ checkpoint.finalized > 0
        /\ session.on => /\ session.from <= checkpoint.finalized /\ session.cursor <= Len(log)
                         /\ session.from \in Int
    BY <1>1, TypeMeans, StoreAssumption DEF SessionInv, CoreInv, FeedTypeOK, SessionState
  <2>2. ASSUME session.on, NEW i \in 1 .. session.cursor,
               log[i].kind = "account", log[i].slot >= session.from
        PROVE  \/ \E k \in DOMAIN queue : queue[k] = log[i]
               \/ Arrived(log[i])'
               \/ slotRow'[log[i].slot].status = "dead"
    <3>1. i \in DOMAIN log
      <4>1. log \in Seq(Updates) /\ session.cursor \in Nat
        BY TypeMeans DEF CoreInv, ChainTypeOK, FeedTypeOK, SessionState
      <4> QED BY <2>1, <2>2, <4>1
    <3>2. CASE Arrived(log[i])
      BY <1>4, <3>1, <3>2
    <3>3. CASE slotRow[log[i].slot].status = "dead"
      BY <1>3, <1>5, <1>7, <2>2, <3>1, <3>3
    <3> QED BY <1>1, <2>2, <3>2, <3>3 DEF SessionInv
  <2>3. ASSUME session.on, NEW i \in 1 .. session.cursor, NEW t \in Slots,
               IsFinal(log[i], t), t > checkpoint'.finalized
        PROVE  \E k \in DOMAIN queue : IsFinal(queue[k], t)
    <3>1. t > checkpoint.finalized /\ t # s
      BY <1>3, <1>6, <2>3
    <3> QED BY <1>1, <1>5, <2>3, <3>1 DEF SessionInv
  <2>4. checkpoint'.finalized > 0 /\ (session.on => session.from <= checkpoint'.finalized)
    BY <1>3, <1>6, <2>1
  <2> QED BY <1>2, <2>1, <2>2, <2>3, <2>4 DEF SessionInv, IsFinal
<1>10. ChannelInv'
  <2>1. ASSUME NEW k \in DOMAIN queue, NEW t \in Slots, IsFinal(queue[k], t),
               NEW i \in DOMAIN log, log[i].kind = "account", log[i].slot = t
        PROVE  Arrived(log[i])' \/ \E j \in DOMAIN queue : j < k /\ queue[j] = log[i]
    BY <1>1, <1>4, <2>1 DEF ChannelInv
  <2>2. ASSUME NEW k \in DOMAIN queue, NEW t \in Slots, IsFinal(queue[k], t),
               NEW r \in Slots, Rooted(r), checkpoint'.finalized < r, r < t
        PROVE  \E j \in DOMAIN queue : j < k /\ IsFinal(queue[j], r)
    <3>1. checkpoint.finalized < r /\ r # s
      BY <1>3, <1>6, <2>2
    <3> QED BY <1>1, <1>5, <2>2, <3>1 DEF ChannelInv
  <2> QED BY <1>2, <2>1, <2>2 DEF ChannelInv, IsFinal, Rooted
<1>11. PendingInv'
  BY DEF PendingInv
<1>12. CompleteInv'
  <2>1. ASSUME NEW i \in DOMAIN log, log[i].kind = "account",
               slotRow'[log[i].slot].status = "finalized"
        PROVE  Arrived(log[i])'
    <3>1. CASE log[i].slot = s
      BY <1>1, <1>4, <1>5, <2>1, <3>1 DEF PendingInv
    <3>2. CASE log[i].slot # s
      BY <1>1, <1>3, <1>4, <1>7, <2>1, <3>2 DEF CompleteInv
    <3> QED BY <3>1, <3>2
  <2>2. ASSUME NEW t \in Slots, Rooted(t), t <= checkpoint'.finalized
        PROVE  slotRow'[t].status = "finalized"
    <3>1. t = s \/ t <= checkpoint.finalized
      BY <1>1, <1>3, <1>5, <1>6, <2>2 DEF PendingInv
    <3> QED BY <1>1, <1>3, <2>2, <3>1 DEF CompleteInv
  <2> QED BY <1>2, <2>1, <2>2 DEF CompleteInv, Rooted
<1>13. NothingStranded'
  <2> SUFFICES ASSUME NEW v \in staged', Rooted(v.slot) PROVE checkpoint'.finalized < v.slot
    BY <1>2 DEF NothingStranded, Rooted
  <2>1. v \in staged /\ v.slot # s /\ v.slot \in Slots
    BY <1>3, VersionFacts DEF CoreInv, RowsInv, RowsTypeOK
  <2>2. checkpoint.finalized < v.slot
    BY <1>1, <2>1 DEF NothingStranded, Rooted
  <2>3. ~(v.slot < s)
    BY <1>1, <1>5, <1>6, <2>1, <2>2 DEF PendingInv
  <2> QED BY <1>3, <1>6, <2>1, <2>2, <2>3
<1> QED BY <1>8, <1>9, <1>10, <1>11, <1>12, <1>13, FinalizeTables, Zenon DEF ResumeInv, TablesInv

\* The invariant through a step of the engine.
LEMMA EngineResume ==
    ASSUME CoreInv, ResumeInv, EngineStep
    PROVE  ResumeInv'
<1>1. UNCHANGED chainVars
  BY Zenon DEF EngineStep
<1>2. /\ TypeOK /\ ChainInv /\ UpdateInv /\ RepairInv /\ engine \in EngineState
  BY EngineFacts DEF CoreInv
<1>0. CASE Fail
  <2>1. UNCHANGED Tables /\ ~Running'
    BY <1>0, FailStops, Zenon DEF storeVars, Tables
  <2>2. queue' = <<>> /\ ~session'.on
    BY <1>0 DEF Fail, Stop
  <2> QED BY <1>1, <2>1, <2>2, ResumeStopped
<1>3. CASE TakeAccount /\ ~Fail
  BY <1>1, <1>3, TakeAccountResume
<1>4. CASE TakeEvent \/ TakeSlot
  BY <1>1, <1>4, TakeOtherResume
<1>5. CASE Upsert
  <2>1. engine.at = "upsert"
    BY <1>5 DEF Upsert
  <2>2. PICK u \in Updates : u = engine.update /\ u.kind = "slot" /\ Honest(u)
    BY <1>2, <2>1 DEF UpdateInv
  <2>4. CASE /\ UpsertSlot(engine.update)
             /\ engine' = IF engine.update.status = "finalized"
                          THEN [engine EXCEPT !.at = "finalize"] ELSE AfterSlot
             /\ UNCHANGED <<session, queue, base>>
    <3>1. Upserts(u)
      BY <2>1, <2>2, <2>4 DEF Upserts
    <3>2. CASE u.status = "finalized"
      <4>1. engine'.at = "finalize" /\ engine'.update = u
        BY <1>2, <2>2, <2>4, <3>2 DEF EngineState
      <4>2. \A s \in Slots : Pending(s)' <=> Pending(s)
        BY <2>1, <2>2, <4>1 DEF Pending, IsFinal
      <4> QED BY <1>1, <2>4, <3>1, <4>2, UpsertResume
    <3>3. CASE u.status # "finalized"
      <4>1. engine'.at \in {"idle", "repair"}
        BY <1>2, <2>2, <2>4, <3>3 DEF EngineState, AfterSlot
      <4>2. \A s \in Slots : Pending(s)' <=> Pending(s)
        BY <2>1, <2>2, <3>3, <4>1 DEF Pending, IsFinal
      <4> QED BY <1>1, <2>4, <3>1, <4>2, UpsertResume
    <3> QED BY <3>2, <3>3
  <2> QED BY <1>0, <1>5, <2>4, Zenon DEF Upsert
<1>6. CASE Finalize /\ ~Fail
  <2>1. engine.at = "finalize" /\ UNCHANGED <<session, queue>> /\ engine' = AfterSlot
    BY <1>6, Zenon DEF Finalize
  <2>2. PICK s \in Slots : s = engine.update.slot
    BY <1>2, <2>1, UpdateFacts DEF UpdateInv
  <2>3. Finalizes(s)
    <3>1. FinalizeSlot(engine.update.slot)
      BY <1>6, Zenon DEF Finalize
    <3> QED BY <1>2, <2>1, <2>2, <3>1 DEF Finalizes, IsFinal, UpdateInv
  <2>4. \A t \in Slots : ~Pending(t)'
    BY <1>2, <2>1 DEF AfterSlot, EngineState, Pending
  <2> QED BY <1>1, <2>1, <2>3, <2>4, FinalizeResume
<1>7. CASE EndRepair \/ FetchSlot \/ RepairEvent \/ RepairSlot
  <2>1. Gap(Fetched) = NoGap \/ ~RepairSlot
    BY <1>1, <1>2, RepairSlotInv, Zenon
  <2>2. UNCHANGED Tables
    BY <1>7, <2>1, Zenon DEF EndRepair, RepairTooLong, FetchFails, ReconcileAccounts, MarkGap,
       FetchSlot, RepairEvent, InsertEvent, RepairSlot, storeVars, Tables
  <2>3. UNCHANGED <<session, queue>>
    BY <1>7, <2>1, Zenon DEF EndRepair, FetchSlot, RepairEvent, RepairSlot
  <2>4. engine.at = "repair"
    BY <1>7 DEF EndRepair, RepairTooLong, FetchFails, ReconcileAccounts, Fetching,
       FetchSlot, RepairEvent, RepairSlot, Ingests
  <2>5. \A s \in Slots : ~Pending(s)'
    <3>1. CASE EndRepair
      BY <1>2, <3>1 DEF EndRepair, EngineState, Pending
    <3>2. CASE FetchSlot
      BY <1>2, <2>4, <3>2 DEF FetchSlot, EngineState, Pending
    <3>3. CASE RepairEvent
      <4>1. PICK d : engine' = [engine EXCEPT !.todo = d]
        BY <3>3, Zenon DEF RepairEvent
      <4> QED BY <1>2, <2>4, <4>1 DEF EngineState, Pending
    <3>4. CASE RepairSlot
      <4>1. PICK f, p, d : engine' = [engine EXCEPT !.at = "upsert", !.todo = d,
                                        !.update = SlotUpdate(f, p, "confirmed")]
        BY <2>1, <3>4, Zenon DEF RepairSlot
      <4>2. engine'.update.status = "confirmed"
        BY <1>2, <4>1 DEF EngineState, SlotUpdate
      <4> QED BY <4>2 DEF Pending, IsFinal
    <3> QED BY <1>7, <3>1, <3>2, <3>3, <3>4
  <2>6. \A s \in Slots : Pending(s)' <=> Pending(s)
    BY <2>4, <2>5 DEF Pending
  <2> QED BY <1>1, <2>2, <2>3, <2>6, ResumeQuiet
<1> QED BY <1>0, <1>3, <1>4, <1>5, <1>6, <1>7, Zenon DEF EngineStep

\* The invariant is inductive, given the core invariant.
LEMMA ResumeInvariant ==
    ASSUME StartSlot > 0, CoreInv, ResumeInv, [Next]_vars
    PROVE  ResumeInv'
<1>1. CASE UNCHANGED vars
  <2>1. UNCHANGED chainVars /\ UNCHANGED Tables /\ UNCHANGED <<session, queue>> /\ UNCHANGED engine
    BY <1>1, Zenon DEF vars, storeVars, Tables
  <2>2. \A s \in Slots : Pending(s)' <=> Pending(s)
    BY <2>1 DEF Pending, IsFinal
  <2> QED BY <2>1, <2>2, ResumeQuiet
<1> QED BY <1>1, ClusterResume, ProcessResume, EngineResume, Zenon DEF Next

\* It holds at the start, from a checkpoint on.
LEMMA ResumeInitially ==
    ASSUME StartSlot > 0, Init
    PROVE  ResumeInv
<1>1. StartSlot \in Nat /\ \A s \in Slots : s \in Int /\ s >= 1
  BY StoreAssumption, IndexerAssumption DEF Slots
<1>2. /\ DOMAIN log = 1 .. StartSlot
      /\ \A i \in DOMAIN log : log[i].kind = "slot" /\ log[i].slot = i /\ log[i].status = "finalized"
  BY <1>1 DEF Init, SlotUpdate
<1>3. /\ \A s \in Slots : Rooted(s) <=> s <= StartSlot
      /\ \A s \in Slots : slotRow[s].status = IF s <= StartSlot THEN "finalized" ELSE "none"
      /\ checkpoint.finalized = StartSlot
  BY DEF Init, Rooted
<1>4. queue = <<>> /\ rawAccounts = {} /\ staged = {} /\ ~session.on /\ engine.at = "down"
  BY DEF Init, Down
<1>5. \A a \in Addrs : proj[a] = NoRow /\ newest[a] = NoRow
  BY DEF Init
<1>6. LogOrder
  <2>1. \A s \in Slots : Rooted(s) => s \in DOMAIN log /\ IsFinal(log[s], s)
    BY <1>1, <1>2, <1>3 DEF IsFinal
  <2>2. ASSUME NEW i \in DOMAIN log, NEW r \in Slots, NEW s \in Slots,
               IsFinal(log[i], s), Rooted(r), r < s
        PROVE  \E j \in DOMAIN log : j < i /\ IsFinal(log[j], r)
    <3>1. i = s
      BY <1>2, <2>2 DEF IsFinal
    <3> QED BY <2>1, <2>2, <3>1
  <2> QED BY <1>2, <2>1, <2>2 DEF LogOrder
<1>7. SessionInv /\ ChannelInv /\ PendingInv
  BY <1>3, <1>4 DEF SessionInv, ChannelInv, PendingInv, Pending
<1>8. CompleteInv
  BY <1>2, <1>3 DEF CompleteInv
<1> QED BY <1>4, <1>5, <1>6, <1>7, <1>8
    DEF ResumeInv, KeysUnique, NewestInv, PagesReadable, NothingStranded, NewestWins

\* It always holds, from a checkpoint on.
LEMMA ResumeCorrect ==
    ASSUME StartSlot > 0
    PROVE  Spec => []ResumeInv
<1>1. Init => CoreInv /\ ResumeInv
  BY CoreInitially, ResumeInitially
<1>2. CoreInv /\ ResumeInv /\ [Next]_vars => (CoreInv /\ ResumeInv)'
  BY CoreInvariant, ResumeInvariant
<1> QED BY <1>1, <1>2, PTL DEF Spec

(***************************************************************************)
(* The theorems of an indexer that has a checkpoint to resume from.  Until *)
(* the first one is written, a session that ends loses what was sent and   *)
(* not yet taken: see the README.                                          *)
(***************************************************************************)

\* Once the checkpoint has passed a finalized slot, no version of it is left
\* in staging, wherever the process or its sessions stopped.
THEOREM NothingStrandedCorrect ==
    ASSUME StartSlot > 0
    PROVE  Spec => []NothingStranded
<1>1. ResumeInv => NothingStranded
  BY DEF ResumeInv
<1> QED BY <1>1, ResumeCorrect, PTL

\* The public row of an address is the newest version ever applied to it,
\* although rows are compared by slot alone and a slot can be replayed.
THEOREM NewestWinsCorrect ==
    ASSUME StartSlot > 0
    PROVE  Spec => []NewestWins
<1>1. ResumeInv => NewestWins
  BY DEF ResumeInv
<1> QED BY <1>1, ResumeCorrect, PTL

\* No public row is newer than the finalized checkpoint.
THEOREM PagesReadableCorrect ==
    ASSUME StartSlot > 0
    PROVE  Spec => []PagesReadable
<1>1. ResumeInv => PagesReadable
  BY DEF ResumeInv
<1> QED BY <1>1, ResumeCorrect, PTL

(***************************************************************************)
(* Part three: what the tables hold is what the chain holds.  A version    *)
(* reaches the log when its write executes, the tables only from the log,  *)
(* and the last one applied is the last one of the finalized chain up to   *)
(* the checkpoint.                                                         *)
(***************************************************************************)
Logged(v) == \E i \in DOMAIN log : log[i].kind = "account" /\ log[i].version = v

SentInv ==
    /\ \A v : Logged(v) => OnChain(v) /\ v.op # "delete"
    /\ \A v \in Versions :
          OnChain(v) /\ v.op # "delete" /\ v.write <= block[v.slot].sent => Logged(v)
    /\ \A s \in Slots : Frozen(s) => block[s].sent = Len(block[s].content)

IngestedInv ==
    \A r \in rawAccounts :
        /\ Logged(r.version)
        /\ r.commitment = "finalized" => r.version.slot <= checkpoint.finalized

\* The writes that count for an address, one at a time.
Counts(v, a) ==
    /\ v \in Versions /\ v.addr = a /\ v.op \in {"write", "undated"} /\ OnChain(v)
    /\ Rooted(v.slot) /\ v.slot <= checkpoint.finalized

FinalInv ==
    \A a \in Addrs :
        /\ newest[a] # NoRow => Counts(newest[a], a)
        /\ \A w : Counts(w, a) => /\ newest[a] # NoRow /\ LaterOf(newest[a], w) = newest[a]
                                  /\ w.op = "write"

ContentInv == SentInv /\ IngestedInv /\ FinalInv

\* The write of a block and the version it is sent as.
LEMMA ItemWritten ==
    ASSUME ChainTypeOK, NEW s \in Slots, NEW i \in DOMAIN block[s].content
    PROVE  /\ ItemUpdate(s, i).kind = "account" =>
                 /\ OnChain(ItemUpdate(s, i).version)
                 /\ Subscribed(block[s].content[i]) => ItemUpdate(s, i).version.op # "delete"
           /\ \A v \in Versions : OnChain(v) /\ v.slot = s /\ v.write = i /\ v.op # "delete" =>
                 Subscribed(block[s].content[i])
           /\ \A v \in Versions : OnChain(v) /\ v.slot = s /\ v.write = i =>
                 ItemUpdate(s, i).kind = "account" /\ ItemUpdate(s, i).version = v
<1> DEFINE item == block[s].content[i]
<1>1. item \in Writes \cup Events
  <2>1. block[s].content \in Contents \cup {<<>>}
    BY DEF ChainTypeOK, Block
  <2> QED BY <2>1, ContentFacts
<1>2. CASE item \in Writes
  <2>1. item.kind = "account" /\ item = [kind |-> "account", addr |-> item.addr, op |-> item.op]
    BY <1>2 DEF Writes
  <2> DEFINE x == [addr |-> item.addr, slot |-> s, write |-> i, op |-> item.op]
  <2>2. ItemUpdate(s, i) = [kind |-> "account", slot |-> s, version |-> x]
    BY <2>1 DEF ItemUpdate
  <2>3. /\ ItemUpdate(s, i).kind = "account" /\ ItemUpdate(s, i).version = x
        /\ x.addr = item.addr /\ x.slot = s /\ x.write = i /\ x.op = item.op
    BY <2>2
  <2>4. OnChain(x)
    BY <2>1 DEF OnChain
  <2>5. ASSUME NEW v \in Versions, OnChain(v), v.slot = s, v.write = i PROVE v = x
    <3>1. item = [kind |-> "account", addr |-> v.addr, op |-> v.op]
      BY <2>5 DEF OnChain
    <3>2. v.addr = item.addr /\ v.op = item.op
      BY <3>1
    <3> HIDE DEF item
    <3> QED BY <2>5, <3>2 DEF Versions
  <2>6. Subscribed(item) <=> x.op # "delete"
    BY <2>1, <2>3 DEF Subscribed
  <2> HIDE DEF x
  <2> QED BY <2>3, <2>4, <2>5, <2>6
<1>3. CASE item \in Events
  <2>1. item.kind = "event"
    BY <1>3 DEF Events
  <2>2. ItemUpdate(s, i).kind = "event"
    BY <2>1 DEF ItemUpdate
  <2>3. \A v : v.slot = s /\ v.write = i => ~OnChain(v)
    BY <2>1 DEF OnChain
  <2> QED BY <2>2, <2>3
<1> QED BY <1>1, <1>2, <1>3

\* Two versions of one write are one version.
LEMMA OnChainUnique ==
    ASSUME NEW v \in Versions, NEW w \in Versions, OnChain(v), OnChain(w),
           v.slot = w.slot, v.write = w.write
    PROVE  v = w
<1>1. [kind |-> "account", addr |-> v.addr, op |-> v.op]
         = [kind |-> "account", addr |-> w.addr, op |-> w.op]
  BY DEF OnChain
<1>2. v.addr = w.addr /\ v.op = w.op
  BY <1>1
<1> QED BY <1>2 DEF Versions

\* What was sent stays sent, and stays on the chain.
LEMMA LoggedFacts ==
    ASSUME CoreInv, NEW v, Logged(v)
    PROVE  v \in Versions /\ v.slot \in Slots /\ block[v.slot].phase # "none"
<1>1. PICK i \in DOMAIN log : log[i].kind = "account" /\ log[i].version = v
  BY DEF Logged
<1>2. log[i] \in Updates /\ Honest(log[i])
  BY <1>1, TypeMeans DEF CoreInv, ChainTypeOK, ChainInv
<1>3. v \in Versions
  BY <1>1, <1>2, UpdateFacts
<1> QED BY <1>1, <1>2, <1>3, VersionFacts DEF Honest

\* So through every step of the cluster.
LEMMA LoggedStays ==
    ASSUME \A i \in DOMAIN log : i \in DOMAIN log' /\ log'[i] = log[i]
    PROVE  \A v : Logged(v) => Logged(v)'
BY DEF Logged

\* Content is fixed once a block exists.
LEMMA OnChainStays ==
    ASSUME CoreInv, BlockStep, NEW v, Logged(v), OnChain(v)
    PROVE  OnChain(v)'
<1>1. v.slot \in Slots /\ block[v.slot].phase # "none"
  BY LoggedFacts
<1>2. block'[v.slot].content = block[v.slot].content
  BY <1>1 DEF BlockStep
<1> QED BY <1>2 DEF OnChain

\* A new block has sent nothing.
LEMMA StartBlockSent ==
    ASSUME CoreInv, SentInv, NEW s \in Slots, NEW c \in Contents, NEW p \in 0 .. s - 1,
           StartBlock(s, p, c)
    PROVE  SentInv'
<1>1. ChainTypeOK /\ ChainInv
  BY TypeMeans, Zenon DEF CoreInv
<1>2. BlockStep /\ log' = log
  BY <1>1, StartBlockStep
<1>3. PICK l : block' = [block EXCEPT ![s] = [phase |-> "open", parent |-> p, content |-> c,
                                              sent |-> 0, landed |-> l]]
  BY Zenon DEF StartBlock
<1>4. /\ block'[s].sent = 0 /\ block'[s].phase = "open"
      /\ \A r \in Slots : r # s => block'[r] = block[r]
  BY <1>1, <1>3 DEF ChainTypeOK
<1>5. \A v : Logged(v)' <=> Logged(v)
  BY <1>2 DEF Logged
<1>6. \A v : Logged(v)' => OnChain(v)' /\ v.op # "delete"
  BY <1>2, <1>5, OnChainStays DEF SentInv
<1>7. ASSUME NEW v \in Versions, OnChain(v)', v.op # "delete", v.write <= block'[v.slot].sent
      PROVE  Logged(v)'
  <2>1. v.slot \in Slots /\ v.write \in 1 .. MaxVersion
    BY VersionFacts
  <2>2. v.slot # s
    BY <1>4, <1>7, <2>1, StoreAssumption
  <2>3. block'[v.slot] = block[v.slot]
    BY <1>4, <2>1, <2>2
  <2>4. OnChain(v)
    BY <1>7, <2>3 DEF OnChain
  <2> QED BY <1>5, <1>7, <2>3, <2>4 DEF SentInv
<1>8. \A r \in Slots : Frozen(r)' => block'[r].sent = Len(block'[r].content)
  BY <1>4 DEF SentInv, Frozen
<1> QED BY <1>6, <1>7, <1>8 DEF SentInv

\* The item that executes is sent, and no other.
LEMMA ExecuteSent ==
    ASSUME CoreInv, SentInv, NEW s \in Slots, Execute(s)
    PROVE  SentInv'
<1> DEFINE n == block[s].sent + 1
<1>1. ChainTypeOK /\ ChainInv
  BY TypeMeans, Zenon DEF CoreInv
<1>2. BlockStep
  BY <1>1, ExecuteStep
<1>3. /\ block[s] \in Block /\ block[s].phase = "open"
      /\ n \in DOMAIN block[s].content /\ block[s].sent \in Nat
  <2>1. block[s] \in Block /\ block[s].phase = "open"
    BY <1>1 DEF Execute, ChainTypeOK
  <2>2. block[s].sent \in 0 .. MaxVersion /\ block[s].content \in Contents \cup {<<>>}
    BY <2>1 DEF Block
  <2>3. block[s].sent < Len(block[s].content)
    BY DEF Execute
  <2> QED BY <2>1, <2>2, <2>3, ContentFacts, StoreAssumption
<1>4. PICK u \in Updates : u = ItemUpdate(s, n)
  BY <1>1, <1>3, ItemFacts
<1>5. block' = [block EXCEPT ![s].sent = n]
  BY DEF Execute
<1>6. /\ u.kind = "account" =>
            OnChain(u.version) /\ (Subscribed(block[s].content[n]) => u.version.op # "delete")
      /\ \A v \in Versions : OnChain(v) /\ v.slot = s /\ v.write = n =>
            /\ u.kind = "account" /\ u.version = v
            /\ v.op # "delete" => Subscribed(block[s].content[n])
  BY <1>1, <1>3, <1>4, ItemWritten
<1>7. /\ \A r \in Slots : block'[r].content = block[r].content /\ block'[r].phase = block[r].phase
      /\ \A r \in Slots : r # s => block'[r] = block[r]
      /\ block'[s].sent = n
  BY <1>1, <1>3, <1>5 DEF ChainTypeOK, Block
<1>8. /\ \A i \in DOMAIN log : i \in DOMAIN log' /\ log'[i] = log[i]
      /\ \A i \in DOMAIN log' :
            i \notin DOMAIN log => log'[i] = u /\ Subscribed(block[s].content[n])
      /\ Subscribed(block[s].content[n]) => \E i \in DOMAIN log' : log'[i] = u
  <2>1. log \in Seq(Updates)
    BY <1>1 DEF ChainTypeOK
  <2>2. CASE Subscribed(block[s].content[n])
    <3>1. log' = Append(log, u)
      BY <1>4, <2>2 DEF Execute, Send
    <3> QED BY <2>1, <2>2, <3>1, AppendFacts
  <2>3. CASE ~Subscribed(block[s].content[n])
    <3>1. log' = log
      BY <2>3 DEF Execute
    <3> QED BY <2>3, <3>1
  <2> QED BY <2>2, <2>3
<1>9. \A v \in Versions : OnChain(v)' <=> OnChain(v)
  BY <1>7, VersionFacts DEF OnChain
<1>10. u.kind = "account" => u.version \in Versions
  BY UpdateFacts
<1> HIDE DEF n
<1>11. \A v : Logged(v)' => \/ Logged(v)
                            \/ /\ u.kind = "account" /\ v = u.version
                               /\ Subscribed(block[s].content[n])
  BY <1>8, Zenon DEF Logged
<1>12. \A v : Logged(v)' => OnChain(v)' /\ v.op # "delete"
  BY <1>2, <1>6, <1>9, <1>10, <1>11, OnChainStays, Zenon DEF SentInv
<1>13. ASSUME NEW v \in Versions, OnChain(v)', v.op # "delete", v.write <= block'[v.slot].sent
       PROVE  Logged(v)'
  <2>1. OnChain(v) /\ v.slot \in Slots /\ v.write \in Int
    BY <1>9, <1>13, VersionFacts, StoreAssumption
  <2>2. CASE v.write <= block[v.slot].sent
    BY <1>8, <1>13, <2>1, <2>2, LoggedStays DEF SentInv
  <2>3. CASE ~(v.write <= block[v.slot].sent)
    <3>1. v.slot = s
      BY <1>7, <1>13, <2>1, <2>3
    <3>2. v.write = n
      BY <1>3, <1>7, <1>13, <2>1, <2>3, <3>1 DEF n
    <3>3. u.kind = "account" /\ u.version = v /\ Subscribed(block[s].content[n])
      BY <1>6, <1>13, <2>1, <3>1, <3>2
    <3> QED BY <1>8, <3>3 DEF Logged
  <2> QED BY <2>2, <2>3
<1>14. \A r \in Slots : Frozen(r)' => block'[r].sent = Len(block'[r].content)
  BY <1>3, <1>7 DEF SentInv, Frozen
<1> QED BY <1>12, <1>13, <1>14 DEF SentInv

\* A status sends no version, and a block is frozen after its last item.
LEMMA SettleSent ==
    ASSUME CoreInv, SentInv, NEW s \in Slots, NEW from, NEW to, Settle(s, from, to),
           from \in {{"open"}, {"processed"}, {"processed", "confirmed"}},
           "open" \notin from => to \in {"confirmed", "finalized"},
           from = {"open"} => to = "dead" \/ block[s].sent = Len(block[s].content)
    PROVE  SentInv'
<1>1. ChainTypeOK /\ ChainInv
  BY TypeMeans, Zenon DEF CoreInv
<1>2. BlockStep /\ block[s].phase \in from
  BY <1>1, SettleStep
<1>3. log' = log \/ \E u \in Updates : Sends(u) /\ u.kind = "slot"
  BY <1>1, SettleStep
<1>4. block' = [block EXCEPT ![s].phase = to]
  BY Zenon DEF Settle
<1>5. \A r \in Slots : /\ block'[r].content = block[r].content /\ block'[r].sent = block[r].sent
                       /\ block'[r].phase = IF r = s THEN to ELSE block[r].phase
  BY <1>1, <1>4 DEF ChainTypeOK, Block
<1>6. /\ \A i \in DOMAIN log : i \in DOMAIN log' /\ log'[i] = log[i]
      /\ \A i \in DOMAIN log' : i \notin DOMAIN log => log'[i].kind = "slot"
  <2>1. CASE log' = log
    BY <2>1
  <2>2. ASSUME NEW u \in Updates, Sends(u), u.kind = "slot"
        PROVE  /\ \A i \in DOMAIN log : i \in DOMAIN log' /\ log'[i] = log[i]
               /\ \A i \in DOMAIN log' : i \notin DOMAIN log => log'[i].kind = "slot"
    <3>1. log \in Seq(Updates) /\ log' = Append(log, u)
      BY <1>1, <2>2 DEF ChainTypeOK, Sends
    <3> QED BY <2>2, <3>1, AppendFacts
  <2> QED BY <1>3, <2>1, <2>2
<1>7. \A v : Logged(v)' <=> Logged(v)
  BY <1>6 DEF Logged
<1>8. \A v : Logged(v)' => OnChain(v)' /\ v.op # "delete"
  BY <1>2, <1>7, OnChainStays DEF SentInv
<1>9. ASSUME NEW v \in Versions, OnChain(v)', v.op # "delete", v.write <= block'[v.slot].sent
      PROVE  Logged(v)'
  <2>1. v.slot \in Slots
    BY VersionFacts
  <2>2. OnChain(v) /\ v.write <= block[v.slot].sent
    BY <1>5, <1>9, <2>1 DEF OnChain
  <2> QED BY <1>7, <1>9, <2>2 DEF SentInv
<1>10. ASSUME NEW r \in Slots, Frozen(r)' PROVE block'[r].sent = Len(block'[r].content)
  <2>1. CASE r # s
    BY <1>5, <1>10, <2>1 DEF Frozen, SentInv
  <2>2. CASE r = s
    <3>1. to # "dead"
      BY <1>5, <1>10, <2>2 DEF Frozen
    <3>2. CASE from = {"open"}
      BY <1>5, <2>2, <3>1, <3>2
    <3>3. CASE from # {"open"}
      <4>1. block[s].phase \in {"processed", "confirmed"}
        BY <1>2, <3>3
      <4> QED BY <1>5, <2>2, <4>1 DEF Frozen, SentInv
    <3> QED BY <3>2, <3>3
  <2> QED BY <2>1, <2>2
<1> QED BY <1>8, <1>9, <1>10 DEF SentInv

\* The log holds what has executed, whatever the cluster does.
LEMMA ClusterSent ==
    ASSUME CoreInv, SentInv, Cluster
    PROVE  SentInv'
<1>1. ASSUME NEW s \in Slots, Freeze(s) PROVE SentInv'
  <2>1. Settle(s, {"open"}, "processed") /\ block[s].sent = Len(block[s].content)
    BY <1>1, Zenon DEF Freeze
  <2> QED BY <2>1, SettleSent
<1>2. ASSUME NEW s \in Slots, Die(s) PROVE SentInv'
  <2>1. Settle(s, {"open"}, "dead")
    BY <1>2, Zenon DEF Die
  <2> QED BY <2>1, SettleSent
<1>3. ASSUME NEW s \in Slots, Confirm(s) PROVE SentInv'
  <2>1. Settle(s, {"processed"}, "confirmed") /\ {"processed"} # {"open"}
    BY <1>3 DEF Confirm
  <2> QED BY <2>1, SettleSent
<1>4. ASSUME NEW s \in Slots, Root(s) PROVE SentInv'
  <2>1. /\ Settle(s, {"processed", "confirmed"}, "finalized")
        /\ {"processed", "confirmed"} # {"open"}
    BY <1>4 DEF Root
  <2> QED BY <2>1, SettleSent
<1>5. ASSUME NEW s \in Slots, NEW c \in Contents, NEW p \in 0 .. s - 1, StartBlock(s, p, c)
      PROVE  SentInv'
  BY <1>5, StartBlockSent
<1>6. ASSUME NEW s \in Slots, Execute(s) PROVE SentInv'
  BY <1>6, ExecuteSent
<1> QED BY <1>1, <1>2, <1>3, <1>4, <1>5, <1>6, Zenon DEF Cluster

\* Membership in the set of the writes that count.
LEMMA CountsMeans == \A a, v : v \in FinalVersions(a) <=> Counts(v, a)
BY DEF FinalVersions, Counts, Rooted

\* One version is at least as late as another.
LEMMA LaterMeans ==
    ASSUME NEW v \in Versions, NEW w \in Versions
    PROVE  (LaterOf(v, w) = v) <=> (v.slot > w.slot \/ (v.slot = w.slot /\ v.write >= w.write))
<1>1. w # NoRow /\ v.slot \in Int /\ w.slot \in Int /\ v.write \in Int /\ w.write \in Int
  BY VersionFacts, SlotFacts, StoreAssumption
<1> QED BY <1>1 DEF LaterOf

\* Which is an order.
LEMMA LaterTransitive ==
    ASSUME NEW v \in Versions, NEW w \in Versions, NEW x \in Versions,
           LaterOf(v, w) = v, LaterOf(w, x) = w
    PROVE  LaterOf(v, x) = v
<1>1. \A y \in Versions : y.slot \in Int /\ y.write \in Int
  BY VersionFacts, SlotFacts, StoreAssumption
<1>2. v.slot > w.slot \/ (v.slot = w.slot /\ v.write >= w.write)
  BY LaterMeans
<1>3. w.slot > x.slot \/ (w.slot = x.slot /\ w.write >= x.write)
  BY LaterMeans
<1>4. v.slot > x.slot \/ (v.slot = x.slot /\ v.write >= x.write)
  BY <1>1, <1>2, <1>3
<1> QED BY <1>4, LaterMeans

\* A step that applies nothing and takes versions only from the log.
LEMMA ContentKept ==
    ASSUME CoreInv, ContentInv, UNCHANGED chainVars, UNCHANGED newest,
           checkpoint'.finalized = checkpoint.finalized,
           \A r \in rawAccounts' :
              r \in rawAccounts \/ (Logged(r.version) /\ r.commitment # "finalized")
    PROVE  ContentInv'
<1>1. UNCHANGED block /\ UNCHANGED log
  BY Zenon DEF chainVars
<1>2. /\ \A v : Logged(v)' <=> Logged(v)
      /\ \A v : OnChain(v)' <=> OnChain(v)
      /\ \A s \in Slots : Frozen(s)' <=> Frozen(s)
  BY <1>1 DEF Logged, OnChain, Frozen
<1>3. SentInv'
  BY <1>1, <1>2 DEF ContentInv, SentInv
<1>4. IngestedInv'
  BY <1>2 DEF ContentInv, IngestedInv
<1>5. \A a, v : Counts(v, a)' <=> Counts(v, a)
  BY <1>1, <1>2 DEF Counts, Rooted
<1>6. FinalInv'
  BY <1>5, Zenon DEF ContentInv, FinalInv
<1> QED BY <1>3, <1>4, <1>6 DEF ContentInv

\* What the cluster adds is above the checkpoint.
LEMMA ClusterContent ==
    ASSUME StartSlot > 0, CoreInv, ResumeInv, ContentInv, Cluster
    PROVE  ContentInv'
<1>1. UNCHANGED rawAccounts /\ UNCHANGED checkpoint /\ UNCHANGED newest
  BY Zenon DEF Cluster, storeVars
<1>2. SentInv'
  BY ClusterSent DEF ContentInv
<1>3. BlockStep
  <2>1. ChainTypeOK /\ ChainInv
    BY TypeMeans, Zenon DEF CoreInv
  <2> QED BY <2>1, ClusterStep, Zenon
<1>4. /\ \A v : Logged(v) => Logged(v)'
      /\ \A r \in Slots : Rooted(r) => Rooted(r)'
      /\ \A r \in Slots : Rooted(r)' => Rooted(r) \/ root < r
  BY ClusterNews, LoggedStays, Zenon
<1>5. IngestedInv'
  BY <1>1, <1>4 DEF ContentInv, IngestedInv
<1>6. checkpoint.finalized <= root /\ root \in Int /\ checkpoint.finalized \in Int
  BY CheckpointRooted, SlotFacts, StoreAssumption DEF ResumeInv
<1>7. ASSUME NEW a, NEW v PROVE Counts(v, a)' <=> Counts(v, a)
  <2>1. CASE v \notin Versions
    BY <2>1 DEF Counts
  <2>2. CASE v \in Versions /\ ~(v.slot <= checkpoint.finalized)
    BY <1>1, <2>2 DEF Counts
  <2>3. CASE v \in Versions /\ v.slot <= checkpoint.finalized
    <3>1. v.slot \in Slots /\ v.slot \in Int
      BY <2>3, VersionFacts, SlotFacts
    <3>2. Rooted(v.slot)' <=> Rooted(v.slot)
      <4>1. Rooted(v.slot)' => Rooted(v.slot)
        BY <1>4, <1>6, <2>3, <3>1
      <4> QED BY <1>4, <3>1, <4>1
    <3>3. Rooted(v.slot) => block'[v.slot].content = block[v.slot].content
      BY <1>3, <3>1 DEF BlockStep, Rooted
    <3> QED BY <1>1, <3>2, <3>3 DEF Counts, OnChain
  <2> QED BY <2>1, <2>2, <2>3
<1>8. FinalInv'
  BY <1>1, <1>7, Zenon DEF ContentInv, FinalInv
<1> QED BY <1>2, <1>5, <1>8 DEF ContentInv

\* Every write of a slot that is about to be projected, and that counts, is
\* staged for it.
LEMMA PendingStaged ==
    ASSUME CoreInv, ResumeInv, ContentInv, NEW s \in Slots, Pending(s),
           checkpoint.finalized < s, NEW w \in Versions, w.slot = s, OnChain(w),
           w.op \in {"write", "undated"}
    PROVE  w \in staged
<1>1. Rooted(s)
  BY FinalRooted
<1>2. Logged(w)
  <2>1. block[s].content \in Contents \cup {<<>>}
    BY TypeMeans DEF CoreInv, ChainTypeOK, Block
  <2>2. block[s].sent = Len(block[s].content)
    BY <1>1 DEF ContentInv, SentInv, Frozen, Rooted
  <2>3. w.write \in DOMAIN block[s].content
    BY DEF OnChain
  <2>4. w.write <= block[s].sent
    BY <2>1, <2>2, <2>3, ContentFacts
  <2> QED BY <2>4 DEF ContentInv, SentInv
<1>3. PICK i \in DOMAIN log : log[i].kind = "account" /\ log[i].version = w
  BY <1>2 DEF Logged
<1>4. log[i].slot = s
  BY <1>3 DEF CoreInv, ChainInv, Honest
<1>5. Duplicate(w)
  BY <1>3, <1>4 DEF ResumeInv, PendingInv, Arrived
<1>6. PICK r \in rawAccounts : SameKey(r.version, w)
  BY <1>5 DEF Duplicate
<1>7. r.version \in Versions /\ OnChain(r.version)
  BY LoggedFacts DEF ContentInv, SentInv, IngestedInv
<1>8. r.version = w
  BY <1>6, <1>7, OnChainUnique DEF SameKey
<1>9. r.commitment # "finalized"
  <2>1. checkpoint.finalized \in Int /\ s \in Int
    BY CheckpointFacts, SlotFacts, StoreAssumption DEF CoreInv
  <2> QED BY <1>8, <2>1 DEF ContentInv, IngestedInv
<1> QED BY <1>8, <1>9 DEF CoreInv, RowsInv, StagedIsPending

\* A raw row is finalized with its slot, which the checkpoint then covers.
LEMMA FinalizeIngested ==
    ASSUME CoreInv, ContentInv, NEW s \in Slots, Finalizes(s), UNCHANGED chainVars
    PROVE  IngestedInv'
<1>1. FinalizeSlot(s)
  BY DEF Finalizes
<1>2. \A v : Logged(v)' <=> Logged(v)
  <2>1. UNCHANGED log
    BY Zenon DEF chainVars
  <2> QED BY <2>1 DEF Logged
<1>3. checkpoint.finalized <= checkpoint'.finalized /\ s <= checkpoint'.finalized
      /\ checkpoint'.finalized \in {checkpoint.finalized, s}
  BY FinalizeRowsKept
<1>4. checkpoint.finalized \in Int /\ checkpoint'.finalized \in Int /\ s \in Int
  BY <1>3, CheckpointFacts, SlotFacts, StoreAssumption DEF CoreInv
<1>5. rawAccounts \subseteq Stored
  BY TypeMeans DEF CoreInv, StoreTypeOK
<1> SUFFICES ASSUME NEW q \in rawAccounts'
             PROVE  /\ Logged(q.version)
                    /\ q.commitment = "finalized" => q.version.slot <= checkpoint'.finalized
  BY <1>2 DEF IngestedInv
<1>6. PICK r \in rawAccounts :
          q = IF r.version.slot = s THEN [r EXCEPT !.commitment = "finalized"] ELSE r
  BY <1>1, Zenon DEF FinalizeSlot
<1>7. Logged(r.version) /\ r.version.slot \in Slots /\ r.version.slot \in Int
  BY LoggedFacts, SlotFacts DEF ContentInv, IngestedInv
<1>8. CASE r.version.slot = s
  <2>1. q.version = r.version
    BY <1>5, <1>6, <1>8, StoredFacts, FinalRowFacts
  <2> QED BY <1>3, <1>7, <1>8, <2>1
<1>9. CASE r.version.slot # s
  <2>1. q = r
    BY <1>6, <1>9
  <2> QED BY <1>3, <1>4, <1>7, <2>1 DEF ContentInv, IngestedInv
<1> QED BY <1>8, <1>9

\* A finalization adds to the writes that count those of its slot, and applies
\* the last of them.
LEMMA FinalizeFinal ==
    ASSUME CoreInv, ResumeInv, ContentInv, NEW s \in Slots, Finalizes(s), UNCHANGED chainVars
    PROVE  FinalInv'
<1>1. Pending(s) /\ Rooted(s) /\ FinalizeSlot(s)
  BY FinalRooted DEF Finalizes, Pending
<1>2. UNCHANGED block
  BY Zenon DEF chainVars
<1>3. checkpoint.finalized <= checkpoint'.finalized /\ s <= checkpoint'.finalized
      /\ checkpoint'.finalized \in {checkpoint.finalized, s}
  BY FinalizeRowsKept
<1>4. checkpoint.finalized \in Int /\ checkpoint'.finalized \in Int /\ \A t \in Slots : t \in Int
  BY <1>3, CheckpointFacts, SlotFacts, StoreAssumption DEF CoreInv
<1>5. StoreTypeOK /\ staged \subseteq Versions
  BY TypeMeans DEF CoreInv, StoreTypeOK
<1>6. ASSUME NEW v, NEW a, Counts(v, a) PROVE Counts(v, a)'
  <2>1. v.slot \in Int
    BY <1>4, <1>6, VersionFacts DEF Counts
  <2> QED BY <1>2, <1>3, <1>4, <1>6, <2>1 DEF Counts, OnChain, Rooted
<1>7. ASSUME NEW v, NEW a, Counts(v, a)', ~Counts(v, a)
      PROVE  v \in staged /\ v.slot = s
  <2>1. /\ v \in Versions /\ v.addr = a /\ v.op \in {"write", "undated"} /\ OnChain(v)
        /\ Rooted(v.slot) /\ v.slot <= checkpoint'.finalized /\ v.slot \in Slots
    BY <1>2, <1>7, VersionFacts DEF Counts, OnChain, Rooted
  <2>2. ~(v.slot <= checkpoint.finalized)
    BY <1>7, <2>1 DEF Counts
  <2>3. ~(v.slot < s)
    BY <1>1, <2>1, <2>2 DEF ResumeInv, PendingInv
  <2>4. v.slot = s /\ checkpoint.finalized < s
    BY <1>3, <1>4, <2>1, <2>2, <2>3
  <2> QED BY <1>1, <2>1, <2>4, PendingStaged
<1>8. ASSUME NEW v \in staged, v.slot = s PROVE Counts(v, v.addr)' /\ v.op = "write"
  <2>1. v \in Versions /\ v.op \notin {"other", "delete"} /\ OnChain(v)
    <3>1. v.op # "other" /\ \E r \in rawAccounts : r.version = v
      BY DEF CoreInv, RowsInv, StagedIsPending
    <3> QED BY <1>5, <3>1 DEF ContentInv, SentInv, IngestedInv
  <2>2. v.op # "undated"
    BY <1>1, <1>8 DEF FinalizeSlot, FinalizeAccepted, Projectable
  <2>3. v.op = "write"
    BY <2>1, <2>2 DEF Versions, Ops
  <2> QED BY <1>1, <1>2, <1>3, <1>8, <2>1, <2>3 DEF Counts, OnChain, Rooted
<1>9. SUFFICES ASSUME NEW a \in Addrs, NEW n, n = newest'[a]
      PROVE  /\ n # NoRow => Counts(n, a)'
             /\ \A w : Counts(w, a)' => n # NoRow /\ LaterOf(n, w) = n /\ w.op = "write"
  <2>1. \A a \in Addrs : \A n : n = newest'[a] =>
           /\ n # NoRow => Counts(n, a)'
           /\ \A w : Counts(w, a)' => n # NoRow /\ LaterOf(n, w) = n /\ w.op = "write"
    BY <1>9
  <2> QED BY <2>1 DEF FinalInv, Counts, Rooted
<1> DEFINE rows == {v \in staged : v.slot = s /\ v.addr = a} \cup {newest[a]}
<1>10. n = NewestOf(s, a)
  <2>1. newest' = [b \in Addrs |-> NewestOf(s, b)]
    BY <1>1, Zenon DEF FinalizeSlot
  <2> QED BY <1>9, <2>1
<1>11. n \in rows /\ \A w \in rows \ {NoRow} : n # NoRow /\ LaterOf(n, w) = n
  BY <1>5, <1>10, NewestOfFacts
<1>12. newest[a] \in Versions \cup {NoRow}
  BY <1>5 DEF StoreTypeOK
<1>13. n # NoRow => Counts(n, a)'
  <2>1. CASE n = newest[a] /\ n # NoRow
    <3>1. Counts(n, a)
      BY <2>1 DEF ContentInv, FinalInv
    <3> QED BY <1>6, <3>1
  <2>2. CASE n \in staged /\ n.slot = s /\ n.addr = a
    BY <1>8, <2>2
  <2> QED BY <1>11, <2>1, <2>2
<1>14. ASSUME NEW w, Counts(w, a)' PROVE n # NoRow /\ LaterOf(n, w) = n /\ w.op = "write"
  <2>0. w \in Versions /\ w.addr = a /\ w # NoRow
    BY <1>14, VersionFacts DEF Counts
  <2>1. CASE Counts(w, a)
    <3>1. newest[a] # NoRow /\ LaterOf(newest[a], w) = newest[a] /\ w.op = "write"
      BY <2>1 DEF ContentInv, FinalInv
    <3>2. n # NoRow /\ LaterOf(n, newest[a]) = n
      BY <1>11, <3>1
    <3>3. n \in Versions
      BY <1>5, <1>11, <1>12, <3>2
    <3> QED BY <1>12, <2>0, <3>1, <3>2, <3>3, LaterTransitive
  <2>2. CASE ~Counts(w, a)
    <3>1. w \in rows \ {NoRow} /\ w \in staged /\ w.slot = s
      BY <1>7, <1>14, <2>0, <2>2
    <3> QED BY <1>8, <1>11, <3>1
  <2> QED BY <2>1, <2>2
<1> QED BY <1>13, <1>14

\* The invariant through a call of the store.
LEMMA EngineContent ==
    ASSUME CoreInv, ResumeInv, ContentInv, EngineStep
    PROVE  ContentInv'
<1>1. UNCHANGED chainVars
  BY Zenon DEF EngineStep
<1>2. StoreCall
  BY StoreCalls DEF CoreInv
<1>3. CASE UNCHANGED <<checkpoint, rawAccounts, newest>>
  BY <1>1, <1>3, ContentKept
<1>4. ASSUME NEW u \in Updates, Upserts(u) PROVE ContentInv'
  <2>1. UNCHANGED newest /\ checkpoint'.finalized = checkpoint.finalized
        /\ rawAccounts' \subseteq rawAccounts
    BY <1>4, UpsertRowsKept
  <2> QED BY <1>1, <2>1, ContentKept
<1>5. ASSUME NEW u \in Updates, TakesAccount(u) PROVE ContentInv'
  <2>1. u.kind = "account" /\ InsertAccount(u.version, "processed") /\ queue # <<>> /\ u = Head(queue)
    BY <1>5, Zenon DEF TakesAccount
  <2>2. PICK i \in DOMAIN log : u = log[i]
    <3>1. queue \in Seq(Updates)
      BY TypeMeans DEF CoreInv, FeedTypeOK
    <3>2. 1 \in DOMAIN queue /\ u = queue[1]
      BY <2>1, <3>1, HeadFacts
    <3> QED BY <3>2 DEF CoreInv, QueueInv
  <2>3. Logged(u.version)
    BY <2>1, <2>2 DEF Logged
  <2>4. UNCHANGED checkpoint
    BY <2>1, Zenon DEF InsertAccount
  <2>5. CASE Duplicate(u.version)
    <3>1. UNCHANGED rawAccounts /\ UNCHANGED newest
      BY <2>1, <2>5, Zenon DEF InsertAccount
    <3> QED BY <1>3, <2>4, <3>1
  <2>6. CASE ~Duplicate(u.version)
    <3>1. u.version.slot = u.slot
      BY <2>1, <2>2 DEF CoreInv, ChainInv, Honest
    <3>2. ~ApplyNow(u.version, "processed")
      BY <2>1, <2>2, <2>6, <3>1 DEF ResumeInv, CompleteInv, Arrived, ApplyNow
    <3>3. /\ rawAccounts' = rawAccounts \cup {[version |-> u.version, commitment |-> "processed"]}
          /\ UNCHANGED newest
      BY <2>1, <2>6, <3>2 DEF InsertAccount
    <3>4. \A r \in rawAccounts' :
             r \in rawAccounts \/ (Logged(r.version) /\ r.commitment # "finalized")
      BY <2>3, <3>3
    <3> QED BY <1>1, <2>4, <3>3, <3>4, ContentKept
  <2> QED BY <2>5, <2>6
<1>6. ASSUME NEW s \in Slots, Finalizes(s) PROVE ContentInv'
  <2>1. SentInv'
    <3>1. UNCHANGED block /\ UNCHANGED log
      BY <1>1, Zenon DEF chainVars
    <3> QED BY <3>1 DEF ContentInv, SentInv, Logged, OnChain, Frozen
  <2> QED BY <1>1, <1>6, <2>1, FinalizeIngested, FinalizeFinal DEF ContentInv
<1>7. ASSUME NEW t \in Txs, NEW s \in Slots, NEW c \in {"processed", "confirmed"},
             InsertEvent(t, s, c)
      PROVE  ContentInv'
  BY <1>3, <1>7, Zenon DEF InsertEvent
<1> QED BY <1>2, <1>3, <1>4, <1>5, <1>6, <1>7, Zenon DEF StoreCall, OnlyGaps

\* The invariant is inductive, given the other two.
LEMMA ContentInvariant ==
    ASSUME StartSlot > 0, CoreInv, ResumeInv, ContentInv, [Next]_vars
    PROVE  ContentInv'
<1>1. CASE UNCHANGED chainVars /\ UNCHANGED storeVars
  <2>1. UNCHANGED checkpoint /\ UNCHANGED rawAccounts /\ UNCHANGED newest
    BY <1>1, Zenon DEF storeVars
  <2> QED BY <1>1, <2>1, ContentKept
<1>2. CASE UNCHANGED vars
  BY <1>1, <1>2, Zenon DEF vars
<1>3. CASE Connect \/ Forward \/ Drop \/ Restart \/ Crash
  BY <1>1, <1>3, Zenon DEF Connect, Forward, Drop, Restart, Crash
<1> QED BY <1>2, <1>3, ClusterContent, EngineContent, Zenon DEF Next

\* It holds at the start: nothing was written yet.
LEMMA ContentInitially ==
    ASSUME Init
    PROVE  ContentInv
<1>1. StartSlot \in Nat
  BY StoreAssumption, IndexerAssumption
<1>2. \A i \in DOMAIN log : log[i].kind = "slot"
  BY <1>1 DEF Init, SlotUpdate
<1>3. \A v : ~Logged(v)
  BY <1>2 DEF Logged
<1>4. \A s \in Slots : block[s].content = <<>> /\ block[s].sent = 0
  BY DEF Init
<1>5. \A v \in Versions : ~OnChain(v)
  <2> SUFFICES ASSUME NEW v \in Versions PROVE ~OnChain(v)
    OBVIOUS
  <2>1. block[v.slot].content = <<>>
    BY <1>4, VersionFacts
  <2> QED BY <2>1 DEF OnChain
<1>6. SentInv
  BY <1>3, <1>4, <1>5 DEF SentInv
<1>7. IngestedInv
  BY DEF Init, IngestedInv
<1>8. FinalInv
  <2>1. \A a \in Addrs : newest[a] = NoRow
    BY DEF Init
  <2> QED BY <1>5, <2>1 DEF FinalInv, Counts
<1> QED BY <1>6, <1>7, <1>8 DEF ContentInv

\* The last applied version is the last write of the chain, so the public row is.
LEMMA ContentShown ==
    ASSUME NewestWins, FinalInv
    PROVE  ReadsFinalState
<1> SUFFICES ASSUME NEW a \in Addrs
             PROVE  {proj[a]} \ {NoRow} =
                      {v \in FinalVersions(a) : \A w \in FinalVersions(a) : LaterOf(v, w) = v}
  BY Zenon DEF ReadsFinalState
<1>1. \A v : v \in FinalVersions(a) <=> Counts(v, a)
  BY CountsMeans
<1>2. proj[a] = IF newest[a] = NoRow \/ newest[a].op = "delete" THEN NoRow ELSE newest[a]
  BY DEF NewestWins
<1>3. CASE newest[a] = NoRow
  <2>1. FinalVersions(a) = {} /\ proj[a] = NoRow
    BY <1>1, <1>2, <1>3 DEF FinalInv
  <2> QED BY <2>1
<1>4. CASE newest[a] # NoRow
  <2>1. PICK n : n = newest[a]
    OBVIOUS
  <2>2. Counts(n, a) /\ \A w : Counts(w, a) => LaterOf(n, w) = n
    BY <1>4, <2>1 DEF FinalInv
  <2>3. n \in Versions /\ n # NoRow /\ n.op = "write"
    BY <2>1, <2>2, VersionFacts DEF Counts, FinalInv
  <2>4. ASSUME NEW w, Counts(w, a), LaterOf(w, n) = w PROVE w = n
    <3>1. w \in Versions /\ OnChain(w) /\ OnChain(n)
      BY <2>2, <2>4 DEF Counts
    <3>2. LaterOf(n, w) = n
      BY <2>2, <2>4
    <3>3. /\ w.slot > n.slot \/ (w.slot = n.slot /\ w.write >= n.write)
          /\ n.slot > w.slot \/ (n.slot = w.slot /\ n.write >= w.write)
      BY <2>3, <2>4, <3>1, <3>2, LaterMeans
    <3>4. w.slot \in Int /\ n.slot \in Int /\ w.write \in Int /\ n.write \in Int
      BY <2>3, <3>1, VersionFacts, SlotFacts, StoreAssumption
    <3>5. w.slot = n.slot /\ w.write = n.write
      BY <3>3, <3>4
    <3> QED BY <2>3, <3>1, <3>5, OnChainUnique
  <2>5. {w \in FinalVersions(a) : \A x \in FinalVersions(a) : LaterOf(w, x) = w} = {n}
    BY <1>1, <2>2, <2>4, Zenon
  <2>6. proj[a] = n
    BY <1>2, <1>4, <2>1, <2>3
  <2> QED BY <2>3, <2>5, <2>6
<1> QED BY <1>3, <1>4

\* All three parts together.
IndexInv == CoreInv /\ ResumeInv /\ ContentInv

\* It always holds, from a checkpoint on.
LEMMA IndexCorrect ==
    ASSUME StartSlot > 0
    PROVE  Spec => []IndexInv
<1>1. Init => IndexInv
  BY CoreInitially, ResumeInitially, ContentInitially DEF IndexInv
<1>2. IndexInv /\ [Next]_vars => IndexInv'
  BY CoreInvariant, ResumeInvariant, ContentInvariant DEF IndexInv
<1> QED BY <1>1, <1>2, PTL DEF Spec

\* The public reads are right as of the slot they report: after every crash,
\* reconnect, fork and replay, a public row is the last write to its account on
\* the finalized chain up to the checkpoint, and an account without a row was
\* never written there.  The row of a closed account stays: the update that
\* closes it is not subscribed to.
THEOREM ReadsFinalStateCorrect ==
    ASSUME StartSlot > 0
    PROVE  Spec => []ReadsFinalState
<1>1. IndexInv => ReadsFinalState
  BY ContentShown DEF IndexInv, ResumeInv, ContentInv
<1> QED BY <1>1, IndexCorrect, PTL

\* Nothing of the finalized chain up to the checkpoint is missing from the raw
\* table: every account update of the program in it, as the block has it, was
\* ingested before the checkpoint passed its slot.  Closes are not: they are not
\* subscribed to.
WritesIngested ==
    \A v \in Versions :
        OnChain(v) /\ v.op # "delete" /\ Rooted(v.slot) /\ v.slot <= checkpoint.finalized
            => \E r \in rawAccounts : r.version = v

\* What is executed of a finalized block is all of it.
LEMMA RootedSent ==
    ASSUME CoreInv, SentInv, NEW v \in Versions, OnChain(v), v.op # "delete", Rooted(v.slot)
    PROVE  Logged(v)
<1>1. v.slot \in Slots
  BY VersionFacts
<1>2. block[v.slot].content \in Contents \cup {<<>>}
  BY <1>1, TypeMeans DEF CoreInv, ChainTypeOK, Block
<1>3. block[v.slot].sent = Len(block[v.slot].content)
  BY <1>1 DEF SentInv, Frozen, Rooted
<1>4. v.write \in DOMAIN block[v.slot].content
  BY DEF OnChain
<1>5. v.write <= block[v.slot].sent
  BY <1>2, <1>3, <1>4, ContentFacts
<1> QED BY <1>5 DEF SentInv

\* What the public reads are made from is complete, whatever stopped the process
\* or its sessions: see WritesIngested.
THEOREM FinalizedIsComplete ==
    ASSUME StartSlot > 0
    PROVE  Spec => []WritesIngested
<1>1. ASSUME IndexInv PROVE WritesIngested
  <2> SUFFICES ASSUME NEW v \in Versions, OnChain(v), v.op # "delete", Rooted(v.slot),
                      v.slot <= checkpoint.finalized
               PROVE  \E r \in rawAccounts : r.version = v
    BY DEF WritesIngested
  <2>1. PICK i \in DOMAIN log : log[i].kind = "account" /\ log[i].version = v
    BY <1>1, RootedSent DEF IndexInv, ContentInv, Logged
  <2>2. log[i].slot = v.slot /\ v.slot \in Slots
    BY <1>1, <2>1, VersionFacts DEF IndexInv, CoreInv, ChainInv, Honest
  <2>3. Duplicate(v)
    BY <1>1, <2>1, <2>2 DEF IndexInv, ResumeInv, CompleteInv, Arrived
  <2>4. PICK r \in rawAccounts : SameKey(r.version, v)
    BY <2>3 DEF Duplicate
  <2>5. r.version \in Versions /\ OnChain(r.version)
    BY <1>1, LoggedFacts DEF IndexInv, ContentInv, SentInv, IngestedInv
  <2> QED BY <2>4, <2>5, OnChainUnique DEF SameKey
<1> QED BY <1>1, IndexCorrect, PTL

\* A write with a time that the tables cannot express is on the chain as a
\* version of its account.
LEMMA UndatedMeans ==
    ASSUME CoreInv, NEW s \in Nat, s <= MaxSlot, Undated(s)
    PROVE  \E v \in Versions : /\ OnChain(v) /\ v.op = "undated" /\ Rooted(v.slot)
                               /\ v.slot <= s
<1>1. PICK r \in 1 .. s : /\ block[r].phase = "finalized"
                         /\ \E i \in DOMAIN block[r].content :
                               block[r].content[i].kind = "account" /\ block[r].content[i].op = "undated"
  BY DEF Undated
<1>2. PICK i \in DOMAIN block[r].content :
          block[r].content[i].kind = "account" /\ block[r].content[i].op = "undated"
  BY <1>1
<1>3. r \in Slots /\ r <= s
  BY <1>1, StoreAssumption DEF Slots
<1>4. /\ block[r].content \in Contents \cup {<<>>}
      /\ block[r].content[i] \in Writes \cup Events /\ i \in 1 .. MaxVersion
  <2>1. block[r].content \in Contents \cup {<<>>}
    BY <1>3, TypeMeans DEF CoreInv, ChainTypeOK, Block
  <2> QED BY <1>2, <2>1, ContentFacts, StoreAssumption
<1>5. PICK a \in Addrs : block[r].content[i] = [kind |-> "account", addr |-> a, op |-> "undated"]
  BY <1>2, <1>4 DEF Writes, Events
<1> DEFINE v == [addr |-> a, slot |-> r, write |-> i, op |-> "undated"]
<1>6. v \in Versions /\ v.addr = a /\ v.slot = r /\ v.write = i /\ v.op = "undated"
  BY <1>3, <1>4 DEF Versions, Ops
<1>7. OnChain(v) /\ Rooted(v.slot)
  BY <1>1, <1>2, <1>5 DEF OnChain, Rooted
<1> HIDE DEF v
<1> QED BY <1>3, <1>6, <1>7

\* The checkpoint stops below the first finalized slot with a time that the
\* tables cannot express: what is published stays right, and every later session
\* starts before that slot.
THEOREM CheckpointStopsAtUndated ==
    ASSUME StartSlot > 0
    PROVE  Spec => []~Undated(checkpoint.finalized)
<1>1. ASSUME IndexInv PROVE ~Undated(checkpoint.finalized)
  <2>1. checkpoint.finalized \in Nat /\ checkpoint.finalized <= MaxSlot
    BY <1>1, CheckpointFacts, StoreAssumption DEF IndexInv, CoreInv
  <2>2. ASSUME NEW v \in Versions, OnChain(v), v.op = "undated", Rooted(v.slot),
               v.slot <= checkpoint.finalized
        PROVE  FALSE
    <3>1. v.addr \in Addrs /\ Counts(v, v.addr)
      BY <2>2 DEF Counts, Versions
    <3> QED BY <1>1, <2>2, <3>1 DEF IndexInv, ContentInv, FinalInv
  <2> QED BY <1>1, <2>1, <2>2, UndatedMeans DEF IndexInv
<1> QED BY <1>1, IndexCorrect, PTL


(***************************************************************************)
(* Part four: why the process stops by itself, and what the statuses that  *)
(* the endpoint leaves out are worth.  With or without a checkpoint.       *)
(***************************************************************************)
TakenInv == \A r \in rawAccounts : Logged(r.version)

EngineFinal == engine.at = "finalize" => slotRow[engine.update.slot].status = "finalized"

FailsInv == SentInv /\ TakenInv /\ EngineFinal /\ FailsOnlyUndated

\* A finalized block keeps what it holds.
LEMMA UndatedStays ==
    ASSUME BlockStep, Undated(MaxSlot)
    PROVE  Undated(MaxSlot)'
<1>1. PICK r \in 1 .. MaxSlot :
          /\ block[r].phase = "finalized"
          /\ \E i \in DOMAIN block[r].content :
                block[r].content[i].kind = "account" /\ block[r].content[i].op = "undated"
  BY DEF Undated
<1>2. block'[r].phase = "finalized" /\ block'[r].content = block[r].content
  BY <1>1 DEF BlockStep, Slots
<1> QED BY <1>1, <1>2 DEF Undated

\* A version on the finalized chain with such a time is one.
LEMMA UndatedVersion ==
    ASSUME NEW v \in Versions, OnChain(v), v.op = "undated", Rooted(v.slot)
    PROVE  Undated(MaxSlot)
<1>1. v.slot \in 1 .. MaxSlot
  BY VersionFacts DEF Slots
<1>2. PICK i \in DOMAIN block[v.slot].content :
          block[v.slot].content[i] = [kind |-> "account", addr |-> v.addr, op |-> v.op]
  BY DEF OnChain
<1>3. block[v.slot].content[i].kind = "account" /\ block[v.slot].content[i].op = "undated"
  BY <1>2
<1> QED BY <1>1, <1>3 DEF Undated, Rooted

\* An account update is refused only for a time in a finalized block.
LEMMA AccountRefused ==
    ASSUME CoreInv, SentInv, Waiting, Received.kind = "account",
           ~InsertAccepted(Received.version, "processed")
    PROVE  Undated(MaxSlot)
<1>1. queue # <<>> /\ queue \in Seq(Updates)
  BY TypeMeans DEF Waiting, CoreInv, FeedTypeOK
<1>2. PICK u \in Updates : u = Received /\ \E i \in DOMAIN log : u = log[i]
  <2>1. 1 \in DOMAIN queue /\ Received = queue[1] /\ Received \in Updates
    BY <1>1, HeadFacts DEF Received
  <2> QED BY <2>1 DEF CoreInv, QueueInv
<1>3. u.kind = "account" /\ u.version \in Versions /\ Logged(u.version)
  BY <1>2, UpdateFacts DEF Logged
<1>4. slotRow[u.version.slot].status = "finalized" /\ u.version.op = "undated"
  BY <1>2 DEF InsertAccepted, ApplyNow, Projectable
<1>5. Rooted(u.version.slot)
  BY <1>3, <1>4, VersionFacts DEF CoreInv, SlotTableInv, Known
<1> QED BY <1>3, <1>4, <1>5, UndatedVersion DEF SentInv

\* And so is a finalization.
LEMMA FinalizeRefused ==
    ASSUME CoreInv, SentInv, TakenInv, EngineFinal, engine.at = "finalize",
           ~FinalizeAccepted(engine.update.slot)
    PROVE  Undated(MaxSlot)
<1>1. PICK s \in Slots : s = engine.update.slot
  BY UpdateFacts DEF CoreInv, UpdateInv
<1>2. slotRow[s].status = "finalized"
  BY <1>1 DEF EngineFinal
<1>3. PICK v \in staged : v.slot = s /\ v.op = "undated"
  BY <1>1, <1>2 DEF FinalizeAccepted, Known, Projectable
<1>4. Logged(v)
  BY DEF CoreInv, RowsInv, StagedIsPending, TakenInv
<1>5. v \in Versions /\ OnChain(v)
  BY <1>4, LoggedFacts DEF SentInv
<1>6. Rooted(v.slot)
  BY <1>2, <1>3 DEF CoreInv, SlotTableInv, Known
<1> QED BY <1>3, <1>5, <1>6, UndatedVersion

\* With the parents known, these are the only calls that are refused.
LEMMA FailRefused ==
    ASSUME OmitParents = {}, CoreInv, FailsInv, EngineStep, engine'.at = "failed"
    PROVE  Undated(MaxSlot)
<1>1. /\ TypeOK /\ ChainInv /\ UpdateInv /\ RepairInv /\ SlotTableInv /\ engine \in EngineState
  BY TypeMeans, Zenon DEF CoreInv
<1>2. engine.at # "failed" => ~(engine' = engine)
  OBVIOUS
<1>3. CASE TakeAccount
  <2>1. Waiting /\ Received.kind = "account" /\ engine.at = "idle"
    BY <1>3, Zenon DEF TakeAccount, Waiting
  <2>2. ~InsertAccepted(Received.version, "processed")
    BY <1>2, <1>3, <2>1 DEF TakeAccount
  <2> QED BY <2>1, <2>2, AccountRefused DEF FailsInv
<1>4. CASE TakeEvent
  <2>1. engine.at = "idle" /\ engine' = engine
    BY <1>4, Zenon DEF TakeEvent, Take, Waiting
  <2> QED BY <1>2, <2>1
<1>5. CASE TakeSlot
  <2>1. PICK l, g, f, r : engine' = [engine EXCEPT !.at = "upsert", !.update = r,
                                       !.last = l, !.gap = g, !.fetch = f]
    BY <1>5, Zenon DEF TakeSlot
  <2> QED BY <1>1, <2>1 DEF EngineState
<1>6. CASE Upsert
  <2>1. engine.at = "upsert"
    BY <1>6, Zenon DEF Upsert
  <2>2. PICK u \in Updates : u = engine.update /\ u.kind = "slot" /\ Honest(u)
    BY <1>1, <2>1 DEF UpdateInv
  <2>3. UpsertAccepted(engine.update)
    BY <1>1, <2>2, HonestAccepted
  <2>4. engine' \in {[engine EXCEPT !.at = "finalize"], AfterSlot}
    BY <1>6, <2>3 DEF Upsert
  <2> QED BY <1>1, <2>4 DEF AfterSlot, EngineState
<1>7. CASE Finalize
  <2>1. engine.at = "finalize"
    BY <1>7, Zenon DEF Finalize
  <2>2. AfterSlot.at # "failed"
    BY <1>1 DEF AfterSlot, EngineState
  <2>3. ~FinalizeAccepted(engine.update.slot)
    BY <1>7, <2>2 DEF Finalize
  <2> QED BY <2>1, <2>3, FinalizeRefused DEF FailsInv
<1>8. CASE EndRepair
  BY <1>1, <1>8 DEF EndRepair, EngineState
<1>9. CASE FetchSlot
  <2>1. PICK n, d : engine' = [engine EXCEPT !.fetch = n, !.todo = d]
    BY <1>9, Zenon DEF FetchSlot
  <2>2. engine.at = "repair"
    BY <1>9, Zenon DEF FetchSlot, Fetching
  <2> QED BY <1>1, <2>1, <2>2 DEF EngineState
<1>10. CASE RepairSlot
  <2>1. Gap(Fetched) = NoGap
    <3>1. UNCHANGED chainVars
      BY Zenon DEF EngineStep
    <3> QED BY <1>1, <1>10, <3>1, RepairSlotInv, Zenon
  <2>2. PICK u, d : engine' = [engine EXCEPT !.at = "upsert", !.todo = d, !.update = u]
    BY <1>10, <2>1, Zenon DEF RepairSlot
  <2> QED BY <1>1, <2>2 DEF EngineState
<1>11. CASE RepairEvent
  <2>1. PICK d : engine' = [engine EXCEPT !.todo = d]
    BY <1>11, Zenon DEF RepairEvent
  <2>2. engine.at = "repair"
    BY <1>11, Zenon DEF RepairEvent, Ingests
  <2> QED BY <1>1, <2>1, <2>2 DEF EngineState
<1> QED BY <1>3, <1>4, <1>5, <1>6, <1>7, <1>8, <1>9, <1>10, <1>11, Zenon DEF EngineStep

\* What is ingested was sent.
LEMMA TakenStep ==
    ASSUME CoreInv, TakenInv, EngineStep
    PROVE  TakenInv'
<1>1. StoreCall /\ UNCHANGED log
  BY StoreCalls, Zenon DEF CoreInv, EngineStep, chainVars
<1>2. \A v : Logged(v)' <=> Logged(v)
  BY <1>1 DEF Logged
<1>3. CASE \A r \in rawAccounts' : \E q \in rawAccounts : q.version = r.version
  BY <1>2, <1>3 DEF TakenInv
<1>4. CASE rawAccounts' \subseteq rawAccounts
  BY <1>3, <1>4
<1>5. ASSUME NEW u \in Updates, Upserts(u) PROVE TakenInv'
  BY <1>4, <1>5, UpsertRowsKept
<1>6. ASSUME NEW u \in Updates, TakesAccount(u) PROVE TakenInv'
  <2>1. u.kind = "account" /\ InsertAccount(u.version, "processed") /\ queue # <<>> /\ u = Head(queue)
    BY <1>6, Zenon DEF TakesAccount
  <2>2. Logged(u.version)
    <3>1. queue \in Seq(Updates)
      BY TypeMeans DEF CoreInv, FeedTypeOK
    <3>2. 1 \in DOMAIN queue /\ u = queue[1]
      BY <2>1, <3>1, HeadFacts
    <3> QED BY <2>1, <3>2 DEF CoreInv, QueueInv, Logged
  <2>3. \A r \in rawAccounts' : r \in rawAccounts \/ r.version = u.version
    BY <2>1 DEF InsertAccount
  <2> QED BY <1>2, <2>2, <2>3 DEF TakenInv
<1>7. ASSUME NEW s \in Slots, Finalizes(s) PROVE TakenInv'
  <2>1. rawAccounts' = {IF r.version.slot = s THEN [r EXCEPT !.commitment = "finalized"] ELSE r :
                           r \in rawAccounts}
    BY <1>7, Zenon DEF Finalizes, FinalizeSlot
  <2>2. rawAccounts \subseteq Stored
    BY TypeMeans DEF CoreInv, StoreTypeOK
  <2> SUFFICES ASSUME NEW q \in rawAccounts' PROVE \E r \in rawAccounts : r.version = q.version
    BY <1>3
  <2>3. PICK r \in rawAccounts :
            q = IF r.version.slot = s THEN [r EXCEPT !.commitment = "finalized"] ELSE r
    BY <2>1, Zenon
  <2>4. q.version = r.version
    BY <2>2, <2>3, StoredFacts, FinalRowFacts
  <2> QED BY <2>4
<1>8. ASSUME NEW t \in Txs, NEW s \in Slots, NEW c \in {"processed", "confirmed"},
             InsertEvent(t, s, c)
      PROVE  TakenInv'
  BY <1>4, <1>8, Zenon DEF InsertEvent
<1> QED BY <1>1, <1>4, <1>5, <1>6, <1>7, <1>8, Zenon DEF StoreCall, OnlyGaps

\* A slot is projected after its row has become final.
LEMMA EngineFinalStep ==
    ASSUME CoreInv, EngineStep
    PROVE  EngineFinal'
<1>1. engine \in EngineState /\ StoreTypeOK /\ UpdateInv
  BY TypeMeans, Zenon DEF CoreInv
<1> SUFFICES ASSUME engine'.at = "finalize" PROVE slotRow'[engine'.update.slot].status = "finalized"
  BY DEF EngineFinal
<1>2. CASE Upsert
  <2>1. engine.at = "upsert"
    BY <1>2, Zenon DEF Upsert
  <2>2. ~Fail
    BY FailStops
  <2>3. /\ UpsertSlot(engine.update)
        /\ engine' = IF engine.update.status = "finalized"
                     THEN [engine EXCEPT !.at = "finalize"] ELSE AfterSlot
    BY <1>2, <2>2, Zenon DEF Upsert
  <2>4. AfterSlot.at # "finalize"
    BY <1>1 DEF AfterSlot, EngineState
  <2>5. engine.update.status = "finalized" /\ engine'.update = engine.update
    BY <1>1, <2>3, <2>4 DEF EngineState
  <2>6. PICK u \in Updates : u = engine.update /\ Upserts(u)
    BY <1>1, <2>1, <2>3, Zenon DEF UpdateInv, Upserts
  <2> QED BY <1>1, <2>5, <2>6, UpsertedStatus
<1>3. CASE ~Upsert
  <2>1. ~Fail
    BY FailStops
  <2>2. engine.at \in {"idle", "repair"} /\ engine' = engine => FALSE
    OBVIOUS
  <2>3. CASE TakeAccount \/ TakeEvent
    <3>1. engine.at = "idle" /\ engine' = engine
      BY <2>1, <2>3 DEF TakeAccount, TakeEvent, Take, Waiting
    <3> QED BY <2>2, <3>1
  <2>4. CASE TakeSlot
    <3>1. PICK l, g, f, r : engine' = [engine EXCEPT !.at = "upsert", !.update = r,
                                         !.last = l, !.gap = g, !.fetch = f]
      BY <2>4, Zenon DEF TakeSlot
    <3> QED BY <1>1, <3>1 DEF EngineState
  <2>5. CASE Finalize
    <3>1. engine' = AfterSlot
      BY <2>1, <2>5 DEF Finalize
    <3> QED BY <1>1, <3>1 DEF AfterSlot, EngineState
  <2>6. CASE EndRepair
    BY <1>1, <2>6 DEF EndRepair, EngineState
  <2>7. CASE FetchSlot
    <3>1. PICK n, d : engine' = [engine EXCEPT !.fetch = n, !.todo = d]
      BY <2>7, Zenon DEF FetchSlot
    <3>2. engine.at = "repair"
      BY <2>7, Zenon DEF FetchSlot, Fetching
    <3> QED BY <1>1, <3>1, <3>2 DEF EngineState
  <2>8. CASE RepairSlot
    <3>1. PICK u, d : engine' = [engine EXCEPT !.at = "upsert", !.todo = d, !.update = u]
      BY <2>1, <2>8, Zenon DEF RepairSlot
    <3> QED BY <1>1, <3>1 DEF EngineState
  <2>9. CASE RepairEvent
    <3>1. PICK d : engine' = [engine EXCEPT !.todo = d]
      BY <2>9, Zenon DEF RepairEvent
    <3>2. engine.at = "repair"
      BY <2>9, Zenon DEF RepairEvent, Ingests
    <3> QED BY <1>1, <3>1, <3>2 DEF EngineState
  <2> QED BY <1>3, <2>3, <2>4, <2>5, <2>6, <2>7, <2>8, <2>9, Zenon DEF EngineStep
<1> QED BY <1>2, <1>3

\* The invariant is inductive, given the core invariant.
LEMMA FailsInvariant ==
    ASSUME OmitParents = {}, CoreInv, FailsInv, [Next]_vars
    PROVE  FailsInv'
<1>1. CASE Cluster
  <2>1. UNCHANGED storeVars /\ UNCHANGED engine
    BY <1>1, Zenon DEF Cluster
  <2>2. UNCHANGED rawAccounts /\ UNCHANGED slotRow
    BY <2>1, Zenon DEF storeVars
  <2>3. BlockStep /\ LogGrows
    BY <1>1, ClusterStep, ClusterLog, TypeMeans, Zenon DEF CoreInv
  <2>4. SentInv'
    BY <1>1, ClusterSent DEF FailsInv
  <2>5. TakenInv'
    BY <2>2, <2>3, LoggedStays DEF FailsInv, TakenInv, LogGrows
  <2>6. EngineFinal' /\ FailsOnlyUndated'
    BY <2>1, <2>2, <2>3, UndatedStays DEF FailsInv, EngineFinal, FailsOnlyUndated
  <2> QED BY <2>4, <2>5, <2>6 DEF FailsInv
<1>2. CASE UNCHANGED chainVars
  <2>1. UNCHANGED block /\ UNCHANGED log /\ BlockStep
    BY <1>2, ChainUntouched, Zenon DEF chainVars
  <2>2. SentInv'
    BY <2>1 DEF FailsInv, SentInv, Logged, OnChain, Frozen
  <2>3. CASE UNCHANGED storeVars /\ (UNCHANGED engine \/ engine'.at \in {"idle", "down"})
    <3>1. UNCHANGED rawAccounts /\ UNCHANGED slotRow
      BY <2>3, Zenon DEF storeVars
    <3>2. TakenInv'
      BY <2>1, <3>1 DEF FailsInv, TakenInv, Logged
    <3>3. EngineFinal' /\ FailsOnlyUndated'
      BY <2>1, <2>3, <3>1, UndatedStays DEF FailsInv, EngineFinal, FailsOnlyUndated
    <3> QED BY <2>2, <3>2, <3>3 DEF FailsInv
  <2>4. CASE EngineStep
    <3>1. FailsOnlyUndated'
      BY <2>1, <2>4, FailRefused, UndatedStays DEF FailsOnlyUndated
    <3> QED BY <2>2, <2>4, <3>1, TakenStep, EngineFinalStep DEF FailsInv
  <2>5. CASE Connect \/ Forward \/ Drop \/ UNCHANGED vars
    BY <2>3, <2>5, Zenon DEF Connect, Forward, Drop, vars
  <2>6. CASE Restart
    <3>1. UNCHANGED storeVars /\ engine'.at = "idle"
      BY <2>6 DEF Restart, Down
    <3> QED BY <2>3, <3>1
  <2>7. CASE Crash
    <3>1. UNCHANGED storeVars /\ engine'.at = "down"
      BY <2>7 DEF Crash, Stop, Down
    <3> QED BY <2>3, <3>1
  <2> QED BY <1>1, <2>4, <2>5, <2>6, <2>7, Zenon DEF Next
<1>3. Cluster \/ UNCHANGED chainVars
  BY Zenon DEF Next, Connect, Forward, Drop, Restart, Crash, EngineStep, vars
<1> QED BY <1>1, <1>2, <1>3

\* The store refuses an update of an honest cluster that names the parents for
\* one reason only: not on a replay, not on a fork, not during a repair, only
\* for a time on the finalized chain that its tables cannot express.
THEOREM FailsOnlyUndatedCorrect ==
    ASSUME OmitParents = {}
    PROVE  Spec => []FailsOnlyUndated
<1>1. Init => CoreInv /\ FailsInv
  <2> SUFFICES ASSUME Init PROVE CoreInv /\ FailsInv
    OBVIOUS
  <2>1. SentInv
    BY ContentInitially DEF ContentInv
  <2>2. rawAccounts = {} /\ engine.at = "down"
    BY DEF Init, Down
  <2> QED BY <2>1, <2>2, CoreInitially DEF FailsInv, TakenInv, EngineFinal, FailsOnlyUndated
<1>2. CoreInv /\ FailsInv /\ [Next]_vars => (CoreInv /\ FailsInv)'
  BY CoreInvariant, FailsInvariant
<1>3. FailsInv => FailsOnlyUndated
  BY DEF FailsInv
<1> QED BY <1>1, <1>2, <1>3, PTL DEF Spec


\* No finalized slot is ever heard of.
UnfinalizedInv ==
    /\ \A i \in DOMAIN log : log[i].kind = "slot" => log[i].status # "finalized"
    /\ engine.at \in {"upsert", "finalize"} => engine.update.status # "finalized"
    /\ \A s \in Slots : slotRow[s].status # "finalized"
    /\ \A a \in Addrs : proj[a] = NoRow

NothingPublished == checkpoint.finalized = 0 /\ \A a \in Addrs : proj[a] = NoRow

\* The endpoint sends no such status.
LEMMA ClusterUnfinalized ==
    ASSUME "finalized" \notin Statuses, CoreInv, UnfinalizedInv, Cluster
    PROVE  UnfinalizedInv'
<1>1. UNCHANGED storeVars /\ UNCHANGED engine
  BY Zenon DEF Cluster
<1>2. UNCHANGED slotRow /\ UNCHANGED proj
  BY <1>1, Zenon DEF storeVars
<1>3. ChainTypeOK /\ ClusterSends
  BY ClusterStep, TypeMeans, Zenon DEF CoreInv
<1>4. \/ log' = log
      \/ \E u \in Updates : log' = Append(log, u) /\ (u.kind = "slot" => u.status # "finalized")
  BY <1>3, Zenon DEF ClusterSends, SendsNothing, SendsItem, SendsStatus, SendsRoot, Sends
<1>5. \A i \in DOMAIN log' : log'[i].kind = "slot" => log'[i].status # "finalized"
  <2>1. CASE log' = log
    BY <2>1 DEF UnfinalizedInv
  <2>2. ASSUME NEW u \in Updates, log' = Append(log, u), u.kind = "slot" => u.status # "finalized"
        PROVE  \A i \in DOMAIN log' : log'[i].kind = "slot" => log'[i].status # "finalized"
    <3>1. log \in Seq(Updates)
      BY <1>3 DEF ChainTypeOK
    <3> QED BY <2>2, <3>1, AppendFacts DEF UnfinalizedInv
  <2> QED BY <1>4, <2>1, <2>2
<1> QED BY <1>1, <1>2, <1>5 DEF UnfinalizedInv

\* So that no row becomes final, and nothing is applied.
LEMMA EngineUnfinalized ==
    ASSUME CoreInv, UnfinalizedInv, EngineStep
    PROVE  UnfinalizedInv'
<1>1. /\ engine \in EngineState /\ StoreTypeOK /\ UpdateInv /\ UNCHANGED log /\ UNCHANGED chainVars
      /\ TypeOK /\ ChainInv /\ RepairInv
  BY TypeMeans, Zenon DEF CoreInv, EngineStep, chainVars
<1>2. StoreCall
  BY StoreCalls DEF CoreInv
<1>3. engine.at # "finalize" /\ \A s \in Slots : ~Finalizes(s)
  BY <1>1 DEF UnfinalizedInv, UpdateInv, Finalizes
<1>4. \A s \in Slots : slotRow'[s].status # "finalized"
  <2>1. SlotChange
    BY <1>1, <1>2, SlotChanges
  <2>2. ASSUME NEW u \in Updates, Upserts(u) PROVE Updated(u).status # "finalized"
    BY <2>2 DEF Updated, Upserts, UnfinalizedInv
  <2> QED BY <1>3, <2>1, <2>2 DEF SlotChange, UnfinalizedInv
<1>5. UNCHANGED proj
  <2>1. ASSUME NEW u \in Updates, Upserts(u) PROVE UNCHANGED proj
    BY <2>1, Zenon DEF Upserts, UpsertSlot
  <2>2. ASSUME NEW u \in Updates, TakesAccount(u) PROVE UNCHANGED proj
    <3>1. u.version.slot \in Slots /\ InsertAccount(u.version, "processed")
      BY <2>2, UpdateFacts, VersionFacts DEF TakesAccount
    <3>2. ~ApplyNow(u.version, "processed")
      BY <3>1 DEF ApplyNow, UnfinalizedInv
    <3> QED BY <3>1, <3>2 DEF InsertAccount
  <2>3. ASSUME NEW t \in Txs, NEW s \in Slots, NEW c \in {"processed", "confirmed"},
               InsertEvent(t, s, c)
        PROVE  UNCHANGED proj
    BY <2>3, Zenon DEF InsertEvent
  <2> QED BY <1>2, <1>3, <2>1, <2>2, <2>3, Zenon DEF StoreCall, OnlyGaps
<1>6. engine'.at \in {"upsert", "finalize"} => engine'.update.status # "finalized"
  <2>1. CASE Fail
    BY <2>1, FailStops
  <2>2. CASE TakeSlot
    <3>1. queue # <<>> /\ queue \in Seq(Updates) /\ Received.kind = "slot"
      BY <2>2, TypeMeans DEF TakeSlot, Take, Waiting, CoreInv, FeedTypeOK
    <3>2. PICK u : u = Received /\ \E i \in DOMAIN log : u = log[i]
      <4>1. 1 \in DOMAIN queue /\ Received = queue[1]
        BY <3>1, HeadFacts DEF Received
      <4> QED BY <4>1 DEF CoreInv, QueueInv
    <3>3. PICK l, g, f : engine' = [engine EXCEPT !.at = "upsert", !.update = u,
                                      !.last = l, !.gap = g, !.fetch = f]
      BY <2>2, <3>2, Zenon DEF TakeSlot
    <3> QED BY <1>1, <3>1, <3>2, <3>3 DEF EngineState, UnfinalizedInv
  <2>3. CASE Upsert /\ ~Fail
    <3>1. /\ engine.at = "upsert"
          /\ engine' = IF engine.update.status = "finalized"
                       THEN [engine EXCEPT !.at = "finalize"] ELSE AfterSlot
      BY <2>3, Zenon DEF Upsert
    <3>2. engine' = AfterSlot
      BY <3>1 DEF UnfinalizedInv
    <3> QED BY <1>1, <3>2 DEF AfterSlot, EngineState
  <2>4. CASE (TakeAccount \/ TakeEvent) /\ ~Fail
    <3>1. engine' = engine \/ Fail
      BY <2>4, Zenon DEF TakeAccount, TakeEvent
    <3> QED BY <2>4, <3>1 DEF UnfinalizedInv
  <2>5. CASE Finalize
    BY <1>3, <2>5, Zenon DEF Finalize
  <2>6. CASE EndRepair
    BY <1>1, <2>6 DEF EndRepair, EngineState
  <2>7. CASE FetchSlot
    <3>1. PICK n, d : engine' = [engine EXCEPT !.fetch = n, !.todo = d]
      BY <2>7, Zenon DEF FetchSlot
    <3> QED BY <1>1, <3>1 DEF EngineState, UnfinalizedInv
  <2>8. CASE RepairSlot /\ ~Fail
    <3>1. PICK f, p, d : engine' = [engine EXCEPT !.at = "upsert", !.todo = d,
                                      !.update = SlotUpdate(f, p, "confirmed")]
      BY <2>8, Zenon DEF RepairSlot
    <3> QED BY <1>1, <3>1 DEF EngineState, SlotUpdate
  <2>9. CASE RepairEvent
    <3>1. PICK d : engine' = [engine EXCEPT !.todo = d]
      BY <2>9, Zenon DEF RepairEvent
    <3> QED BY <1>1, <3>1 DEF EngineState, UnfinalizedInv
  <2> QED BY <2>1, <2>2, <2>3, <2>4, <2>5, <2>6, <2>7, <2>8, <2>9, Zenon DEF EngineStep
<1> QED BY <1>1, <1>4, <1>5, <1>6 DEF UnfinalizedInv

\* An endpoint that reads filter_by_commitment, which the request sets with the
\* processed commitment, as "no finalized statuses" leaves the index without a
\* checkpoint and without a public row: finality has no other source here.
THEOREM NothingPublishedWithoutStatuses ==
    ASSUME "finalized" \notin Statuses
    PROVE  Spec => []NothingPublished
<1>1. Init => CoreInv /\ UnfinalizedInv
  <2> SUFFICES ASSUME Init PROVE UnfinalizedInv
    BY CoreInitially
  <2>1. StartSlot = 0
    BY IndexerAssumption, StoreAssumption
  <2>2. DOMAIN log = {} /\ engine.at = "down"
    BY <2>1 DEF Init, Down
  <2>3. /\ \A s \in Slots : slotRow[s].status # "finalized"
        /\ \A a \in Addrs : proj[a] = NoRow
    BY <2>1, SlotFacts DEF Init
  <2> QED BY <2>2, <2>3 DEF UnfinalizedInv
<1>2. CoreInv /\ UnfinalizedInv /\ [Next]_vars => (CoreInv /\ UnfinalizedInv)'
  <2> SUFFICES ASSUME CoreInv, UnfinalizedInv, [Next]_vars PROVE UnfinalizedInv'
    BY CoreInvariant
  <2>1. CASE Connect \/ Forward \/ Drop \/ UNCHANGED vars
    <3>1. UNCHANGED <<log, engine, slotRow, proj>>
      BY <2>1, Zenon DEF Connect, Forward, Drop, vars, storeVars, chainVars
    <3> QED BY <3>1 DEF UnfinalizedInv
  <2>2. CASE Restart \/ Crash
    <3>1. UNCHANGED <<log, slotRow, proj>>
      BY <2>2, Zenon DEF Restart, Crash, storeVars, chainVars
    <3>2. engine'.at \in {"idle", "down"}
      BY <2>2 DEF Restart, Crash, Stop, Down
    <3> QED BY <3>1, <3>2 DEF UnfinalizedInv
  <2> QED BY <2>1, <2>2, ClusterUnfinalized, EngineUnfinalized, Zenon DEF Next
<1>3. CoreInv /\ UnfinalizedInv => NothingPublished
  <2> SUFFICES ASSUME CoreInv, UnfinalizedInv PROVE checkpoint.finalized = 0
    BY DEF UnfinalizedInv, NothingPublished
  <2>1. checkpoint.finalized \in 0 .. MaxSlot
    BY CheckpointFacts DEF CoreInv
  <2> QED BY <2>1, StoreAssumption DEF CoreInv, CheckpointSound, UnfinalizedInv, Slots
<1> QED BY <1>1, <1>2, <1>3, PTL DEF Spec

==============================================================================
