----------------------------- MODULE StoreProofs -----------------------------
(***************************************************************************)
(* Proofs about the indexer's tables under any sequence of calls, for any   *)
(* number of slots, accounts, versions and transactions.                    *)
(***************************************************************************)
EXTENDS ProjectionStore, WellFoundedInduction, TLAPS

SlotRows == [Slots -> [status: Commitments \cup {"none"}, parent: Parents]]
Checkpoints == [finalized: 0 .. MaxSlot, processed: 0 .. MaxSlot]

\* The slot table and the checkpoint have their types.
SlotsTypeOK ==
    /\ slotRow \in SlotRows
    /\ checkpoint \in Checkpoints

\* What a single step may do to a slot and to the checkpoint.
SlotStep ==
    /\ \A s \in Slots :
         /\ slotRow[s].status = "finalized" => slotRow'[s] = slotRow[s]
         /\ slotRow[s].status = "dead" => slotRow'[s].status = "dead"
         /\ slotRow[s].parent # NoParent => slotRow'[s].parent = slotRow[s].parent
    /\ checkpoint.finalized <= checkpoint'.finalized
    /\ checkpoint.processed <= checkpoint'.processed

\* What the store asks of a slot update, whatever else the update carries.
IsSlotUpdate(u) == u.slot \in Slots /\ u.parent \in Parents /\ u.status \in Commitments

\* The row that an accepted update writes.
Updated(u) == [status |-> u.status,
               parent |-> IF slotRow[u.slot].parent = NoParent THEN u.parent
                          ELSE slotRow[u.slot].parent]

\* The greater of two slots.
LEMMA GreatestFacts ==
    ASSUME NEW i \in 0 .. MaxSlot, NEW j \in 0 .. MaxSlot
    PROVE  /\ Greatest(i, j) \in 0 .. MaxSlot
           /\ i <= Greatest(i, j) /\ j <= Greatest(i, j)
           /\ Greatest(i, j) \in {i, j}
BY StoreAssumption DEF Greatest

\* An update from the source is an update of a slot.
LEMMA SlotUpdateFacts ==
    ASSUME NEW u \in SlotUpdates
    PROVE  IsSlotUpdate(u)
BY DEF SlotUpdates, IsSlotUpdate

\* The row an update leaves: its status, and the parent that was recorded first.
LEMMA UpdatedFacts ==
    ASSUME SlotsTypeOK, NEW u, IsSlotUpdate(u)
    PROVE  /\ u.slot \in Slots /\ u.slot \in 0 .. MaxSlot /\ u.status \in Commitments
           /\ Updated(u) \in [status: Commitments \cup {"none"}, parent: Parents]
           /\ Updated(u).status = u.status
           /\ slotRow[u.slot].parent # NoParent =>
                 Updated(u).parent = slotRow[u.slot].parent
           /\ [slotRow EXCEPT ![u.slot] = Updated(u)] \in SlotRows
           /\ [slotRow EXCEPT ![u.slot] = Updated(u)][u.slot] = Updated(u)
           /\ \A s \in Slots : s # u.slot =>
                 [slotRow EXCEPT ![u.slot] = Updated(u)][s] = slotRow[s]
<1>1. u.slot \in Slots /\ u.parent \in Parents /\ u.status \in Commitments
  BY DEF IsSlotUpdate
<1>2. u.slot \in 0 .. MaxSlot
  BY <1>1, StoreAssumption DEF Slots
<1>3. slotRow[u.slot].parent \in Parents
  BY <1>1 DEF SlotsTypeOK, SlotRows
<1>4. Updated(u) \in [status: Commitments \cup {"none"}, parent: Parents]
  BY <1>1, <1>3 DEF Updated
<1>5. Updated(u).status = u.status
  BY DEF Updated
<1>6. slotRow[u.slot].parent # NoParent => Updated(u).parent = slotRow[u.slot].parent
  BY DEF Updated
<1> HIDE DEF Updated
<1> QED BY <1>1, <1>2, <1>4, <1>5, <1>6 DEF SlotsTypeOK, SlotRows

\* An update is refused or writes one row and moves the processed checkpoint.
LEMMA UpsertEffect ==
    ASSUME SlotsTypeOK, NEW u, IsSlotUpdate(u), UpsertSlot(u)
    PROVE  \/ UNCHANGED <<slotRow, checkpoint>>
           \/ /\ UpsertAccepted(u)
              /\ Known(u.slot) => CanUpgrade(slotRow[u.slot].status, u.status)
              /\ slotRow' = [slotRow EXCEPT ![u.slot] = Updated(u)]
              /\ \/ u.status = "dead" /\ checkpoint' = checkpoint
                 \/ /\ u.status # "dead"
                    /\ checkpoint' \in Checkpoints
                    /\ checkpoint'.finalized = checkpoint.finalized
                    /\ checkpoint'.processed = Greatest(checkpoint.processed, u.slot)
<1>1. CASE Known(u.slot) /\ ~CanUpgrade(slotRow[u.slot].status, u.status)
  BY <1>1, Zenon DEF UpsertSlot
<1>2. CASE ~(Known(u.slot) /\ ~CanUpgrade(slotRow[u.slot].status, u.status))
  <2>1. UpsertAccepted(u) /\ (Known(u.slot) => CanUpgrade(slotRow[u.slot].status, u.status))
    BY <1>2, Zenon DEF UpsertSlot
  <2>2. slotRow' = [slotRow EXCEPT ![u.slot] = Updated(u)]
    BY <1>2, Zenon DEF UpsertSlot, Updated
  <2>3. CASE u.status = "dead"
    BY <1>2, <2>1, <2>2, <2>3, Zenon DEF UpsertSlot
  <2>4. CASE u.status # "dead"
    <3>1. checkpoint' = [checkpoint EXCEPT !.processed = Greatest(checkpoint.processed, u.slot)]
      BY <1>2, <2>4, Zenon DEF UpsertSlot
    <3> DEFINE p == Greatest(checkpoint.processed, u.slot)
    <3>2. p \in 0 .. MaxSlot
      BY GreatestFacts, UpdatedFacts DEF SlotsTypeOK, Checkpoints
    <3>3. checkpoint' = [checkpoint EXCEPT !.processed = p]
      BY <3>1
    <3> HIDE DEF p
    <3>4. /\ checkpoint' \in Checkpoints
          /\ checkpoint'.finalized = checkpoint.finalized
          /\ checkpoint'.processed = p
      BY <3>2, <3>3 DEF SlotsTypeOK, Checkpoints
    <3> QED BY <2>1, <2>2, <2>4, <3>4, Zenon DEF p
  <2> QED BY <2>3, <2>4
<1> QED BY <1>1, <1>2

\* A slot update, accepted or ignored, takes nothing back.
LEMMA UpsertStep ==
    ASSUME SlotsTypeOK, CheckpointSound, NEW u, IsSlotUpdate(u), UpsertSlot(u)
    PROVE  SlotsTypeOK' /\ CheckpointSound' /\ SlotStep
<1>1. CASE UNCHANGED <<slotRow, checkpoint>>
  BY <1>1 DEF SlotsTypeOK, SlotRows, Checkpoints, CheckpointSound, SlotStep, Known
<1>2. CASE /\ UpsertAccepted(u)
           /\ Known(u.slot) => CanUpgrade(slotRow[u.slot].status, u.status)
           /\ slotRow' = [slotRow EXCEPT ![u.slot] = Updated(u)]
           /\ \/ u.status = "dead" /\ checkpoint' = checkpoint
              \/ /\ u.status # "dead"
                 /\ checkpoint' \in Checkpoints
                 /\ checkpoint'.finalized = checkpoint.finalized
                 /\ checkpoint'.processed = Greatest(checkpoint.processed, u.slot)
  <2>1. /\ u.slot \in Slots /\ u.slot \in 0 .. MaxSlot /\ u.status \in Commitments
        /\ slotRow' \in SlotRows
        /\ slotRow'[u.slot].status = u.status
        /\ slotRow[u.slot].parent # NoParent => slotRow'[u.slot].parent = slotRow[u.slot].parent
        /\ \A s \in Slots : s # u.slot => slotRow'[s] = slotRow[s]
    BY <1>2, UpdatedFacts, Zenon
  <2>2. checkpoint \in Checkpoints /\ checkpoint' \in Checkpoints
    BY <1>2 DEF SlotsTypeOK
  <2>3. /\ checkpoint'.finalized = checkpoint.finalized
        /\ checkpoint'.processed = checkpoint.processed
             \/ (checkpoint'.processed = u.slot /\ u.status # "dead")
        /\ checkpoint.processed <= checkpoint'.processed
    <3>1. checkpoint.processed \in 0 .. MaxSlot /\ checkpoint'.processed \in 0 .. MaxSlot
      BY <2>2 DEF Checkpoints
    <3>2. CASE checkpoint' = checkpoint
      BY <3>1, <3>2
    <3>3. CASE /\ u.status # "dead"
               /\ checkpoint'.finalized = checkpoint.finalized
               /\ checkpoint'.processed = Greatest(checkpoint.processed, u.slot)
      BY <3>1, <3>3, <2>1, GreatestFacts, Zenon
    <3> QED BY <1>2, <3>2, <3>3, Zenon
  <2>4. ASSUME slotRow[u.slot].status = "finalized"
        PROVE  slotRow'[u.slot] = slotRow[u.slot]
    <3>1. u.status = "finalized" /\ ~ParentConflict(u)
      BY <1>2, <2>4 DEF UpsertAccepted, CanUpgrade, Known
    <3>2. Updated(u) = [status |-> "finalized", parent |-> slotRow[u.slot].parent]
      BY <3>1, <2>4 DEF Updated, ParentConflict
    <3>3. slotRow[u.slot] \in [status: Commitments \cup {"none"}, parent: Parents]
      BY <2>1 DEF SlotsTypeOK, SlotRows
    <3>4. Updated(u) = slotRow[u.slot]
      BY <3>2, <3>3, <2>4
    <3> QED BY <1>2, <2>1, <3>4, UpdatedFacts, Zenon
  <2>5. slotRow[u.slot].status = "dead" => u.status = "dead"
    BY <1>2 DEF CanUpgrade, Known
  <2>6. SlotStep
    BY <2>1, <2>2, <2>3, <2>4, <2>5 DEF SlotStep, Checkpoints
  <2>7. SlotsTypeOK'
    BY <2>1, <2>2 DEF SlotsTypeOK
  <2>8. \A s \in Slots : Known(s) => slotRow'[s].status # "none"
    BY <2>1 DEF Known, Commitments
  <2>9. slotRow'[u.slot].status # "none"
    BY <2>1 DEF Commitments
  <2>10. CheckpointSound'
    BY <2>1, <2>2, <2>3, <2>4, <2>8, <2>9 DEF CheckpointSound, Known, Checkpoints
  <2> QED BY <2>6, <2>7, <2>10
<1> QED BY <1>1, <1>2, UpsertEffect, Zenon

\* Finalization keeps slots and checkpoint sound.
LEMMA FinalizeStep ==
    ASSUME SlotsTypeOK, CheckpointSound, NEW n \in Slots, FinalizeSlot(n)
    PROVE  SlotsTypeOK' /\ CheckpointSound' /\ SlotStep
<1>1. n \in 0 .. MaxSlot
  BY StoreAssumption DEF Slots
<1>2. slotRow[n].status \notin {"none", "dead"}
  BY DEF FinalizeSlot, FinalizeAccepted, Known
<1>3. slotRow' = [slotRow EXCEPT ![n].status = "finalized"]
  BY Zenon DEF FinalizeSlot
<1>4. /\ slotRow' \in SlotRows
      /\ slotRow'[n].status = "finalized" /\ slotRow'[n].parent = slotRow[n].parent
      /\ slotRow[n].status = "finalized" => slotRow'[n] = slotRow[n]
      /\ \A s \in Slots : s # n => slotRow'[s] = slotRow[s]
  BY <1>3 DEF SlotsTypeOK, SlotRows, Commitments
<1> DEFINE f == Greatest(checkpoint.finalized, n)
           p == Greatest(checkpoint.processed, n)
<1>5. checkpoint \in Checkpoints
  BY DEF SlotsTypeOK
<1>6. /\ f \in 0 .. MaxSlot /\ checkpoint.finalized <= f /\ f \in {checkpoint.finalized, n}
      /\ p \in 0 .. MaxSlot /\ checkpoint.processed <= p /\ p \in {checkpoint.processed, n}
      /\ n <= p
  BY <1>1, <1>5, GreatestFacts DEF Checkpoints
<1>7. checkpoint' = [finalized |-> f, processed |-> p]
  BY Zenon DEF FinalizeSlot
<1> HIDE DEF f, p
<1>8. checkpoint' \in Checkpoints /\ checkpoint'.finalized = f /\ checkpoint'.processed = p
  BY <1>6, <1>7 DEF Checkpoints
<1>9. SlotsTypeOK'
  BY <1>4, <1>8 DEF SlotsTypeOK
<1>10. SlotStep
  BY <1>2, <1>4, <1>6, <1>8 DEF SlotStep
<1>11. CheckpointSound'
  BY <1>1, <1>2, <1>4, <1>5, <1>6, <1>8 DEF CheckpointSound, Known, Checkpoints
<1> QED BY <1>9, <1>10, <1>11

\* No other call touches the slots or the checkpoint.
LEMMA SlotsUntouched ==
    ASSUME SlotsTypeOK, CheckpointSound, UNCHANGED <<slotRow, checkpoint>>
    PROVE  SlotsTypeOK' /\ CheckpointSound' /\ SlotStep
BY DEF SlotsTypeOK, CheckpointSound, SlotStep, Known, SlotRows, Checkpoints

\* Slots and checkpoint stay sound in every step of the store.
LEMMA SlotsInvariant ==
    ASSUME SlotsTypeOK, CheckpointSound, [StoreNext]_storeVars
    PROVE  SlotsTypeOK' /\ CheckpointSound' /\ SlotStep
<1>1. CASE UNCHANGED storeVars
  BY <1>1, SlotsUntouched, Zenon DEF storeVars
<1>2. ASSUME NEW u \in SlotUpdates, UpsertSlot(u)
      PROVE  SlotsTypeOK' /\ CheckpointSound' /\ SlotStep
  BY <1>2, UpsertStep, SlotUpdateFacts, Zenon
<1>3. ASSUME NEW v \in Versions, NEW c \in Commitments, InsertAccount(v, c)
      PROVE  SlotsTypeOK' /\ CheckpointSound' /\ SlotStep
  BY <1>3, SlotsUntouched, Zenon DEF InsertAccount
<1>4. ASSUME NEW t \in Txs, NEW s \in Slots, NEW c \in Commitments, InsertEvent(t, s, c)
      PROVE  SlotsTypeOK' /\ CheckpointSound' /\ SlotStep
  BY <1>4, SlotsUntouched, Zenon DEF InsertEvent
<1>5. ASSUME NEW s \in Slots, FinalizeSlot(s)
      PROVE  SlotsTypeOK' /\ CheckpointSound' /\ SlotStep
  BY <1>5, FinalizeStep, Zenon
<1> QED BY <1>1, <1>2, <1>3, <1>4, <1>5, Zenon DEF StoreNext

\* An empty database is sound.
LEMMA SlotsInitially ==
    ASSUME StoreInit
    PROVE  SlotsTypeOK /\ CheckpointSound
BY StoreAssumption
   DEF StoreInit, SlotsTypeOK, SlotRows, Checkpoints, CheckpointSound, Slots, Parents

\* The checkpoint that the next session resumes from is a finalized slot and is
\* never ahead of the processed one, whatever calls the store has taken.
THEOREM CheckpointCorrect == StoreSpec => []CheckpointSound
BY SlotsInitially, SlotsInvariant, PTL DEF StoreSpec

\* No sequence of notifications takes a slot back.
THEOREM SlotsSettleCorrect == StoreSpec => SlotsSettle
<1>1. SlotStep => [SlotStep]_storeVars
  OBVIOUS
<1>2. StoreSpec => [][SlotStep]_storeVars
  BY SlotsInitially, SlotsInvariant, PTL DEF StoreSpec
<1> QED BY <1>2 DEF SlotsSettle, SlotStep

(***************************************************************************)
(* Staged versions and public rows.                                        *)
(***************************************************************************)

RowsTypeOK ==
    /\ rawAccounts \subseteq Stored
    /\ staged \subseteq Versions
    /\ proj \in [Addrs -> Versions \cup {NoRow}]

RowsInv == RowsTypeOK /\ StagedIsPending /\ ProjectionBacked

\* The finalized raw row of a version.
FinalRow(v) == [version |-> v, commitment |-> "finalized"]

\* The raw row of a finalized version.
LEMMA FinalRowFacts ==
    ASSUME NEW v \in Versions
    PROVE  /\ FinalRow(v) \in Stored
           /\ FinalRow(v).version = v /\ FinalRow(v).commitment = "finalized"
BY DEF FinalRow, Stored, Commitments

\* Promoting a raw row gives the finalized row of its version.
LEMMA StoredFacts ==
    ASSUME NEW r \in Stored
    PROVE  /\ r.version \in Versions
           /\ [r EXCEPT !.commitment = "finalized"] = FinalRow(r.version)
           /\ r.commitment = "finalized" => r = FinalRow(r.version)
BY DEF FinalRow, Stored

\* The fields of a version have their types.
LEMMA VersionFacts ==
    ASSUME NEW v \in Versions
    PROVE  /\ v.addr \in Addrs /\ v.slot \in Slots /\ v.write \in 1 .. MaxVersion
           /\ v.op \in {"write", "undated", "delete", "other"}
           /\ v # NoRow
BY StoreAssumption DEF Versions, Ops

\* Backing and pending, said of the rows.
LEMMA BackedMeans ==
    ProjectionBacked <=>
        \A a \in Addrs : proj[a] # NoRow =>
            proj[a].addr = a /\ proj[a].op = "write" /\ FinalRow(proj[a]) \in rawAccounts
BY DEF ProjectionBacked, FinalRow

\* Nothing of a dead slot that is finalized goes, and nothing pending of it stays.
LEMMA CleanupStep ==
    ASSUME RowsInv, NEW s \in Slots, CleanupDeadSlot(s), UNCHANGED proj
    PROVE  RowsInv'
<1>1. /\ rawAccounts' = {r \in rawAccounts : r.version.slot = s => r.commitment = "finalized"}
      /\ staged' = {v \in staged : v.slot # s}
  BY Zenon DEF CleanupDeadSlot
<1>2. RowsTypeOK'
  BY <1>1 DEF RowsInv, RowsTypeOK
<1>3. StagedIsPending'
  <2>1. ASSUME NEW v \in staged'
        PROVE  v.op # "other" /\ \E r \in rawAccounts' : r.version = v /\ r.commitment # "finalized"
    <3>1. v \in staged /\ v.slot # s
      BY <1>1
    <3>2. PICK r \in rawAccounts : r.version = v /\ r.commitment # "finalized"
      BY <3>1, Zenon DEF RowsInv, StagedIsPending
    <3>3. r \in rawAccounts'
      BY <1>1, <3>1, <3>2
    <3>4. v.op # "other"
      BY <3>1, Zenon DEF RowsInv, StagedIsPending
    <3> QED BY <3>2, <3>3, <3>4, Zenon
  <2>2. ASSUME NEW r \in rawAccounts', r.version.op # "other", r.commitment # "finalized"
        PROVE  r.version \in staged'
    BY <1>1, <2>2 DEF RowsInv, StagedIsPending
  <2> QED BY <2>1, <2>2, Zenon DEF StagedIsPending
<1>4. ProjectionBacked'
  <2>1. SUFFICES ASSUME NEW a \in Addrs, proj[a] # NoRow
                 PROVE  proj[a].addr = a /\ proj[a].op = "write"
                        /\ FinalRow(proj[a]) \in rawAccounts'
    BY Zenon DEF ProjectionBacked, FinalRow
  <2>2. proj[a].addr = a /\ proj[a].op = "write" /\ FinalRow(proj[a]) \in rawAccounts
    BY <2>1, BackedMeans, Zenon DEF RowsInv
  <2>3. proj[a] \in Versions
    BY <2>1 DEF RowsInv, RowsTypeOK
  <2>4. FinalRow(proj[a]).commitment = "finalized"
    BY <2>3, FinalRowFacts, Zenon
  <2> QED BY <1>1, <2>2, <2>4, Zenon
<1> QED BY <1>2, <1>3, <1>4 DEF RowsInv

\* Steps outside raw, staged and public rows.
LEMMA RowsUntouched ==
    ASSUME RowsInv, UNCHANGED <<rawAccounts, staged, proj>>
    PROVE  RowsInv'
BY Zenon DEF RowsInv, RowsTypeOK, StagedIsPending, ProjectionBacked

\* A slot update touches no row but those of a slot that is found dead.
LEMMA UpsertRows ==
    ASSUME RowsInv, NEW u, IsSlotUpdate(u), UpsertSlot(u)
    PROVE  RowsInv'
<1>1. u.slot \in Slots
  BY DEF IsSlotUpdate
<1>2. \/ UNCHANGED <<rawAccounts, staged, proj>>
      \/ CleanupDeadSlot(u.slot) /\ UNCHANGED proj
  BY Zenon DEF UpsertSlot
<1> QED BY <1>1, <1>2, CleanupStep, RowsUntouched, Zenon

\* An inserted version is staged, projected at once, or a duplicate.
LEMMA InsertRows ==
    ASSUME RowsInv, NEW v \in Versions, NEW c \in Commitments, InsertAccount(v, c)
    PROVE  RowsInv'
<1>1. CASE Duplicate(v)
  BY <1>1, RowsUntouched, Zenon DEF InsertAccount
<1>2. CASE ~Duplicate(v) /\ ApplyNow(v, c)
  <2>1. rawAccounts' = rawAccounts \cup {FinalRow(v)} /\ staged' = staged
    BY <1>2, Zenon DEF InsertAccount, FinalRow
  <2>2. \/ proj' = proj
        \/ v.op # "other" /\ proj' = [proj EXCEPT ![v.addr] = Applied(v, proj[v.addr])]
    BY <1>2, Zenon DEF InsertAccount, ApplyProjection
  <2>3. /\ v.addr \in Addrs /\ v \in Versions /\ proj[v.addr] \in Versions \cup {NoRow}
        /\ v.op \in {"write", "undated", "delete", "other"}
    BY VersionFacts DEF RowsInv, RowsTypeOK
  <2>0. v.op # "undated"
    BY <1>2, Zenon DEF InsertAccount, InsertAccepted, Projectable
  <2>4. \/ Applied(v, proj[v.addr]) \in {NoRow, proj[v.addr]}
        \/ Applied(v, proj[v.addr]) = v /\ v.op # "delete"
    BY Zenon DEF Applied
  <2>5. ASSUME NEW a \in Addrs
        PROVE  proj'[a] \in {NoRow, proj[a]} \/ (proj'[a] = v /\ v.op = "write" /\ a = v.addr)
    <3> DEFINE n == Applied(v, proj[v.addr])
    <3>1. proj' = proj \/ (v.op # "other" /\ proj' = [proj EXCEPT ![v.addr] = n])
      BY <2>2, Zenon
    <3>2. n \in {NoRow, proj[v.addr]} \/ (n = v /\ v.op # "delete")
      BY <2>4, Zenon
    <3> HIDE DEF n
    <3> QED BY <2>0, <2>3, <2>5, <3>1, <3>2 DEF RowsInv, RowsTypeOK
  <2>6. proj' \in [Addrs -> Versions \cup {NoRow}]
    <3> DEFINE n == Applied(v, proj[v.addr])
    <3>1. proj' = proj \/ proj' = [proj EXCEPT ![v.addr] = n]
      BY <2>2, Zenon
    <3>2. n \in Versions \cup {NoRow}
      BY <2>3, <2>4
    <3> HIDE DEF n
    <3> QED BY <2>3, <3>1, <3>2 DEF RowsInv, RowsTypeOK
  <2>7. RowsTypeOK'
    BY <2>1, <2>6, FinalRowFacts DEF RowsInv, RowsTypeOK
  <2>8. StagedIsPending'
    BY <2>1, FinalRowFacts, ZenonT(60) DEF RowsInv, StagedIsPending
  <2>9. ProjectionBacked'
    <3>1. SUFFICES ASSUME NEW a \in Addrs, proj'[a] # NoRow
                   PROVE  proj'[a].addr = a /\ proj'[a].op = "write"
                          /\ FinalRow(proj'[a]) \in rawAccounts'
      BY Zenon DEF ProjectionBacked, FinalRow
    <3>2. CASE proj'[a] = proj[a]
      <4>1. proj[a].addr = a /\ proj[a].op = "write" /\ FinalRow(proj[a]) \in rawAccounts
        BY <3>1, <3>2, BackedMeans, Zenon DEF RowsInv
      <4> QED BY <2>1, <3>2, <4>1, Zenon
    <3>3. CASE proj'[a] = v /\ v.op = "write" /\ a = v.addr
      BY <2>1, <3>3, Zenon
    <3> QED BY <2>5, <3>1, <3>2, <3>3, Zenon
  <2> QED BY <2>7, <2>8, <2>9 DEF RowsInv
<1>3. CASE ~Duplicate(v) /\ ~ApplyNow(v, c)
  <2> DEFINE r0 == [version |-> v, commitment |-> c]
  <2>1. c # "finalized" /\ c # "dead"
    BY <1>3, Zenon DEF InsertAccount, InsertAccepted, ApplyNow
  <2>2. /\ rawAccounts' = rawAccounts \cup {r0}
        /\ proj' = proj
        /\ staged' = IF v.op # "other" THEN staged \cup {v} ELSE staged
    BY <1>3, Zenon DEF InsertAccount
  <2>3. r0 \in Stored /\ r0.version = v /\ r0.commitment = c
    BY <2>1 DEF Stored
  <2> HIDE DEF r0
  <2>4. RowsTypeOK'
    BY <2>2, <2>3 DEF RowsInv, RowsTypeOK
  <2>5. StagedIsPending'
    BY <2>1, <2>2, <2>3, Zenon DEF RowsInv, StagedIsPending
  <2>6. ProjectionBacked'
    BY <2>2, Zenon DEF RowsInv, ProjectionBacked
  <2> QED BY <2>4, <2>5, <2>6 DEF RowsInv
<1> QED BY <1>1, <1>2, <1>3

\* A set of numbers up to a bound has a greatest one.
LEMMA GreatestOf ==
    ASSUME NEW m \in Nat, NEW T, T \subseteq 0 .. m, T # {}
    PROVE  \E x \in T : \A y \in T : x >= y
<1> DEFINE D == {m - x : x \in T}
<1>1. D \subseteq Nat /\ D # {}
  <2>1. \A x \in T : m - x \in Nat
    OBVIOUS
  <2> QED BY <2>1, Zenon
<1> DEFINE R == OpToRel(<, Nat)
<1>2. IsWellFoundedOn(R, Nat)
  BY NatLessThanWellFounded
<1>3. \A x, y \in Nat : x < y => <<x, y>> \in R
  BY DEF OpToRel
<1> HIDE DEF R, D
<1>4. PICK d \in D : \A e \in D : ~(<<e, d>> \in R)
  BY <1>1, <1>2, WFMin, Zenon
<1>5. ASSUME NEW e \in D
      PROVE  d <= e
  <2>1. d \in Nat /\ e \in Nat
    BY <1>1
  <2>2. ~(e < d)
    BY <1>3, <1>4, <2>1, Zenon
  <2> QED BY <2>1, <2>2
<1>6. PICK x \in T : d = m - x
  BY DEF D
<1>7. ASSUME NEW y \in T
      PROVE  x >= y
  <2>1. m - y \in D
    BY DEF D
  <2> QED BY <1>5, <1>6, <2>1
<1> QED BY <1>7

\* The last staged version of an address and slot is staged.
LEMMA LastStagedFacts ==
    ASSUME RowsTypeOK, NEW s \in Slots, NEW a \in Addrs, LastStaged(s, a) # NoRow
    PROVE  /\ LastStaged(s, a) \in staged
           /\ LastStaged(s, a).slot = s /\ LastStaged(s, a).addr = a
<1> DEFINE rows == {v \in staged : v.slot = s /\ v.addr = a}
           W == {v.write : v \in rows}
<1>1. rows # {}
  BY Zenon DEF LastStaged
<1>2. \A v \in rows : v.write \in 0 .. MaxVersion
  BY VersionFacts, StoreAssumption DEF RowsTypeOK
<1>3. W \subseteq 0 .. MaxVersion /\ W # {} /\ MaxVersion \in Nat
  BY <1>1, <1>2, StoreAssumption
<1>4. PICK x \in W : \A y \in W : x >= y
  BY <1>3, GreatestOf, Zenon
<1>5. \E v \in rows : \A w \in rows : v.write >= w.write
  BY <1>4
<1>6. LastStaged(s, a) = CHOOSE v \in rows : \A w \in rows : v.write >= w.write
  BY <1>1, Zenon DEF LastStaged
<1>7. LastStaged(s, a) \in rows
  BY <1>5, <1>6, Zenon
<1> QED BY <1>7

\* Finalization projects staged versions, each of which has its raw row.
LEMMA FinalizeRows ==
    ASSUME RowsInv, NEW s \in Slots, FinalizeSlot(s)
    PROVE  RowsInv'
<1> DEFINE Row(r) == IF r.version.slot = s THEN FinalRow(r.version) ELSE r
<1>1. \A r \in rawAccounts : r \in Stored
  BY DEF RowsInv, RowsTypeOK
<1>2. rawAccounts' = {IF r.version.slot = s THEN [r EXCEPT !.commitment = "finalized"] ELSE r :
                        r \in rawAccounts}
  BY Zenon DEF FinalizeSlot
<1>3. \A r \in rawAccounts :
          (IF r.version.slot = s THEN [r EXCEPT !.commitment = "finalized"] ELSE r) = Row(r)
  BY <1>1, StoredFacts, Zenon
<1>4. rawAccounts' = {Row(r) : r \in rawAccounts}
  BY <1>2, <1>3, Zenon
<1>5. staged' = {v \in staged : v.slot # s}
  BY Zenon DEF FinalizeSlot
<1>6. proj' = [a \in Addrs |-> IF LastStaged(s, a) = NoRow THEN proj[a]
                               ELSE Applied(LastStaged(s, a), proj[a])]
  BY Zenon DEF FinalizeSlot
<1>7. \A r \in rawAccounts : Row(r) \in Stored /\ Row(r).version = r.version
  BY <1>1, StoredFacts, FinalRowFacts, Zenon
<1>8. \A r \in rawAccounts : r.version.slot = s => Row(r).commitment = "finalized"
  BY <1>1, StoredFacts, FinalRowFacts, Zenon
<1>9. \A r \in rawAccounts : r.version.slot # s => Row(r) = r
  BY Zenon
<1>10. \A r \in rawAccounts : r.commitment = "finalized" => Row(r) = r
  BY <1>1, StoredFacts, Zenon
<1>11. \A r \in rawAccounts : r.version.slot = s => Row(r) = FinalRow(r.version)
  BY Zenon
<1> HIDE DEF Row
<1>12. \A a \in Addrs :
          \/ proj'[a] \in {NoRow, proj[a]}
          \/ /\ proj'[a] \in staged /\ proj'[a].slot = s /\ proj'[a].addr = a
             /\ proj'[a].op # "delete"
  <2> SUFFICES ASSUME NEW a \in Addrs
               PROVE  \/ proj'[a] \in {NoRow, proj[a]}
                      \/ /\ proj'[a] \in staged /\ proj'[a].slot = s /\ proj'[a].addr = a
                         /\ proj'[a].op # "delete"
    OBVIOUS
  <2>1. CASE LastStaged(s, a) = NoRow
    BY <1>6, <2>1, Zenon
  <2>2. CASE LastStaged(s, a) # NoRow
    <3> DEFINE l == LastStaged(s, a)
    <3>1. l \in staged /\ l.slot = s /\ l.addr = a
      BY <2>2, LastStagedFacts, Zenon DEF RowsInv
    <3>2. proj'[a] = Applied(l, proj[a])
      BY <1>6, <2>2, Zenon
    <3> HIDE DEF l
    <3>3. Applied(l, proj[a]) \in {NoRow, proj[a]} \/ (Applied(l, proj[a]) = l /\ l.op # "delete")
      BY Zenon DEF Applied
    <3> QED BY <3>1, <3>2, <3>3, Zenon
  <2> QED BY <2>1, <2>2
<1>13. RowsTypeOK'
  <2>1. rawAccounts' \subseteq Stored
    BY <1>4, <1>7, Zenon
  <2>2. staged' \subseteq Versions
    BY <1>5 DEF RowsInv, RowsTypeOK
  <2>3. \A a \in Addrs : proj'[a] \in Versions \cup {NoRow}
    BY <1>12, Zenon DEF RowsInv, RowsTypeOK
  <2>4. proj' = [a \in Addrs |-> proj'[a]]
    BY <1>6, Zenon
  <2>5. proj' \in [Addrs -> Versions \cup {NoRow}]
    BY <2>3, <2>4, Zenon
  <2> QED BY <2>1, <2>2, <2>5 DEF RowsTypeOK
<1>14. StagedIsPending'
  <2>1. ASSUME NEW v \in staged'
        PROVE  v.op # "other" /\ \E r \in rawAccounts' : r.version = v /\ r.commitment # "finalized"
    <3>1. v \in staged /\ v.slot # s
      BY <1>5
    <3>2. PICK r \in rawAccounts : r.version = v /\ r.commitment # "finalized"
      BY <3>1, Zenon DEF RowsInv, StagedIsPending
    <3>3. Row(r) = r /\ Row(r) \in rawAccounts'
      BY <1>4, <1>9, <3>1, <3>2, Zenon
    <3>4. v.op # "other"
      BY <3>1, Zenon DEF RowsInv, StagedIsPending
    <3> QED BY <3>2, <3>3, <3>4, Zenon
  <2>2. ASSUME NEW q \in rawAccounts', q.version.op # "other", q.commitment # "finalized"
        PROVE  q.version \in staged'
    <3>1. PICK r \in rawAccounts : q = Row(r)
      BY <1>4, Zenon
    <3>2. r.version.slot # s /\ q = r
      BY <1>8, <1>9, <2>2, <3>1, Zenon
    <3>3. q.version \in staged
      BY <2>2, <3>2, Zenon DEF RowsInv, StagedIsPending
    <3> QED BY <1>5, <3>2, <3>3
  <2> QED BY <2>1, <2>2, Zenon DEF StagedIsPending
<1>15. ProjectionBacked'
  <2>1. SUFFICES ASSUME NEW a \in Addrs, proj'[a] # NoRow
                 PROVE  proj'[a].addr = a /\ proj'[a].op = "write"
                        /\ FinalRow(proj'[a]) \in rawAccounts'
    BY Zenon DEF ProjectionBacked, FinalRow
  <2>2. CASE proj'[a] = proj[a]
    <3>1. proj[a].addr = a /\ proj[a].op = "write" /\ FinalRow(proj[a]) \in rawAccounts
      BY <2>1, <2>2, BackedMeans, Zenon DEF RowsInv
    <3>2. proj[a] \in Versions
      BY <2>1, <2>2 DEF RowsInv, RowsTypeOK
    <3>3. Row(FinalRow(proj[a])) = FinalRow(proj[a])
      BY <1>10, <3>1, <3>2, FinalRowFacts, Zenon
    <3>4. FinalRow(proj[a]) \in rawAccounts'
      BY <1>4, <3>1, <3>3, Zenon
    <3> QED BY <2>2, <3>1, <3>4, Zenon
  <2>3. CASE /\ proj'[a] \in staged /\ proj'[a].slot = s /\ proj'[a].addr = a
             /\ proj'[a].op # "delete"
    <3> DEFINE l == proj'[a]
    <3>1. l \in Versions /\ l.op # "other"
      BY <2>3, Zenon DEF RowsInv, RowsTypeOK, StagedIsPending
    <3>2. l.op = "write"
      <4>1. l.op # "undated"
        BY <2>3, Zenon DEF FinalizeSlot, FinalizeAccepted, Projectable
      <4> QED BY <2>3, <3>1, <4>1, VersionFacts
    <3>3. PICK r \in rawAccounts : r.version = l
      BY <2>3, Zenon DEF RowsInv, StagedIsPending
    <3>4. FinalRow(l) \in rawAccounts'
      BY <1>4, <1>11, <2>3, <3>3, Zenon
    <3> QED BY <2>3, <3>2, <3>4, Zenon
  <2> QED BY <1>12, <2>1, <2>2, <2>3, Zenon
<1> QED BY <1>13, <1>14, <1>15 DEF RowsInv

\* The row invariant is inductive.
LEMMA RowsInvariant ==
    ASSUME RowsInv, [StoreNext]_storeVars
    PROVE  RowsInv'
<1>1. CASE UNCHANGED storeVars
  BY <1>1, RowsUntouched, Zenon DEF storeVars
<1>2. ASSUME NEW u \in SlotUpdates, UpsertSlot(u)
      PROVE  RowsInv'
  BY <1>2, UpsertRows, SlotUpdateFacts, Zenon
<1>3. ASSUME NEW v \in Versions, NEW c \in Commitments, InsertAccount(v, c)
      PROVE  RowsInv'
  BY <1>3, InsertRows, Zenon
<1>4. ASSUME NEW t \in Txs, NEW s \in Slots, NEW c \in Commitments, InsertEvent(t, s, c)
      PROVE  RowsInv'
  BY <1>4, RowsUntouched, Zenon DEF InsertEvent
<1>5. ASSUME NEW s \in Slots, FinalizeSlot(s)
      PROVE  RowsInv'
  BY <1>5, FinalizeRows, Zenon
<1> QED BY <1>1, <1>2, <1>3, <1>4, <1>5, Zenon DEF StoreNext

\* It holds of an empty database.
LEMMA RowsInitially ==
    ASSUME StoreInit
    PROVE  RowsInv
BY DEF StoreInit, RowsInv, RowsTypeOK, StagedIsPending, ProjectionBacked

\* A version is staged exactly as long as its raw row is there and not
\* finalized: nothing ingested is lost or applied twice.
THEOREM StagedCorrect == StoreSpec => []StagedIsPending
<1>1. RowsInv => StagedIsPending
  BY DEF RowsInv
<1> QED BY <1>1, RowsInitially, RowsInvariant, PTL DEF StoreSpec

\* Every public row is backed by a finalized raw version, whatever dies.
THEOREM BackedCorrect == StoreSpec => []ProjectionBacked
<1>1. RowsInv => ProjectionBacked
  BY DEF RowsInv
<1> QED BY <1>1, RowsInitially, RowsInvariant, PTL DEF StoreSpec
==============================================================================
