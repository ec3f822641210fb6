---------------------------- MODULE ProjectionStore ---------------------------
(***************************************************************************)
(* The indexer's tables in PostgreSQL (projection.rs): slots with their    *)
(* commitment and parent, raw account versions and events, staged account  *)
(* projections, the public projections, ingestion gaps and the checkpoint. *)
(* Each operation is one transaction.  An operation that the code refuses  *)
(* with an error is an action that is not enabled.                         *)
(***************************************************************************)
EXTENDS Integers, FiniteSets

CONSTANTS
    Addrs,              \* account addresses
    Txs,                \* transaction signatures, one event each
    MaxSlot,            \* slots are 1 .. MaxSlot, and 0 is no slot
    MaxVersion,         \* writes to accounts in one slot
    MaxAncestryDepth,   \* MAX_ANCESTRY_DEPTH
    NoParent, NoRow

Slots == 1 .. MaxSlot
Commitments == {"processed", "confirmed", "finalized", "dead"}
Parents == 0 .. MaxSlot \cup {NoParent}

\* What an update makes of its account: "undated" is a job or a challenge with a
\* time that the date type of the tables cannot express, "other" data that does
\* not decode to an account of the program.
Ops == {"write", "undated", "delete", "other"}

\* An account update, keyed by address, slot and write version.
Versions == [addr: Addrs, slot: Slots, write: 1 .. MaxVersion, op: Ops]

SlotUpdates == [slot: Slots, parent: Parents, status: Commitments]

GapStatus == {"none", "open", "partial", "failed", "repaired"}

ASSUME StoreAssumption ==
    /\ MaxSlot \in Nat /\ MaxVersion \in Nat /\ MaxAncestryDepth \in Nat
    /\ NoParent \notin Nat
    /\ NoRow \notin Versions

VARIABLES
    slotRow,      \* indexer_slots
    rawAccounts,  \* raw_account_versions
    rawEvents,    \* raw_protocol_events, by signature
    staged,       \* staged_account_projections
    proj,         \* the proj_* tables, by address
    gaps,         \* ingestion_gaps
    checkpoint,   \* indexer_checkpoints
    newest        \* history: the last version of each address ever applied

slotVars == <<slotRow, checkpoint>>
dataVars == <<rawAccounts, rawEvents, staged>>
publicVars == <<proj, newest>>
storeVars == <<slotRow, checkpoint, rawAccounts, rawEvents, staged, proj, newest, gaps>>

Stored == [version: Versions, commitment: Commitments \ {"dead"}]
EventRow == [slot: 0 .. MaxSlot, commitment: {"none"} \cup (Commitments \ {"dead"})]

StoreTypeOK ==
    /\ slotRow \in [Slots -> [status: Commitments \cup {"none"}, parent: Parents]]
    /\ checkpoint \in [finalized: 0 .. MaxSlot, processed: 0 .. MaxSlot]
    /\ rawAccounts \in SUBSET Stored
    /\ rawEvents \in [Txs -> EventRow]
    /\ staged \in SUBSET Versions
    /\ proj \in [Addrs -> Versions \cup {NoRow}]
    /\ newest \in [Addrs -> Versions \cup {NoRow}]
    /\ gaps \in [Slots \X Slots -> GapStatus]

StoreInit ==
    /\ slotRow = [s \in Slots |-> [status |-> "none", parent |-> NoParent]]
    /\ checkpoint = [finalized |-> 0, processed |-> 0]
    /\ rawAccounts = {}
    /\ rawEvents = [t \in Txs |-> [slot |-> 0, commitment |-> "none"]]
    /\ staged = {}
    /\ proj = [a \in Addrs |-> NoRow]
    /\ newest = [a \in Addrs |-> NoRow]
    /\ gaps = [g \in Slots \X Slots |-> "none"]

Greatest(i, j) == IF i >= j THEN i ELSE j
Known(s) == slotRow[s].status # "none"

(***************************************************************************)
(* Slots.                                                                  *)
(***************************************************************************)
CanUpgrade(current, next) ==
    \/ current = next
    \/ current = "confirmed" /\ next \in {"finalized", "dead"}
    \/ current = "processed" /\ next \in {"confirmed", "finalized", "dead"}

\* Mutants: a parent may be filled in at any time; a finalized slot may not be
\* reported again.
ParentConflict_Unset(u) == slotRow[u.slot].parent \notin {NoParent, u.parent}
ParentConflict_Final(u) == slotRow[u.slot].status = "finalized" /\ u.parent # NoParent

ParentConflict(u) ==
    LET stored == slotRow[u.slot].parent IN
    \/ stored # NoParent /\ u.parent # stored
    \/ stored = NoParent /\ u.parent # NoParent /\ slotRow[u.slot].status = "finalized"

UpsertAccepted(u) ==
    /\ u.parent # u.slot
    /\ Known(u.slot) =>
          /\ ~ParentConflict(u)
          /\ {slotRow[u.slot].status, u.status} # {"finalized", "dead"}

\* Mutants: staged rows are kept; finalized rows are deleted too.
CleanupDeadSlot_KeepStaged(s) ==
    /\ rawAccounts' = {r \in rawAccounts :
                          r.version.slot = s => r.commitment = "finalized"}
    /\ UNCHANGED <<rawEvents, staged>>
CleanupDeadSlot_All(s) ==
    /\ rawAccounts' = {r \in rawAccounts : r.version.slot # s}
    /\ staged' = {v \in staged : v.slot # s}
    /\ UNCHANGED rawEvents

\* A dead slot loses its staged rows and its raw rows that are not finalized.
CleanupDeadSlot(s) ==
    /\ rawAccounts' = {r \in rawAccounts :
                          r.version.slot = s => r.commitment = "finalized"}
    /\ rawEvents' = [t \in Txs |->
          IF rawEvents[t].slot = s /\ rawEvents[t].commitment # "finalized"
          THEN [slot |-> 0, commitment |-> "none"] ELSE rawEvents[t]]
    /\ staged' = {v \in staged : v.slot # s}

\* Mutant: an update advances the finalized checkpoint, whatever its status.
UpsertSlot_Checkpoint(u) ==
    /\ ~Known(u.slot) /\ u.parent # u.slot /\ u.status # "dead"
    /\ slotRow' = [slotRow EXCEPT ![u.slot] = [status |-> u.status, parent |-> u.parent]]
    /\ checkpoint' = [finalized |-> Greatest(checkpoint.finalized, u.slot),
                      processed |-> Greatest(checkpoint.processed, u.slot)]
    /\ UNCHANGED <<rawAccounts, rawEvents, staged, proj, newest, gaps>>

\* Only an upgrade, or the same status again, changes the row.
UpsertSlot(u) ==
    /\ UpsertAccepted(u)
    /\ UNCHANGED <<proj, newest, gaps>>
    /\ IF Known(u.slot) /\ ~CanUpgrade(slotRow[u.slot].status, u.status)
       THEN UNCHANGED <<slotRow, checkpoint, rawAccounts, rawEvents, staged>>
       ELSE /\ slotRow' = [slotRow EXCEPT ![u.slot] =
                  [status |-> u.status,
                   parent |-> IF @.parent = NoParent THEN u.parent ELSE @.parent]]
            /\ IF u.status = "dead"
               THEN CleanupDeadSlot(u.slot) /\ UNCHANGED checkpoint
               ELSE /\ checkpoint' = [checkpoint EXCEPT !.processed = Greatest(@, u.slot)]
                    /\ UNCHANGED <<rawAccounts, rawEvents, staged>>

(***************************************************************************)
(* Accounts and events.                                                    *)
(***************************************************************************)
SameKey(v, w) == v.addr = w.addr /\ v.slot = w.slot /\ v.write = w.write

\* A row gives way to a version of its own slot or of a later one; nothing is
\* left of a row that a tombstone deletes.
Applies(v, row) == row = NoRow \/ row.slot <= v.slot
Applied(v, row) ==
    IF ~Applies(v, row) THEN row
    ELSE IF v.op = "delete" THEN NoRow ELSE v

LaterOf(v, w) ==
    IF w = NoRow \/ v.slot > w.slot \/ (v.slot = w.slot /\ v.write >= w.write)
    THEN v ELSE w

ApplyProjection(v) ==
    /\ proj' = [proj EXCEPT ![v.addr] = Applied(v, @)]
    /\ newest' = [newest EXCEPT ![v.addr] = LaterOf(v, @)]

\* A row with a time that ts refuses cannot be applied.
Projectable(v) == v.op # "undated"

\* Mutant: a version is applied before its slot is final.
ApplyNow_Early(v, c) == slotRow[v.slot].status # "dead"

\* A version that arrives when its slot is finalized is applied at once.
ApplyNow(v, c) == slotRow[v.slot].status = "finalized" \/ c = "finalized"

Duplicate(v) == \E r \in rawAccounts : SameKey(r.version, v)

InsertAccepted(v, c) ==
    IF ApplyNow(v, c) THEN Projectable(v) \/ Duplicate(v) ELSE c # "dead"

InsertAccount(v, c) ==
    /\ InsertAccepted(v, c)
    /\ UNCHANGED <<slotRow, checkpoint, rawEvents, gaps>>
    /\ IF Duplicate(v)
       THEN UNCHANGED <<rawAccounts, staged, proj, newest>>
       ELSE /\ rawAccounts' = rawAccounts \cup
                  {[version |-> v, commitment |-> IF ApplyNow(v, c) THEN "finalized" ELSE c]}
            /\ IF v.op # "other" /\ ApplyNow(v, c)
               THEN ApplyProjection(v) ELSE UNCHANGED <<proj, newest>>
            /\ staged' = IF v.op # "other" /\ ~ApplyNow(v, c)
                         THEN staged \cup {v} ELSE staged

InsertEvent(t, s, c) ==
    /\ slotRow[s].status = "finalized" \/ c # "dead"
    /\ UNCHANGED <<slotRow, checkpoint, rawAccounts, staged, proj, newest, gaps>>
    /\ rawEvents' = IF rawEvents[t].commitment # "none" THEN rawEvents
          ELSE [rawEvents EXCEPT ![t] =
                  [slot |-> s,
                   commitment |-> IF slotRow[s].status = "finalized" THEN "finalized" ELSE c]]

(***************************************************************************)
(* Finalization.                                                           *)
(***************************************************************************)

\* The n-th ancestor of s along the stored parents.
Ancestor(s) ==
    LET up[n \in 0 .. MaxAncestryDepth] ==
            IF n = 0 THEN s
            ELSE IF up[n-1] \in Slots THEN slotRow[up[n-1]].parent ELSE NoParent
    IN up

\* The stored parents lead, within the depth, to a slot without a parent, by
\* way of slots that are known and not dead.
AncestrySound(s) ==
    \E n \in 0 .. MaxAncestryDepth - 1 :
        /\ \A k \in 0 .. n : Ancestor(s)[k] \in Slots /\ Known(Ancestor(s)[k])
        /\ \A k \in 1 .. n : slotRow[Ancestor(s)[k]].status # "dead"
        /\ slotRow[Ancestor(s)[n]].parent = NoParent

FinalizeAccepted(s) ==
    /\ Known(s) /\ slotRow[s].status # "dead"
    /\ slotRow[s].status # "finalized" => AncestrySound(s)
    /\ \A v \in staged : v.slot = s => Projectable(v)

\* Mutant: staged rows are not ordered by write version.
LastStaged_Unordered(s, a) ==
    LET rows == {v \in staged : v.slot = s /\ v.addr = a}
    IN IF rows = {} THEN NoRow
       ELSE CHOOSE v \in rows : \A w \in rows : v.write <= w.write

\* Staged rows are applied by write version, so the last one of an address
\* decides.
LastStaged(s, a) ==
    LET rows == {v \in staged : v.slot = s /\ v.addr = a}
    IN IF rows = {} THEN NoRow
       ELSE CHOOSE v \in rows : \A w \in rows : v.write >= w.write

\* History: the newest of what is applied now and what was applied before.
NewestOf(s, a) ==
    LET rows == {v \in staged : v.slot = s /\ v.addr = a} \cup {newest[a]}
    IN CHOOSE v \in rows : \A w \in rows \ {NoRow} : v # NoRow /\ LaterOf(v, w) = v

FinalizeSlot(s) ==
    /\ FinalizeAccepted(s)
    /\ slotRow' = [slotRow EXCEPT ![s].status = "finalized"]
    /\ rawAccounts' = {IF r.version.slot = s THEN [r EXCEPT !.commitment = "finalized"] ELSE r :
                          r \in rawAccounts}
    /\ rawEvents' = [t \in Txs |-> IF rawEvents[t].slot = s
                        THEN [rawEvents[t] EXCEPT !.commitment = "finalized"] ELSE rawEvents[t]]
    /\ proj' = [a \in Addrs |-> IF LastStaged(s, a) = NoRow THEN proj[a]
                                ELSE Applied(LastStaged(s, a), proj[a])]
    /\ newest' = [a \in Addrs |-> NewestOf(s, a)]
    /\ staged' = {v \in staged : v.slot # s}
    /\ checkpoint' = [finalized |-> Greatest(checkpoint.finalized, s),
                      processed |-> Greatest(checkpoint.processed, s)]
    /\ UNCHANGED gaps

(***************************************************************************)
(* Gaps.                                                                   *)
(***************************************************************************)
RecordGap(g) ==
    /\ gaps' = [gaps EXCEPT ![g] = IF @ = "none" THEN "open" ELSE @]
    /\ UNCHANGED <<slotRow, checkpoint, rawAccounts, rawEvents, staged, proj, newest>>

MarkGap(g, status) ==
    /\ gaps' = [gaps EXCEPT ![g] = IF @ = "none" THEN @ ELSE status]
    /\ UNCHANGED <<slotRow, checkpoint, rawAccounts, rawEvents, staged, proj, newest>>

(***************************************************************************)
(* The store by itself, under any sequence of calls: a replayed fixture    *)
(* file can hold any updates, in any order and of any commitment.  The     *)
(* gap table is the engine's alone and is left to Indexer.                 *)
(***************************************************************************)
StoreNext ==
    \/ \E u \in SlotUpdates : UpsertSlot(u)
    \/ \E v \in Versions, c \in Commitments : InsertAccount(v, c)
    \/ \E t \in Txs, s \in Slots, c \in Commitments : InsertEvent(t, s, c)
    \/ \E s \in Slots : FinalizeSlot(s)

StoreSpec == StoreInit /\ [][StoreNext]_storeVars

(***************************************************************************)
(* Properties.                                                             *)
(***************************************************************************)

\* Nothing ingested is lost before it is public, and nothing is applied twice:
\* an account version waits in the staging table exactly as long as its raw row
\* is there and not finalized, through duplicates, forks that die and slots
\* that are finalized in any order.
StagedIsPending ==
    /\ \A v \in staged : v.op # "other" /\
          \E r \in rawAccounts : r.version = v /\ r.commitment # "finalized"
    /\ \A r \in rawAccounts :
          r.version.op # "other" /\ r.commitment # "finalized" => r.version \in staged

\* A public row is a version the store still holds, and holds as finalized: no
\* dead fork takes away the version behind a public row, and none is shown
\* before its finalization.
ProjectionBacked ==
    \A a \in Addrs : proj[a] # NoRow =>
        /\ proj[a].addr = a /\ proj[a].op = "write"
        /\ [version |-> proj[a], commitment |-> "finalized"] \in rawAccounts

\* The checkpoint that the next session resumes from is a slot that is
\* finalized, and the processed checkpoint is never behind it.
CheckpointSound ==
    /\ checkpoint.finalized \in Slots => slotRow[checkpoint.finalized].status = "finalized"
    /\ checkpoint.finalized <= checkpoint.processed
    /\ checkpoint.processed \in Slots => Known(checkpoint.processed)

\* No sequence of notifications takes a slot back: a finalized row stays as it
\* is, a dead slot stays dead, a recorded parent is never replaced, and the
\* checkpoint only grows.
SlotsSettle ==
    [][ /\ \A s \in Slots :
              /\ slotRow[s].status = "finalized" => slotRow'[s] = slotRow[s]
              /\ slotRow[s].status = "dead" => slotRow'[s].status = "dead"
              /\ slotRow[s].parent # NoParent => slotRow'[s].parent = slotRow[s].parent
        /\ checkpoint.finalized <= checkpoint'.finalized
        /\ checkpoint.processed <= checkpoint'.processed ]_storeVars
==============================================================================
