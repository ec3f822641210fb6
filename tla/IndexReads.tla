----------------------------- MODULE IndexReads -----------------------------
(***************************************************************************)
(* The status route of the index (ReadRepo::status, /v1/index/status),      *)
(* read while the indexer is at work.  It makes two queries that share no   *)
(* transaction: the checkpoint first, the number of gaps second.  Anything  *)
(* may be committed between the two.                                        *)
(***************************************************************************)
EXTENDS Indexer

VARIABLE reader  \* the request: where it is, and what it has read

Idle == [at |-> "idle", as_of |-> 0, processed |-> 0]

ReaderTypeOK ==
    reader \in [at : {"idle", "gaps"}, as_of : 0 .. MaxSlot, processed : 0 .. MaxSlot]

ReadInit == Init /\ reader = Idle

\* The first query.
ReadCheckpoint ==
    /\ reader.at = "idle"
    /\ reader' = [at |-> "gaps", as_of |-> checkpoint.finalized,
                  processed |-> checkpoint.processed]
    /\ UNCHANGED vars

\* Mutant: a gap counts until its repair has been tried.
Unrepaired_Untried == {"open"}

\* The gaps that the second query counts; it also names "repairing", which no
\* code writes.
Unrepaired == {"open", "failed", "partial"}

OpenGaps == {g \in Slots \X Slots : gaps[g] \in Unrepaired}

\* The second query completes the answer, [reader.as_of, reader.processed,
\* Cardinality(OpenGaps)], and the request is over.
CountGaps ==
    /\ reader.at = "gaps"
    /\ reader' = Idle
    /\ UNCHANGED vars

ReadNext == ReadCheckpoint \/ CountGaps \/ (Next /\ UNCHANGED reader)

ReadSpec == ReadInit /\ [][ReadNext]_<<vars, reader>>

\* A status without open gaps is the truth about what it covers: no slot up to
\* the processed slot it names is missing from the index, although that slot
\* was read before the gaps were counted and the indexer went on between.
StatusComplete ==
    reader.at = "gaps" /\ OpenGaps = {} =>
        \A s \in Slots : base <= s /\ s <= reader.processed => Known(s)
=============================================================================
