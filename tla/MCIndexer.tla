------------------------------ MODULE MCIndexer ------------------------------
(* Small instances of the indexer for TLC. *)
EXTENDS Indexer, TLC

CONSTANTS a1, t1

W(op) == [kind |-> "account", addr |-> a1, op |-> op]
E == [kind |-> "event", tx |-> t1]

\* Empty blocks: only the slots matter.
Empty == {<<>>}
\* One write a block, or none.
SingleWrites == {<<>>, <<W("write")>>}
\* An account that is written twice in one slot, closed beside an event, or
\* written with a time that the tables cannot hold.
Lifecycles == {<<W("write"), W("write")>>, <<W("delete"), E>>, <<W("undated")>>}
==============================================================================
