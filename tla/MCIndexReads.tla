---------------------------- MODULE MCIndexReads ----------------------------
(* A small instance of the indexer with a reader of its status for TLC. *)
EXTENDS MCIndexer, IndexReads
=============================================================================
