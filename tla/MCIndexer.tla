----------------------------- MODULE MCIndexer -----------------------------
(* An instance of Indexer for TLC. *)
EXTENDS Indexer, TLC
=============================================================================
