---------------------------- MODULE MCBulkChunk ----------------------------
(* Instances of BulkChunk for TLC. *)
EXTENDS BulkChunk

\* Scripts of every kind, two of which fit into one file's time limit, and a
\* proof that takes longer than the limit.
EveryScript == [kind : Kinds, cost : {1}] \cup {[kind |-> "proof", cost |-> 3]}
============================================================================
