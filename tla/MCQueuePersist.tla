--------------------------- MODULE MCQueuePersist ---------------------------
(* QueuePersist on a few messages, with the compaction thresholds scaled   *)
(* down so that every trigger fires.                                       *)
EXTENDS QueuePersist, TLC

Symmetry == Permutations(Messages)
=============================================================================
