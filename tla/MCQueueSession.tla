--------------------------- MODULE MCQueueSession ---------------------------
(* QueueSession on a queue smaller than what a restart may restore.        *)
EXTENDS QueueSession
=============================================================================
