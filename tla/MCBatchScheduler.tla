--------------------------- MODULE MCBatchScheduler ---------------------------
(* Instances of BatchScheduler for TLC. *)
EXTENDS BatchScheduler, TLC

CONSTANTS b1, r1, r2, t1

MCOneBatch == b1 :> <<r1, r2>>
===============================================================================
