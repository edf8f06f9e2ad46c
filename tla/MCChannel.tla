------------------------------ MODULE MCChannel ------------------------------
(***************************************************************************)
(* A channel of capacity Cap, and the channels of two elements of the      *)
(* pool.  Limit stands for the largest size_t.                             *)
(***************************************************************************)
EXTENDS ThreadPool, TLC

CONSTANTS Cap, Limit

MCObject == Chan \X {"write_block", "read_block", "queue_lock"}
MCWriteBlock == [k \in Chan |-> <<k, "write_block">>]
MCReadBlock == [k \in Chan |-> <<k, "read_block">>]
MCQueueLock == [k \in Chan |-> <<k, "queue_lock">>]

MCInitWakeup ==
  [o \in MCObject |-> CASE o[2] = "queue_lock" -> 1
                        [] o = <<shared, "write_block">> -> Cap
                        [] OTHER -> 0]
MCMaxWakeup == [o \in MCObject |-> IF o[2] = "queue_lock" THEN 1 ELSE Limit]
=============================================================================
