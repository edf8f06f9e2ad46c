----------------------------- MODULE MCUserWait -----------------------------
(***************************************************************************)
(* Coroutines of two Processers on two keys; elements in two queues.       *)
(***************************************************************************)
EXTENDS WaitQueues, TLC

CONSTANTS t1, t2, t3, p1, p2

MCProcOf == (t1 :> p1) @@ (t2 :> p1) @@ (t3 :> p2)
=============================================================================
