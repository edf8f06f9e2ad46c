----------------------------- MODULE WaitQueues -----------------------------
(***************************************************************************)
(* The user wait table, whose queues are sequences, and the lists those    *)
(* sequences stand for.  The two models share no state, so a behaviour is  *)
(* one of the selected model.                                              *)
(***************************************************************************)
EXTENDS UserWait, TSQueue

VARIABLE model

wqvars == <<uvars, qvars, model>>

WQInit == UInit /\ QInit /\ model \in {"table", "lists"}

WQNext ==
  /\ \/ model = "table" /\ UNext /\ UNCHANGED qvars
     \/ model = "lists" /\ QNext /\ UNCHANGED uvars
  /\ UNCHANGED model

WQSpec == WQInit /\ [][WQNext]_wqvars
=============================================================================
