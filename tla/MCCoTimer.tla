------------------------------ MODULE MCCoTimer ------------------------------
(***************************************************************************)
(* Two timers, two scheduler threads and two cancellers.                   *)
(***************************************************************************)
EXTENDS CoTimer
=============================================================================
