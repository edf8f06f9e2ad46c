----------------------------- MODULE MCCoRWMutex -----------------------------
(***************************************************************************)
(* Callers of one reader-writer mutex.                                     *)
(***************************************************************************)
EXTENDS CoRWMutex

MCOne == [o \in Object |-> 1]
=============================================================================
