------------------------------ MODULE MCCoMutex ------------------------------
(***************************************************************************)
(* Three coroutines and a plain thread on two mutexes.                    *)
(***************************************************************************)
EXTENDS CoMutex

MCOne == [o \in Object |-> 1]
=============================================================================
