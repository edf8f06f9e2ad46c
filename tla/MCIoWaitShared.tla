------------------------------ MODULE MCIoWaitShared ------------------------------
(***************************************************************************)
(* Two coroutines and three descriptors: r1 and r2 go to the epoll of      *)
(* readers, w to the one of writers.                                       *)
(***************************************************************************)
EXTENDS IoWait, TLC

CONSTANTS t1, t2, r1, r2, w

MCEpollOf == (r1 :> 0) @@ (r2 :> 0) @@ (w :> 1)

\* t1 polls several descriptors, among them one that t2 waits for.
SharedWaits == (t1 :> {<<r1, w>>}) @@ (t2 :> {<<w>>})

SharedMaxId == (t1 :> 2) @@ (t2 :> 2)
=============================================================================
