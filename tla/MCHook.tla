------------------------------- MODULE MCHook -------------------------------
(***************************************************************************)
(* Two coroutines and two sockets, d1 with the reading side r1, d2 with    *)
(* the reading side r2 and the writing side w.                             *)
(***************************************************************************)
EXTENDS Hook, TLC

CONSTANTS t1, t2, r1, r2, w, d1, d2

MCEpollOf == (r1 :> 0) @@ (r2 :> 0) @@ (w :> 1)

MCDescOf == (r1 :> d1) @@ (r2 :> d2) @@ (w :> d2)

\* t1 polls or selects several descriptors, or polls the same one twice.
MCWaits == (t1 :> {<<r1, w>>, <<r1, r1>>}) @@ (t2 :> {})

\* t1 reads from and writes to the socket that t2 connects: then epoll refuses
\* one of the two that wait for w.
MCCalls == (t1 :> {r2, w}) @@ (t2 :> {})

MCConnects == (t1 :> {}) @@ (t2 :> {w})

\* t1 waits a second time, when an event or a Cancel of its first wait may
\* still be under way.
MCMaxId == (t1 :> 2) @@ (t2 :> 1)
=============================================================================
