------------------------------ MODULE CoRWMutex ------------------------------
(***************************************************************************)
(* CoRWMutex (co_rwmutex.h, co_rwmutex.cpp): a CoMutex for the writers and *)
(* an atomic count of readers.  A reader announces itself in readers_c_    *)
(* and then looks at the mutex; a writer takes the mutex and then looks at *)
(* readers_c_.  One step is one access to the count or one call of the     *)
(* mutex; a caller's pc names the access it makes next.                    *)
(*                                                                         *)
(* r_lock:     idle -> rl_check -> reading                                 *)
(*                        |-> rl_undo -> rl_again -> rl_check ...          *)
(* r_try_lock: idle -> rt_check -> reading | rt_undo -> idle               *)
(* w_lock:     idle -> w_wait -> writing                                   *)
(* w_try_lock: idle -> wt_check -> writing | wt_undo -> idle               *)
(***************************************************************************)
EXTENDS CoMutex

CONSTANT mtx_ \* the mutex of the writers

ASSUME CoRWMutexAssumption ==
  /\ Object = {mtx_}
  /\ IsFiniteSet(Caller)

VARIABLES
  readers_c_, \* CoRWMutexImpl::readers_c_
  pc,         \* where each caller is
  one_thread  \* all callers are coroutines of one scheduler thread

rwvars == <<mvars, readers_c_, pc, one_thread>>

PC == {"idle", "rl_check", "rl_undo", "rl_again", "rt_check", "rt_undo",
       "reading", "w_wait", "wt_check", "wt_undo", "writing"}

RWInit ==
  /\ MInit
  /\ readers_c_ = 0
  /\ pc = [c \in Caller |-> "idle"]
  /\ one_thread \in BOOLEAN


\* The points between two switches of a coroutine: on one thread no other
\* coroutine runs while one is there.
MidCall == {"rl_check", "rl_undo", "rt_check", "rt_undo", "wt_check", "wt_undo"}

CanStep(c) ==
  /\ Active(c)
  /\ one_thread => c \in Task /\ \A d \in Task \ {c} : pc[d] \notin MidCall

Goto(c, from, to) ==
  pc[c] = from /\ pc' = [pc EXCEPT ![c] = to] /\ UNCHANGED one_thread

\* ++readers_c_ at the head of r_lock's loop and of r_try_lock.
RIncrement(c) ==
  /\ CanStep(c)
  /\ \/ Goto(c, "idle", "rl_check")
     \/ Goto(c, "rl_again", "rl_check")
     \/ Goto(c, "idle", "rt_check")
  /\ readers_c_' = readers_c_ + 1
  /\ UNCHANGED mvars

\* mtx_.is_lock() in r_lock and r_try_lock.
RCheck(c) ==
  /\ CanStep(c)
  /\ IF IsLock(mtx_)
       THEN Goto(c, "rl_check", "rl_undo") \/ Goto(c, "rt_check", "rt_undo")
       ELSE Goto(c, "rl_check", "reading") \/ Goto(c, "rt_check", "reading")
  /\ UNCHANGED <<mvars, readers_c_>>

\* Mutant: a reader that gives up stays counted.
RUndoForgets(c) ==
  /\ CanStep(c)
  /\ Goto(c, "rl_undo", "rl_again") \/ Goto(c, "rt_undo", "idle")
  /\ UNCHANGED <<mvars, readers_c_>>

\* --readers_c_ of a reader that found a writer, and SleepSwitch(0) in r_lock.
RUndo(c) ==
  /\ CanStep(c)
  /\ Goto(c, "rl_undo", "rl_again") \/ Goto(c, "rt_undo", "idle")
  /\ readers_c_' = readers_c_ - 1
  /\ UNCHANGED mvars

\* r_unlock.
RUnlock(c) ==
  /\ CanStep(c)
  /\ Goto(c, "reading", "idle")
  /\ readers_c_' = readers_c_ - 1
  /\ UNCHANGED mvars

\* mtx_.lock() in w_lock.
WLock(c) ==
  /\ CanStep(c)
  /\ Goto(c, "idle", "w_wait")
  /\ \/ c \in Task /\ Lock(c, mtx_)
     \/ c \in Thread /\ TryLock(c, mtx_)
  /\ UNCHANGED readers_c_

\* Mutant: w_lock does not wait for the readers.
WLockNoCheck(c) ==
  /\ CanStep(c)
  /\ Goto(c, "w_wait", "writing")
  /\ UNCHANGED <<mvars, readers_c_>>

\* The loop of w_lock finding readers_c_ zero; each turn that does not is a
\* SleepSwitch(0) and changes nothing.
WLockCheck(c) ==
  /\ CanStep(c)
  /\ readers_c_ = 0
  /\ Goto(c, "w_wait", "writing")
  /\ UNCHANGED <<mvars, readers_c_>>

\* mtx_.try_lock() returning true in w_try_lock.
WTryLock(c) ==
  /\ CanStep(c)
  /\ Goto(c, "idle", "wt_check")
  /\ TryLock(c, mtx_)
  /\ UNCHANGED readers_c_

\* The look at readers_c_ in w_try_lock.
WTryCheck(c) ==
  /\ CanStep(c)
  /\ IF readers_c_ # 0 THEN Goto(c, "wt_check", "wt_undo")
                       ELSE Goto(c, "wt_check", "writing")
  /\ UNCHANGED <<mvars, readers_c_>>

\* Mutant: w_try_lock gives up without the unlock.
WTryKeepsLock(c) ==
  /\ CanStep(c)
  /\ \/ Goto(c, "wt_undo", "idle") /\ UNCHANGED mvars
     \/ Goto(c, "writing", "idle") /\ Unlock(c, mtx_)
  /\ UNCHANGED readers_c_

\* mtx_.unlock() in w_try_lock, and w_unlock.
WUnlock(c) ==
  /\ CanStep(c)
  /\ Goto(c, "wt_undo", "idle") \/ Goto(c, "writing", "idle")
  /\ Unlock(c, mtx_)
  /\ UNCHANGED readers_c_

\* The steps of the scheduler under a coroutine blocked in mtx_.lock().
RWBackground(t) ==
  /\ Background(t)
  /\ one_thread => \A d \in Task : pc[d] \notin MidCall
  /\ UNCHANGED <<readers_c_, pc, one_thread>>

Proceed(c) ==
  \/ RCheck(c) \/ RUndo(c) \/ RUnlock(c) \/ WLockCheck(c)
  \/ WTryCheck(c) \/ WUnlock(c)
  \/ pc[c] = "rl_again" /\ RIncrement(c)

RWNext ==
  \/ \E c \in Caller : RIncrement(c) \/ WLock(c) \/ WTryLock(c) \/ Proceed(c)
  \/ \E t \in Task : RWBackground(t)

\* Used for one thread only: Processer::Run gives every coroutine of its list
\* a turn before any of them a second one, and at the turn of one the others
\* are between calls.  So a coroutine that can go on there infinitely often
\* does (critical sections end).
RWFairness ==
  /\ \A c \in Caller : SF_rwvars(Proceed(c))
  /\ \A t \in Task : SF_rwvars(RWBackground(t))

RWSafety == RWInit /\ [][RWNext]_rwvars

RWSpec == RWSafety /\ RWFairness

-----------------------------------------------------------------------------

\* The type invariant; pc "w_wait" covers both the wait for the mutex and
\* the wait for the readers.
RWTypeOK ==
  /\ MTypeOK
  /\ readers_c_ \in Nat
  /\ pc \in [Caller -> PC]
  /\ \A c \in Caller :
       mutex[c] = mtx_ <=> pc[c] \in {"w_wait", "wt_check", "wt_undo", "writing"}

\* The callers counted in readers_c_.
Counted ==
  {c \in Caller : pc[c] \in {"rl_check", "rl_undo", "rt_check", "rt_undo", "reading"}}

\* readers_c_ is exact: the assert(rc >= 0) of r_unlock cannot fail and a
\* writer waits for nobody but readers, whichever try_lock gave up meanwhile.
ReadersCounted == readers_c_ = Cardinality(Counted)

\* No reader reads and no other writer writes while one writes, although the
\* reader's announce-then-look and the writer's lock-then-look interleave.
RWExclusion ==
  \A c, d \in Caller :
    pc[c] = "writing" /\ pc[d] \in {"reading", "writing"} => c = d

\* w_lock returns in the end (on one thread: with several, readers spinning
\* in r_lock may keep readers_c_ above zero at every look of the writer).
WriterGranted ==
  one_thread => \A c \in Task : pc[c] = "w_wait" ~> pc[c] = "writing"
=============================================================================
