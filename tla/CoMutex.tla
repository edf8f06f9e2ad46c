------------------------------- MODULE CoMutex -------------------------------
(***************************************************************************)
(* CoMutex (co_mutex.h, co_mutex.cpp): a mutex is a BlockObject(1, 1).     *)
(* Coroutines and plain threads share any number of mutexes; a caller has  *)
(* one of them at a time and unlocks the one it has, as a lock guard does. *)
(***************************************************************************)
EXTENDS BlockObject

CONSTANT Thread \* plain threads: IsCoroutine() is false, lock() polls

Caller == Task \cup Thread

\* The constructor: block_(new BlockObject(1, 1)).
ASSUME CoMutexAssumption ==
  /\ InitWakeup = [o \in Object |-> 1]
  /\ MaxWakeup = [o \in Object |-> 1]
  /\ Task \cap Thread = {}

VARIABLE mutex \* the mutex each caller has called lock on and not unlocked

mvars == <<vars, mutex>>

MInit == Init /\ mutex = [c \in Caller |-> NULL]

\* The caller executes code of its own.
Active(c) == c \in Task => place[c] = "running"

\* The caller's lock() or try_lock() was granted: it is in its critical
\* section, or about to be run again there.
Holds(c, o) ==
  /\ mutex[c] = o
  /\ c \in Task => place[c] \in {"running", "ready"}

\* lock() in a coroutine.
Lock(t, o) ==
  /\ mutex[t] = NULL
  /\ CoBlockWait(t, o)
  /\ mutex' = [mutex EXCEPT ![t] = o]

\* try_lock() returning true, and the last turn of the polling loop of lock()
\* in a plain thread.
TryLock(c, o) ==
  /\ Active(c)
  /\ mutex[c] = NULL
  /\ TryBlockWait(o)
  /\ mutex' = [mutex EXCEPT ![c] = o]

\* is_lock().
IsLock(o) == ~IsWakeup(o)

\* unlock() by a caller that has the mutex.
Unlock(c, o) ==
  /\ Active(c)
  /\ mutex[c] = o
  /\ Wakeup(o)
  /\ mutex' = [mutex EXCEPT ![c] = NULL]

\* unlock() finding nothing to wake up and the mutex free: it throws
\* ec_mutex_double_unlock and changes nothing.
DoubleUnlock(c, o) ==
  /\ Active(c)
  /\ mutex[c] = NULL
  /\ WakeupFailed(o)
  /\ UNCHANGED mutex

\* The steps of the scheduler under a blocked coroutine.
Background(t) == (AddWaitTask(t) \/ Resume(t)) /\ UNCHANGED mutex

MNext ==
  \/ \E o \in Object :
       \/ \E t \in Task : Lock(t, o)
       \/ \E c \in Caller : TryLock(c, o) \/ Unlock(c, o) \/ DoubleUnlock(c, o)
  \/ \E t \in Task : Background(t)

\* Critical sections end and the scheduler's threads go on; nobody has to
\* call lock, and a polling thread may always find the mutex taken.
MFairness ==
  /\ \A c \in Caller : WF_mvars(\E o \in Object : Unlock(c, o))
  /\ \A t \in Task : WF_mvars(Background(t))

MSafety == MInit /\ [][MNext]_mvars

MSpec == MSafety /\ MFairness

-----------------------------------------------------------------------------

\* The type invariant.
MTypeOK == TypeOK /\ mutex \in [Caller -> Object \cup {NULL}]

\* lock() and try_lock() let at most one caller into the critical section,
\* whatever unlocks fall into the window before AddWaitTask.
MutualExclusion ==
  \A o \in Object : \A c, d \in Caller : Holds(c, o) /\ Holds(d, o) => c = d

\* is_lock() is true exactly while somebody has the mutex, a coroutine that
\* has been handed it and has not run since included.  In particular unlock()
\* by the one that has it never throws ec_mutex_double_unlock.
IsLockExact ==
  \A o \in Object : IsLock(o) <=> \E c \in Caller : Holds(c, o)

\* unlock() hands the mutex to the first coroutine of wait_queue_: nobody,
\* not even a try_lock() at that moment, overtakes a queued coroutine.
NoOvertaking ==
  [][\A o \in Object : \A c \in Caller :
       wait_queue_[o] # <<>> /\ ~Holds(c, o) /\ Holds(c, o)'
         => c = Head(wait_queue_[o])]_mvars

\* A coroutine that has called lock() gets the mutex in the end.
LockGranted ==
  \A t \in Task : \A o \in Object : mutex[t] = o ~> Holds(t, o)
=============================================================================
