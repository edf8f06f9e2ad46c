----------------------------- MODULE BlockObject -----------------------------
(***************************************************************************)
(* BlockObject (block_object.h, block_object.cpp): the counting semaphore  *)
(* under CoMutex, CoRWMutex and Channel, for any set of such objects used  *)
(* by any set of coroutines.  One step is one critical section of lock_.   *)
(*                                                                         *)
(* A coroutine that finds no wakeup does not enter wait_queue_ itself: it  *)
(* sets tk->block_, unlocks and yields, and the thread that was running it *)
(* calls AddWaitTask only after the switch back (Processer::Run).  Between *)
(* the two the object is unlocked and the coroutine is in no queue.        *)
(*                                                                         *)
(* place[t] says where coroutine t is:                                     *)
(*   running  on a thread, inside or outside a call of this module         *)
(*   yielded  switched out with block_ set, AddWaitTask not yet called     *)
(*   waiting  in wait_queue_ of the object it asked                        *)
(*   ready    in the runnable list of its Processer                        *)
(***************************************************************************)
EXTENDS Naturals, Sequences, FiniteSets

CONSTANTS
  Object,     \* the block objects
  Task,       \* the coroutines
  InitWakeup, \* constructor argument init_wakeup of each object
  MaxWakeup,  \* constructor argument max_wakeup of each object
  NULL        \* the null pointer

ASSUME BlockObjectAssumption ==
  /\ InitWakeup \in [Object -> Nat]
  /\ MaxWakeup \in [Object -> Nat]
  /\ \A o \in Object : InitWakeup[o] <= MaxWakeup[o]
  /\ NULL \notin Object

VARIABLES
  wakeup_,     \* BlockObject::wakeup_ of each object
  wait_queue_, \* BlockObject::wait_queue_ of each object
  block_,      \* Task::block_ of each coroutine
  place        \* where each coroutine is

vars == <<wakeup_, wait_queue_, block_, place>>

Place == {"running", "yielded", "waiting", "ready"}

\* The constructed objects, every coroutine on a thread of its own.
Init ==
  /\ wakeup_ = InitWakeup
  /\ wait_queue_ = [o \in Object |-> <<>>]
  /\ block_ = [t \in Task |-> NULL]
  /\ place = [t \in Task |-> "running"]

-----------------------------------------------------------------------------

\* TryBlockWait returning true; also the call of CoBlockWait that finds
\* wakeup_ > 0, and the last turn of its polling loop outside a coroutine.
TryBlockWait(o) ==
  /\ wakeup_[o] > 0
  /\ wakeup_' = [wakeup_ EXCEPT ![o] = @ - 1]
  /\ UNCHANGED <<wait_queue_, block_, place>>

\* IsWakeup.
IsWakeup(o) == wakeup_[o] > 0

\* CoBlockWait in a coroutine that finds wakeup_ = 0: set block_, unlock,
\* yield.
YieldOn(t, o) ==
  /\ wakeup_[o] = 0
  /\ block_' = [block_ EXCEPT ![t] = o]
  /\ place' = [place EXCEPT ![t] = "yielded"]
  /\ UNCHANGED <<wakeup_, wait_queue_>>

\* CoBlockWait called by coroutine t.  The call has returned when t is
\* running again.
CoBlockWait(t, o) ==
  /\ place[t] = "running"
  /\ TryBlockWait(o) \/ YieldOn(t, o)

\* Mutant: AddWaitTask refuses the coroutine but leaves the wakeup stored.
AddWaitTaskKeepsWakeup(t) ==
  /\ wakeup_[block_[t]] > 0
  /\ place' = [place EXCEPT ![t] = "ready"]
  /\ UNCHANGED <<wakeup_, wait_queue_>>

\* AddWaitTask finding a wakeup that arrived since the yield: it is consumed
\* and Processer::Run pushes t back on runnable_list_.
AddWaitTaskRefused(t) ==
  LET o == block_[t] IN
  /\ wakeup_[o] > 0
  /\ wakeup_' = [wakeup_ EXCEPT ![o] = @ - 1]
  /\ place' = [place EXCEPT ![t] = "ready"]
  /\ UNCHANGED wait_queue_

\* Mutant: AddWaitTask does not look at wakeup_ again before it queues.
AddWaitTaskNoRecheck(t) ==
  /\ wait_queue_' = [wait_queue_ EXCEPT ![block_[t]] = Append(@, t)]
  /\ place' = [place EXCEPT ![t] = "waiting"]
  /\ UNCHANGED wakeup_

\* AddWaitTask queueing t.
AddWaitTaskQueued(t) ==
  LET o == block_[t] IN
  /\ wakeup_[o] = 0
  /\ wait_queue_' = [wait_queue_ EXCEPT ![o] = Append(@, t)]
  /\ place' = [place EXCEPT ![t] = "waiting"]
  /\ UNCHANGED wakeup_

\* The sys_block case of Processer::Run.  block_ is cleared in the same step:
\* t does not run, and so does not read or write block_, before the Run that
\* clears it has let go of t's Processer.
AddWaitTask(t) ==
  /\ place[t] = "yielded"
  /\ AddWaitTaskRefused(t) \/ AddWaitTaskQueued(t)
  /\ block_' = [block_ EXCEPT ![t] = NULL]

\* Mutant: Wakeup leaves the coroutine it wakes in the queue.
WakeupPeek(o) ==
  /\ wait_queue_[o] # <<>>
  /\ place' = [place EXCEPT ![Head(wait_queue_[o])] = "ready"]
  /\ UNCHANGED <<wakeup_, wait_queue_, block_>>

\* Mutant: Wakeup stores a wakeup beside the one it gave to a waiter.
WakeupTwice(o) ==
  /\ wait_queue_[o] # <<>>
  /\ wait_queue_' = [wait_queue_ EXCEPT ![o] = Tail(@)]
  /\ place' = [place EXCEPT ![Head(wait_queue_[o])] = "ready"]
  /\ wakeup_' = [wakeup_ EXCEPT ![o] = @ + 1]
  /\ UNCHANGED block_

\* Mutant: Wakeup takes the last waiter instead of the first.
WakeupLast(o) ==
  LET q == wait_queue_[o] IN
  /\ q # <<>>
  /\ wait_queue_' = [wait_queue_ EXCEPT ![o] = SubSeq(q, 1, Len(q) - 1)]
  /\ place' = [place EXCEPT ![q[Len(q)]] = "ready"]
  /\ UNCHANGED <<wakeup_, block_>>

\* Wakeup popping the first waiter and making it runnable.
WakeupWaiter(o) ==
  /\ wait_queue_[o] # <<>>
  /\ wait_queue_' = [wait_queue_ EXCEPT ![o] = Tail(@)]
  /\ place' = [place EXCEPT ![Head(wait_queue_[o])] = "ready"]
  /\ UNCHANGED <<wakeup_, block_>>

\* Wakeup with nobody waiting: the wakeup is stored.
WakeupStored(o) ==
  /\ wait_queue_[o] = <<>>
  /\ wakeup_[o] < MaxWakeup[o]
  /\ wakeup_' = [wakeup_ EXCEPT ![o] = @ + 1]
  /\ UNCHANGED <<wait_queue_, block_, place>>

\* Wakeup returning false.
WakeupFailed(o) ==
  /\ wait_queue_[o] = <<>>
  /\ wakeup_[o] >= MaxWakeup[o]
  /\ UNCHANGED vars

\* Wakeup, called by a coroutine, a timer callback or a plain thread.
Wakeup(o) == WakeupWaiter(o) \/ WakeupStored(o)

\* A Processer runs a coroutine of its runnable list again: the call of
\* CoBlockWait that yielded returns.
Resume(t) ==
  /\ place[t] = "ready"
  /\ place' = [place EXCEPT ![t] = "running"]
  /\ UNCHANGED <<wakeup_, wait_queue_, block_>>

Next ==
  \/ \E o \in Object :
       \/ TryBlockWait(o) \/ Wakeup(o) \/ WakeupFailed(o)
       \/ \E t \in Task : CoBlockWait(t, o)
  \/ \E t \in Task : AddWaitTask(t) \/ Resume(t)

\* A thread inside Processer::Run reaches the switch on the state of the
\* coroutine that yielded, and runs the coroutines of its list.
Fairness == \A t \in Task : WF_vars(AddWaitTask(t)) /\ WF_vars(Resume(t))

Safety == Init /\ [][Next]_vars

Spec == Safety /\ Fairness

-----------------------------------------------------------------------------

\* t is an element of the sequence q.
Queued(q, t) == \E i \in 1..Len(q) : q[i] = t

\* No element of q occurs twice.
Distinct(q) == \A i, j \in 1..Len(q) : q[i] = q[j] => i = j

\* Every variable has its type; wakeup_, a size_t, never goes below zero nor
\* above max_wakeup_, and block_ is set exactly while AddWaitTask is due.
TypeOK ==
  /\ wakeup_ \in [Object -> Nat]
  /\ \A o \in Object : wakeup_[o] <= MaxWakeup[o]
  /\ wait_queue_ \in [Object -> Seq(Task)]
  /\ block_ \in [Task -> Object \cup {NULL}]
  /\ place \in [Task -> Place]
  /\ \A t \in Task : block_[t] # NULL <=> place[t] = "yielded"

\* No wakeup is lost in the window between the yield and AddWaitTask: a
\* coroutine sits in wait_queue_ only while no wakeup is stored beside it.
NoIdleWakeup == \A o \in Object : wait_queue_[o] # <<>> => wakeup_[o] = 0

\* A coroutine is in wait_queue_ of at most one object, at most once, and
\* exactly while it waits: Wakeup never makes a coroutine runnable that is
\* running or already in a runnable list.
QueuedOnce ==
  /\ \A o \in Object : Distinct(wait_queue_[o])
  /\ \A o, p \in Object : \A t \in Task :
       Queued(wait_queue_[o], t) /\ Queued(wait_queue_[p], t) => o = p
  /\ \A t \in Task :
       place[t] = "waiting" <=> \E o \in Object : Queued(wait_queue_[o], t)

\* The coroutines whose CoBlockWait(o) has not been granted yet.
Pending == [o \in Object |->
             {t \in Task : block_[t] = o \/ Queued(wait_queue_[o], t)}]

Sem == INSTANCE Semaphore WITH permits <- wakeup_, pending <- Pending

\* Every step of the object, the unlocked window included, is a step of a
\* counting semaphore, and a wakeup never stays stored beside a blocked
\* coroutine for ever (CoBlockWait, AddWaitTask and Wakeup together).
ImplementsSemaphore == Sem!SSpec

\* The safety part of the above.
SemaphoreSafety == Sem!SSafety
=============================================================================
