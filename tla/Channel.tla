------------------------------- MODULE Channel -------------------------------
(***************************************************************************)
(* Channels (channel.h), Channel<T> or Channel<void>: each a BlockObject   *)
(* of write permits, created with capacity of them, one of read permits    *)
(* and, for Channel<T>, a queue of messages under a CoMutex.  A reader     *)
(* first posts a write permit, so that a writer may go on, and then waits  *)
(* for the read permit that a writer posts.                                *)
(*                                                                         *)
(* A step is one call on one of the three objects.  A caller's pc names    *)
(* the call it makes next; a coroutine blocked in a call is at the pc      *)
(* after it and goes on when it is run again.  queue_ is the number of     *)
(* messages: push and pop happen inside queue_lock_ and take effect with   *)
(* its unlock.                                                             *)
(*                                                                         *)
(* <<, TryPush: idle -> lock_push -> push -> post -> idle                  *)
(* >>:          idle -> wait_read -> lock_pop -> pop -> idle               *)
(* TryPop:      idle -> try_read -> lock_pop -> pop -> idle                *)
(*                       |-> take_back -> idle | try_read                  *)
(*                                                                         *)
(* BlockTryPush and BlockTryPop call TryPush and TryPop until they succeed *)
(* or a timeout passes: here a caller that is idle may call them again.    *)
(***************************************************************************)
EXTENDS BlockObject

CONSTANTS
  Thread,      \* callers that are not coroutines: CoBlockWait polls
  Chan,        \* channels
  write_block, \* the object write_block_ of each
  read_block,  \* the object read_block_ of each
  queue_lock,  \* the object of the mutex queue_lock_ of each
  MaxQueue     \* bound: no write starts while this many messages are queued

ASSUME ChannelAssumption ==
  /\ {write_block, read_block, queue_lock} \subseteq [Chan -> Object]
  /\ \A k, l \in Chan : \A f, g \in {write_block, read_block, queue_lock} :
       f[k] = g[l] => f = g /\ k = l
  /\ IsFiniteSet(Task \cup Thread)
  /\ Task \cap Thread = {}
  /\ \A k \in Chan : /\ InitWakeup[read_block[k]] = 0
                     /\ InitWakeup[queue_lock[k]] = 1
                     /\ MaxWakeup[queue_lock[k]] = 1
  /\ MaxQueue \in Nat
  /\ NULL \notin Chan

Caller == Task \cup Thread

Capacity(k) == InitWakeup[write_block[k]]

VARIABLES
  queue_, \* the length of ChannelImpl::queue_ of each channel
  pc,     \* where each caller is
  chan,   \* the channel each caller uses, or NULL
  void    \* the channels that are Channel<void>: no queue, no queue_lock_

cvars == <<vars, queue_, pc, chan, void>>

PC == {"idle", "lock_push", "push", "post", "wait_read", "lock_pop", "pop",
       "try_read", "take_back"}

CInit ==
  /\ Init
  /\ queue_ = [k \in Chan |-> 0]
  /\ pc = [c \in Caller |-> "idle"]
  /\ chan = [c \in Caller |-> NULL]
  /\ void \in {{}, Chan}

-----------------------------------------------------------------------------

Active(c) == c \in Task => place[c] = "running"

Goto(c, k, from, to) ==
  /\ Active(c)
  /\ pc[c] = from
  /\ pc' = [pc EXCEPT ![c] = to]
  /\ chan[c] \in {k, NULL}
  /\ chan' = [chan EXCEPT ![c] = IF to = "idle" THEN NULL ELSE k]
  /\ UNCHANGED void

\* CoBlockWait by either kind of caller.
Wait(c, o) ==
  \/ c \in Task /\ CoBlockWait(c, o)
  \/ c \in Thread /\ TryBlockWait(o)

\* Wakeup with its result ignored.
Post(o) == Wakeup(o) \/ WakeupFailed(o)

\* The calls after a write permit and after a read permit.
Granted(k, side) ==
  CASE side = "write" -> IF k \in void THEN "post" ELSE "lock_push"
    [] side = "read"  -> IF k \in void THEN "idle" ELSE "lock_pop"

\* operator<<: write_block_.CoBlockWait().
Write(c, k) ==
  /\ Goto(c, k, "idle", Granted(k, "write"))
  /\ Wait(c, write_block[k])
  /\ UNCHANGED queue_

\* TryPush: write_block_.TryBlockWait() returning true; the TryPush that
\* returns false changes nothing.
TryPush(c, k) ==
  /\ Goto(c, k, "idle", Granted(k, "write"))
  /\ TryBlockWait(write_block[k])
  /\ UNCHANGED queue_

\* queue_lock_.lock() before the push and before the pop.
LockQueue(c, k) ==
  /\ Goto(c, k, "lock_push", "push") \/ Goto(c, k, "lock_pop", "pop")
  /\ Wait(c, queue_lock[k])
  /\ UNCHANGED queue_

\* queue_.push and queue_lock_.unlock().
Push(c, k) ==
  /\ Goto(c, k, "push", "post")
  /\ queue_' = [queue_ EXCEPT ![k] = @ + 1]
  /\ Wakeup(queue_lock[k])

\* Mutant: a writer returns without the wakeup of a reader.
PostReadSkipped(c, k) ==
  /\ Goto(c, k, "post", "idle")
  /\ UNCHANGED <<vars, queue_>>

\* read_block_.Wakeup(): the end of operator<< and TryPush.
PostRead(c, k) ==
  /\ Goto(c, k, "post", "idle")
  /\ Post(read_block[k])
  /\ UNCHANGED queue_

\* operator>> (next is wait_read) and TryPop (try_read): write_block_.Wakeup().
PostWrite(c, k, next) ==
  /\ Goto(c, k, "idle", next)
  /\ Post(write_block[k])
  /\ UNCHANGED queue_

\* operator>>: read_block_.CoBlockWait().
WaitRead(c, k) ==
  /\ Goto(c, k, "wait_read", Granted(k, "read"))
  /\ Wait(c, read_block[k])
  /\ UNCHANGED queue_

\* Mutant: TryPop returns with its permit and without its message.
TryReadNoPop(c, k) ==
  \/ /\ Goto(c, k, "try_read", "idle")
     /\ TryBlockWait(read_block[k])
     /\ UNCHANGED queue_
  \/ /\ Goto(c, k, "try_read", "take_back")
     /\ ~IsWakeup(read_block[k])
     /\ UNCHANGED <<vars, queue_>>

\* TryPop: read_block_.TryBlockWait().
TryRead(c, k) ==
  \/ /\ Goto(c, k, "try_read", Granted(k, "read"))
     /\ TryBlockWait(read_block[k])
     /\ UNCHANGED queue_
  \/ /\ Goto(c, k, "try_read", "take_back")
     /\ ~IsWakeup(read_block[k])
     /\ UNCHANGED <<vars, queue_>>

\* Mutant: TryPop returns false and leaves its write permit behind.
TakeBackForgets(c, k) ==
  /\ Goto(c, k, "take_back", "idle")
  /\ UNCHANGED <<vars, queue_>>

\* Mutant: TryPop only ever looks for a message again.
TakeBackLoops(c, k) ==
  /\ Goto(c, k, "take_back", "try_read")
  /\ UNCHANGED <<vars, queue_>>

\* TryPop: write_block_.TryBlockWait() takes a permit back, and TryPop returns
\* false; without one, CoYield and the next turn of the loop.
TakeBack(c, k) ==
  \/ /\ Goto(c, k, "take_back", "idle")
     /\ TryBlockWait(write_block[k])
     /\ UNCHANGED queue_
  \/ /\ Goto(c, k, "take_back", "try_read")
     /\ ~IsWakeup(write_block[k])
     /\ UNCHANGED <<vars, queue_>>

\* queue_.pop and queue_lock_.unlock().
Pop(c, k) ==
  /\ Goto(c, k, "pop", "idle")
  /\ queue_' = [queue_ EXCEPT ![k] = @ - 1]
  /\ Wakeup(queue_lock[k])

\* The steps of the scheduler under a blocked coroutine.
Background(t) == (AddWaitTask(t) \/ Resume(t)) /\ UNCHANGED <<queue_, pc, chan, void>>

Start(c, k) ==
  \/ queue_[k] < MaxQueue /\ (Write(c, k) \/ TryPush(c, k))
  \/ \E next \in {"wait_read", "try_read"} : PostWrite(c, k, next)

Proceed(c, k) ==
  \/ LockQueue(c, k) \/ Push(c, k) \/ PostRead(c, k)
  \/ WaitRead(c, k) \/ TryRead(c, k) \/ TakeBack(c, k) \/ Pop(c, k)

\* The callers of a set use the channels of a set as they like.
CNext(callers, chans) ==
  \/ \E c \in callers, k \in chans : Start(c, k) \/ Proceed(c, k)
  \/ \E t \in Task : Background(t)

\* A caller inside an operation goes on, a plain thread polls again, and the
\* scheduler's threads run what is runnable.  Nobody has to start.
CFairness ==
  /\ \A c \in Caller : WF_cvars(\E k \in Chan : Proceed(c, k))
  /\ \A t \in Task : WF_cvars(Background(t))

-----------------------------------------------------------------------------

\* The callers of a channel that have a write permit and have not posted a read
\* permit.
Writers(k) ==
  {c \in Caller : chan[c] = k /\ pc[c] \in {"lock_push", "push", "post"}}
    \ Pending[write_block[k]]

\* The callers that have posted a write permit and wait for a read permit.
Readers(k) ==
  {c \in Caller : chan[c] = k /\ pc[c] \in {"wait_read", "try_read", "take_back"}}
    \cup Pending[read_block[k]]

\* The callers that have a read permit and have not popped.
Poppers(k) ==
  {c \in Caller : chan[c] = k /\ pc[c] \in {"lock_pop", "pop"}} \ Pending[read_block[k]]

\* Permits are conserved: every one in a channel comes from the capacity or
\* from a reader that still waits, whoever is suspended where.  A TryPop that
\* returned false has left nothing behind.
PermitBalance ==
  \A k \in Chan :
    wakeup_[write_block[k]] + wakeup_[read_block[k]] + Cardinality(Writers(k))
      = Capacity(k) + Cardinality(Readers(k))

\* A queue holds one message for each read permit, each reader that has one
\* and each writer that is about to post one; so front() and pop() find one,
\* and one caller at a time touches the queue.
QueueExact ==
  \A k \in Chan \ void :
    /\ queue_[k] = wakeup_[read_block[k]] + Cardinality(Poppers(k))
                     + Cardinality({c \in Caller : chan[c] = k /\ pc[c] = "post"})
    /\ \A c, d \in {e \in Caller : chan[e] = k /\ pc[e] \in {"push", "pop"}} \ Pending[queue_lock[k]] :
         c = d /\ (pc[c] = "pop" => queue_[k] > 0)

\* A writer and a reader never stay blocked on each other's side.
WriterMeetsReader ==
  \A c \in Task : \A d \in Task \ {c} : \A k \in Chan :
    c \in Pending[write_block[k]] /\ d \in Pending[read_block[k]]
      ~> c \notin Pending[write_block[k]] \/ d \notin Pending[read_block[k]]

\* When callers stop starting operations, TryPop returns: the loop that found
\* both its permits taken gets one of them back.
TryPopReturns ==
  (<>[][~\E c \in Caller, k \in Chan : Start(c, k)]_cvars) =>
    \A c \in Caller :
      pc[c] \in {"try_read", "take_back"} ~> pc[c] \notin {"try_read", "take_back"}

\* The permits and the queue of every channel are in balance (operator<<,
\* operator>>, TryPush and TryPop).
ChannelBalanced == PermitBalance /\ QueueExact
=============================================================================
