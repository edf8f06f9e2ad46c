----------------------------- MODULE SyncProofs -----------------------------
(***************************************************************************)
(* Proofs about the blocking primitives of the coroutines: BlockObject and *)
(* its refinement of Semaphore, then CoMutex and CoRWMutex on top of it,   *)
(* for every set of objects, coroutines and threads.                       *)
(***************************************************************************)
EXTENDS CoRWMutex, Integers, FiniteSetTheorems, TLAPS

(***************************************************************************)
(* Proofs about BlockObject for every set of objects and coroutines.       *)
(* Neither the type invariant nor NoIdleWakeup is inductive alone: that    *)
(* Wakeup leaves block_ alone rests on the coroutine it pops being queued, *)
(* not yielded, which is QueuedOnce.  The three are proved together.       *)
(***************************************************************************)

\* The inductive invariant.
IndInv == TypeOK /\ NoIdleWakeup /\ QueuedOnce

-----------------------------------------------------------------------------

\* Pushing on wait_queue_ (TSQueue::push) adds the element at the end.
LEMMA QueuedAppend ==
  ASSUME NEW S, NEW q \in Seq(S), NEW e \in S, NEW t
  PROVE  Queued(Append(q, e), t) <=> Queued(q, t) \/ t = e
<1> DEFINE r == Append(q, e)
<1>1. /\ Len(r) = Len(q) + 1 /\ Len(q) \in Nat
      /\ \A i \in 1..Len(q) : r[i] = q[i]
      /\ r[Len(q) + 1] = e
  OBVIOUS
<1> HIDE DEF r
<1>2. Queued(r, t) <=> Queued(q, t) \/ t = e
  BY <1>1 DEF Queued
<1>3. QED
  BY <1>2, Zenon DEF r

\* Pushing an element that is not queued keeps the elements distinct.
LEMMA DistinctAppend ==
  ASSUME NEW S, NEW q \in Seq(S), NEW e \in S, Distinct(q), ~Queued(q, e)
  PROVE  Distinct(Append(q, e))
<1> DEFINE r == Append(q, e)
<1>1. /\ Len(r) = Len(q) + 1 /\ Len(q) \in Nat
      /\ \A i \in 1..Len(q) : r[i] = q[i]
      /\ r[Len(q) + 1] = e
  OBVIOUS
<1> HIDE DEF r
<1>2. Distinct(r)
  BY <1>1 DEF Queued, Distinct
<1>3. QED
  BY <1>2, Zenon DEF r

\* Popping from wait_queue_ (TSQueue::pop) removes the head and nothing else.
LEMMA PopProperties ==
  ASSUME NEW S, NEW q \in Seq(S), q # <<>>, Distinct(q)
  PROVE  /\ Head(q) \in S /\ Tail(q) \in Seq(S)
         /\ Queued(q, Head(q))
         /\ Distinct(Tail(q))
         /\ \A t : Queued(Tail(q), t) <=> Queued(q, t) /\ t # Head(q)
<1> DEFINE r == Tail(q)
           h == Head(q)
<1>1. /\ h \in S /\ r \in Seq(S) /\ Len(r) = Len(q) - 1
      /\ \A i \in 1..Len(r) : r[i] = q[i + 1]
      /\ h = q[1] /\ Len(q) \in Nat /\ Len(q) > 0
  OBVIOUS
<1> HIDE DEF r, h
<1>2. Queued(q, h) /\ Distinct(r)
  BY <1>1, SMTT(60) DEF Queued, Distinct
<1>3. ASSUME NEW t PROVE Queued(r, t) <=> Queued(q, t) /\ t # h
  <2>1. ASSUME Queued(r, t) PROVE Queued(q, t) /\ t # h
    BY <1>1, <2>1, SMTT(60) DEF Queued, Distinct
  <2>2. ASSUME Queued(q, t), t # h PROVE Queued(r, t)
    <3>1. PICK i \in 1..Len(q) : q[i] = t
      BY <2>2, Zenon DEF Queued
    <3>2. i - 1 \in 1..Len(r) /\ r[i - 1] = t
      BY <1>1, <2>2, <3>1
    <3>3. QED
      BY <3>2, Zenon DEF Queued
  <2>3. QED
    BY <2>1, <2>2, Zenon
<1>4. QED
  BY <1>1, <1>2, <1>3, Zenon DEF r, h

\* Nothing is queued in an empty queue.
LEMMA QueuedEmpty == \A t : ~Queued(<<>>, t) /\ Distinct(<<>>)
BY DEF Queued, Distinct

-----------------------------------------------------------------------------

USE BlockObjectAssumption

\* The constructed objects satisfy the invariant.
LEMMA InitIndInv == Init => IndInv
<1> SUFFICES ASSUME Init PROVE IndInv
  BY Zenon
<1>1. TypeOK
  BY DEF Init, TypeOK, Place
<1>2. NoIdleWakeup
  BY Zenon DEF Init, NoIdleWakeup
<1>3. QueuedOnce
  BY QueuedEmpty, Zenon DEF Init, QueuedOnce
<1>4. QED
  BY <1>1, <1>2, <1>3, Zenon DEF IndInv

\* TryBlockWait takes a stored wakeup, so nobody was queued beside it.
LEMMA TryBlockWaitIndInv ==
  ASSUME IndInv, NEW o \in Object, TryBlockWait(o)
  PROVE  IndInv'
<1>1. TypeOK'
  BY DEF IndInv, TypeOK, TryBlockWait
<1>2. NoIdleWakeup'
  BY DEF IndInv, TypeOK, NoIdleWakeup, TryBlockWait
<1>3. QueuedOnce'
  BY Zenon DEF IndInv, QueuedOnce, TryBlockWait
<1>4. QED
  BY <1>1, <1>2, <1>3, Zenon DEF IndInv

\* Wakeup hands over to the first waiter, or stores when nobody waits.
LEMMA WakeupIndInv ==
  ASSUME IndInv, NEW o \in Object, Wakeup(o)
  PROVE  IndInv'
<1>1. CASE WakeupStored(o)
  <2>1. TypeOK'
    BY <1>1 DEF IndInv, TypeOK, WakeupStored
  <2>2. NoIdleWakeup'
    BY <1>1, Zenon DEF IndInv, TypeOK, NoIdleWakeup, WakeupStored
  <2>3. QueuedOnce'
    BY <1>1, Zenon DEF IndInv, QueuedOnce, WakeupStored
  <2>4. QED
    BY <2>1, <2>2, <2>3, Zenon DEF IndInv
<1>2. CASE WakeupWaiter(o)
  <2> DEFINE q == wait_queue_[o]
             h == Head(q)
  <2>1. /\ q \in Seq(Task) /\ q # <<>> /\ Distinct(q)
        /\ wait_queue_' = [wait_queue_ EXCEPT ![o] = Tail(q)]
        /\ place' = [place EXCEPT ![h] = "ready"]
        /\ UNCHANGED <<wakeup_, block_>>
    BY <1>2, Zenon DEF IndInv, TypeOK, QueuedOnce, WakeupWaiter
  <2>2. /\ h \in Task /\ Tail(q) \in Seq(Task) /\ Queued(q, h) /\ Distinct(Tail(q))
        /\ \A t : Queued(Tail(q), t) <=> Queued(q, t) /\ t # h
    BY <2>1, PopProperties, SMTT(60)
  <2>3. place[h] = "waiting"
    BY <2>2, Zenon DEF IndInv, QueuedOnce
  <2> HIDE DEF h
  <2>4. TypeOK'
    BY <2>1, <2>2, <2>3, SMTT(60) DEF IndInv, TypeOK, Place
  <2>5. NoIdleWakeup'
    BY <2>1, Zenon DEF IndInv, TypeOK, NoIdleWakeup
  <2>6. \A p \in Object : \A t \in Task :
          Queued(wait_queue_'[p], t) <=> Queued(wait_queue_[p], t) /\ t # h
    BY <2>1, <2>2 DEF IndInv, TypeOK, QueuedOnce
  <2>7. \A p \in Object : Distinct(wait_queue_'[p])
    BY <2>1, <2>2, SMTT(60) DEF IndInv, TypeOK, QueuedOnce
  <2>8. QueuedOnce'
    BY <2>1, <2>2, <2>6, <2>7, ZenonT(60) DEF IndInv, TypeOK, QueuedOnce
  <2>9. QED
    BY <2>4, <2>5, <2>8, Zenon DEF IndInv
<1>3. QED
  BY <1>1, <1>2, Zenon DEF Wakeup

\* A coroutine that yields is in no queue: it was running.
LEMMA YieldOnIndInv ==
  ASSUME IndInv, NEW o \in Object, NEW t \in Task,
         place[t] = "running", YieldOn(t, o)
  PROVE  IndInv'
<1>1. TypeOK'
  BY Zenon DEF IndInv, TypeOK, Place, YieldOn
<1>2. NoIdleWakeup'
  BY Zenon DEF IndInv, NoIdleWakeup, YieldOn
<1>3. QueuedOnce'
  BY Zenon DEF IndInv, TypeOK, QueuedOnce, YieldOn
<1>4. QED
  BY <1>1, <1>2, <1>3, Zenon DEF IndInv

\* AddWaitTask looks at wakeup_ again before it queues.
LEMMA AddWaitTaskIndInv ==
  ASSUME IndInv, NEW t \in Task, AddWaitTask(t)
  PROVE  IndInv'
<1> DEFINE o == block_[t]
<1>1. o \in Object /\ place[t] = "yielded"
  BY Zenon DEF IndInv, TypeOK, AddWaitTask
<1>2. CASE AddWaitTaskRefused(t)
  <2>1. TypeOK'
    BY <1>1, <1>2, SMTT(60) DEF IndInv, TypeOK, Place, AddWaitTask, AddWaitTaskRefused
  <2>2. NoIdleWakeup'
    BY <1>1, <1>2, SMTT(60) DEF IndInv, TypeOK, NoIdleWakeup, AddWaitTaskRefused
  <2>3. QueuedOnce'
    BY <1>1, <1>2, SMTT(60) DEF IndInv, TypeOK, QueuedOnce, AddWaitTaskRefused
  <2>4. QED
    BY <2>1, <2>2, <2>3, SMTT(60) DEF IndInv
<1>3. CASE AddWaitTaskQueued(t)
  <2> DEFINE q == wait_queue_[o]
             r == Append(q, t)
  <2>1. /\ q \in Seq(Task) /\ Distinct(q) /\ wakeup_[o] = 0
        /\ wait_queue_' = [wait_queue_ EXCEPT ![o] = r]
        /\ place' = [place EXCEPT ![t] = "waiting"]
        /\ block_' = [block_ EXCEPT ![t] = NULL]
        /\ wakeup_' = wakeup_
    BY <1>1, <1>3, SMTT(60) DEF IndInv, TypeOK, QueuedOnce, AddWaitTask, AddWaitTaskQueued
  <2>2. \A p \in Object : ~Queued(wait_queue_[p], t)
    BY <1>1, SMTT(60) DEF IndInv, QueuedOnce
  <2>3. /\ r \in Seq(Task) /\ Distinct(r)
        /\ \A u : Queued(r, u) <=> Queued(q, u) \/ u = t
    BY <1>1, <2>1, <2>2, QueuedAppend, DistinctAppend, SMTT(60)
  <2> HIDE DEF r
  <2>4. TypeOK'
    BY <1>1, <2>1, <2>3, SMTT(60) DEF IndInv, TypeOK, Place
  <2>5. NoIdleWakeup'
    BY <1>1, <2>1, Zenon DEF IndInv, TypeOK, NoIdleWakeup
  <2>6. \A p \in Object : \A u \in Task :
          Queued(wait_queue_'[p], u) <=>
            Queued(wait_queue_[p], u) \/ (p = o /\ u = t)
    BY <1>1, <2>1, <2>3, SMTT(60) DEF IndInv, TypeOK
  <2>7. \A p \in Object : Distinct(wait_queue_'[p])
    BY <1>1, <2>1, <2>3, SMTT(60) DEF IndInv, TypeOK, QueuedOnce
  <2> HIDE DEF o
  <2>8. QueuedOnce'
    <3>1. \A p, s \in Object : \A u \in Task :
            Queued(wait_queue_'[p], u) /\ Queued(wait_queue_'[s], u) => p = s
      BY <2>2, <2>6, SMTT(60) DEF IndInv, QueuedOnce
    <3>2. \A u \in Task :
            place'[u] = "waiting" <=> \E p \in Object : Queued(wait_queue_'[p], u)
      BY <1>1, <2>1, <2>2, <2>6, SMTT(60) DEF IndInv, TypeOK, QueuedOnce
    <3>3. QED
      BY <2>7, <3>1, <3>2, Zenon DEF QueuedOnce
  <2>9. QED
    BY <2>4, <2>5, <2>8, Zenon DEF IndInv
<1>4. QED
  BY <1>2, <1>3, Zenon DEF AddWaitTask

\* A coroutine that runs again leaves the runnable list, not a queue.
LEMMA ResumeIndInv ==
  ASSUME IndInv, NEW t \in Task, Resume(t)
  PROVE  IndInv'
<1>1. TypeOK'
  BY Zenon DEF IndInv, TypeOK, Place, Resume
<1>2. NoIdleWakeup'
  BY Zenon DEF IndInv, NoIdleWakeup, Resume
<1>3. QueuedOnce'
  BY Zenon DEF IndInv, TypeOK, QueuedOnce, Resume
<1>4. QED
  BY <1>1, <1>2, <1>3, Zenon DEF IndInv

\* Every step of the objects preserves the invariant.
LEMMA NextIndInv == IndInv /\ [Next]_vars => IndInv'
<1> SUFFICES ASSUME IndInv, [Next]_vars PROVE IndInv'
  BY Zenon
<1>1. ASSUME NEW o \in Object, TryBlockWait(o) PROVE IndInv'
  BY <1>1, TryBlockWaitIndInv, Zenon
<1>2. ASSUME NEW o \in Object, Wakeup(o) PROVE IndInv'
  BY <1>2, WakeupIndInv, Zenon
<1>3. ASSUME NEW o \in Object, NEW t \in Task, CoBlockWait(t, o) PROVE IndInv'
  BY <1>3, TryBlockWaitIndInv, YieldOnIndInv, Zenon DEF CoBlockWait
<1>4. ASSUME NEW t \in Task, AddWaitTask(t) PROVE IndInv'
  BY <1>4, AddWaitTaskIndInv, Zenon
<1>5. ASSUME NEW t \in Task, Resume(t) PROVE IndInv'
  BY <1>5, ResumeIndInv, SMTT(60)
<1>6. CASE UNCHANGED vars
  BY <1>6, Zenon DEF vars, IndInv, TypeOK, NoIdleWakeup, QueuedOnce
<1>7. QED
  BY <1>1, <1>2, <1>3, <1>4, <1>5, <1>6, SMTT(60) DEF Next, WakeupFailed

\* The invariant holds in every reachable state of the block objects.
LEMMA IndInvHolds == Safety => []IndInv
BY InitIndInv, NextIndInv, PTL DEF Safety

\* wakeup_ stays within 0..max_wakeup_ and block_ is set exactly between a
\* coroutine's yield and its AddWaitTask.
THEOREM TypeCorrect == Safety => []TypeOK
<1>1. IndInv => TypeOK
  BY SMTT(60) DEF IndInv
<1>2. QED
  BY <1>1, IndInvHolds, PTL

\* No coroutine is queued beside a stored wakeup: the window between the
\* yield of CoBlockWait and AddWaitTask loses no wakeup.
THEOREM NoIdleWakeupHolds == Safety => []NoIdleWakeup
<1>1. IndInv => NoIdleWakeup
  BY SMTT(60) DEF IndInv
<1>2. QED
  BY <1>1, IndInvHolds, PTL

\* Wakeup only ever pops coroutines that wait, each of them once.
THEOREM QueuedOnceHolds == Safety => []QueuedOnce
<1>1. IndInv => QueuedOnce
  BY Zenon DEF IndInv
<1>2. QED
  BY <1>1, IndInvHolds, PTL
-----------------------------------------------------------------------------

\* The constructed objects are fresh semaphores: nobody is pending.
LEMMA InitRefines == Init => Sem!SInit
<1> SUFFICES ASSUME Init PROVE Sem!SInit
  BY Zenon
<1>1. Pending = [o \in Object |-> {}]
  BY QueuedEmpty, Zenon DEF Init, Pending
<1>2. QED
  BY <1>1, Zenon DEF Init, Sem!SInit

\* AddWaitTask is a grant when it finds a wakeup, and no change otherwise.
LEMMA AddWaitTaskRefines ==
  ASSUME IndInv, NEW t \in Task, AddWaitTask(t)
  PROVE  [Sem!SNext]_Sem!svars
<1> DEFINE o == block_[t]
<1>1. o \in Object /\ o # NULL /\ place[t] = "yielded"
  BY Zenon DEF IndInv, TypeOK, AddWaitTask
<1>2. \A p \in Object : ~Queued(wait_queue_[p], t)
  BY <1>1, Zenon DEF IndInv, QueuedOnce
<1>3. block_' = [block_ EXCEPT ![t] = NULL] /\ block_ \in [Task -> Object \cup {NULL}]
  BY Zenon DEF AddWaitTask, IndInv, TypeOK
<1>4. CASE AddWaitTaskRefused(t)
  <2>0. wait_queue_' = wait_queue_
    BY <1>4, SMTT(60) DEF AddWaitTaskRefused
  <2>1. Pending' = [Pending EXCEPT ![o] = @ \ {t}] /\ t \in Pending[o]
    <3>1. \A p \in Object : \A u \in Task : block_'[u] = p <=> block_[u] = p /\ u # t
      BY <1>1, <1>3, Zenon
    <3> HIDE DEF o
    <3>3. \A p \in Object : Pending'[p] = IF p = o THEN Pending[p] \ {t} ELSE Pending[p]
      <4> SUFFICES ASSUME NEW p \in Object
                   PROVE  Pending'[p] = IF p = o THEN Pending[p] \ {t} ELSE Pending[p]
        BY Zenon
      <4>1. \A u \in Task : u \in Pending'[p] <=>
               (block_[u] = p /\ u # t) \/ Queued(wait_queue_[p], u)
        BY <2>0, <3>1, Zenon DEF Pending
      <4>2. \A u \in Task : u \in Pending[p] <=>
               block_[u] = p \/ Queued(wait_queue_[p], u)
        BY Zenon DEF Pending
      <4>3. block_[t] = o
        BY Zenon DEF o
      <4>4. Pending'[p] \subseteq Task /\ Pending[p] \subseteq Task
        BY Zenon DEF Pending
      <4>5. QED
        BY <1>2, <4>1, <4>2, <4>3, <4>4, ZenonT(60)
    <3>4. t \in Pending[o]
      BY <1>1, Zenon DEF Pending, o
    <3>5. QED
      BY <3>3, <3>4, ZenonT(60) DEF Pending
  <2>2. Sem!Grant(t, o)
    BY <1>4, <2>1, Zenon DEF AddWaitTaskRefused, Sem!Grant
  <2>3. QED
    BY <1>1, <2>2, Zenon DEF Sem!SNext
<1>5. CASE AddWaitTaskQueued(t)
  <2>1. /\ wait_queue_' = [wait_queue_ EXCEPT ![o] = Append(wait_queue_[o], t)]
        /\ wait_queue_ \in [Object -> Seq(Task)]
        /\ wakeup_' = wakeup_
    BY <1>5, Zenon DEF AddWaitTaskQueued, IndInv, TypeOK
  <2>2. \A u \in Task : Queued(Append(wait_queue_[o], t), u)
                          <=> Queued(wait_queue_[o], u) \/ u = t
    BY <1>1, <2>1, QueuedAppend
  <2> HIDE DEF o
  <2>3. \A p \in Object : \A u \in Task :
          Queued(wait_queue_'[p], u) <=> Queued(wait_queue_[p], u) \/ (p = o /\ u = t)
    BY <1>1, <2>1, <2>2, SMTT(60)
  <2>4. Pending' = Pending
    <3>1. \A p \in Object : \A u \in Task :
            block_'[u] = p \/ Queued(wait_queue_'[p], u) <=>
            block_[u] = p \/ Queued(wait_queue_[p], u)
      BY <1>1, <1>3, <2>3, Zenon DEF o
    <3>2. QED
      BY <3>1, Zenon DEF Pending
  <2>5. QED
    BY <2>1, <2>4, Zenon DEF Sem!svars
<1>6. QED
  BY <1>4, <1>5, SMTT(60) DEF AddWaitTask

\* Wakeup is a hand-over to a pending coroutine, or a post.
LEMMA WakeupRefines ==
  ASSUME IndInv, NEW o \in Object, Wakeup(o)
  PROVE  Sem!SNext
<1>1. CASE WakeupStored(o)
  <2>1. Pending' = Pending
    BY <1>1, Zenon DEF WakeupStored, Pending
  <2>2. QED
    BY <1>1, <2>1, ZenonT(60) DEF WakeupStored, Sem!SNext, Sem!Post
<1>2. CASE WakeupWaiter(o)
  <2> DEFINE q == wait_queue_[o]
             h == Head(q)
  <2>1. /\ q \in Seq(Task) /\ q # <<>> /\ Distinct(q)
        /\ wait_queue_' = [wait_queue_ EXCEPT ![o] = Tail(q)]
        /\ wakeup_' = wakeup_ /\ block_' = block_
    BY <1>2, Zenon DEF IndInv, TypeOK, QueuedOnce, WakeupWaiter
  <2>2. /\ h \in Task /\ Queued(q, h)
        /\ \A t : Queued(Tail(q), t) <=> Queued(q, t) /\ t # h
    BY <2>1, PopProperties, Zenon
  <2>3. block_[h] = NULL /\ wakeup_[o] = 0
    BY <2>1, <2>2, ZenonT(60) DEF IndInv, TypeOK, NoIdleWakeup, QueuedOnce
  <2> HIDE DEF h
  <2>4. Pending' = [Pending EXCEPT ![o] = @ \ {h}] /\ h \in Pending[o]
    <3>2. \A p \in Object : \A u \in Task :
            Queued(wait_queue_'[p], u) <=> Queued(wait_queue_[p], u) /\ ~(p = o /\ u = h)
      BY <2>1, <2>2, Zenon DEF IndInv, TypeOK
    <3>3. QED
      BY <2>1, <2>2, <2>3, <3>2, ZenonT(60) DEF Pending
  <2>5. Sem!HandOff(h, o)
    BY <2>1, <2>3, <2>4, Zenon DEF Sem!HandOff
  <2>6. QED
    BY <2>2, <2>5, Zenon DEF Sem!SNext
<1>3. QED
  BY <1>1, <1>2, Zenon DEF Wakeup
\* A coroutine that yields on o becomes pending on o and on nothing else.
LEMMA YieldOnRefines ==
  ASSUME IndInv, NEW o \in Object, NEW t \in Task,
         place[t] = "running", YieldOn(t, o)
  PROVE  Sem!SNext
<1>1. \A p \in Object : t \notin Pending[p]
  BY ZenonT(60) DEF IndInv, TypeOK, QueuedOnce, Pending
<1>2. /\ block_ \in [Task -> Object \cup {NULL}]
      /\ block_' = [block_ EXCEPT ![t] = o] /\ wait_queue_' = wait_queue_
      /\ wakeup_' = wakeup_ /\ wakeup_[o] = 0
      /\ block_[t] = NULL
  BY Zenon DEF IndInv, TypeOK, YieldOn
<1>3. Pending' = [Pending EXCEPT ![o] = @ \cup {t}]
  <2>1. \A p \in Object : \A u \in Task :
          block_'[u] = p <=> block_[u] = p \/ (u = t /\ p = o)
    BY <1>2, Zenon
  <2>2. \A p \in Object : Pending'[p] = IF p = o THEN Pending[p] \cup {t} ELSE Pending[p]
    BY <1>2, <2>1 DEF Pending
  <2>3. QED
    BY <2>2, ZenonT(60) DEF Pending
<1>4. Sem!Block(t, o)
  BY <1>1, <1>2, <1>3, SMTT(60) DEF Sem!Block
<1>5. QED
  BY <1>4, SMTT(60) DEF Sem!SNext

\* Every step of the objects is a step of the semaphores, or changes neither
\* the permits nor who is pending.
LEMMA NextRefines == IndInv /\ [Next]_vars => [Sem!SNext]_Sem!svars
<1> SUFFICES ASSUME IndInv, [Next]_vars PROVE [Sem!SNext]_Sem!svars
  BY Zenon
<1>1. ASSUME NEW o \in Object, TryBlockWait(o) PROVE Sem!SNext
  <2>1. Pending' = Pending
    BY <1>1, Zenon DEF TryBlockWait, Pending
  <2>2. QED
    BY <1>1, <2>1, ZenonT(60) DEF TryBlockWait, Sem!SNext, Sem!Take
<1>2. ASSUME NEW o \in Object, Wakeup(o) PROVE Sem!SNext
  BY <1>2, WakeupRefines, Zenon
<1>3. ASSUME NEW o \in Object, NEW t \in Task, CoBlockWait(t, o) PROVE Sem!SNext
  BY <1>1, <1>3, YieldOnRefines, Zenon DEF CoBlockWait
<1>4. ASSUME NEW t \in Task, AddWaitTask(t) PROVE [Sem!SNext]_Sem!svars
  BY <1>4, AddWaitTaskRefines, Zenon
<1>5. ASSUME NEW t \in Task, Resume(t) PROVE UNCHANGED Sem!svars
  BY <1>5, Zenon DEF Resume, Sem!svars, Pending
<1>6. CASE UNCHANGED vars
  BY <1>6, Zenon DEF vars, Sem!svars, Pending
<1>7. QED
  BY <1>1, <1>2, <1>3, <1>4, <1>5, <1>6, SMTT(60) DEF Next, WakeupFailed

\* BlockObject implements the counting semaphore: CoBlockWait, the unlocked
\* window, AddWaitTask, TryBlockWait and Wakeup neither create nor drop a
\* permit, for any number of objects, coroutines and any limits.
THEOREM RefinesSemaphore == Safety => SemaphoreSafety
<1>1. Safety => []IndInv
  BY IndInvHolds, SMTT(60)
<1>2. QED
  BY <1>1, InitRefines, NextRefines, PTL DEF Safety, SemaphoreSafety, Sem!SSafety

-----------------------------------------------------------------------------

(***************************************************************************)
(* Mutual exclusion of CoMutex for every set of mutexes, coroutines and    *)
(* threads.  MutualExclusion is not inductive: that an unlock hands the    *)
(* mutex to one coroutine only needs the exact account of IsLockExact, and *)
(* that the coroutine it pops asked for this mutex needs Asked below.      *)
(***************************************************************************)

\* A coroutine is pending on the object of the mutex it called lock on.
Asked ==
  \A t \in Task : \A o \in Object :
    block_[t] = o \/ Queued(wait_queue_[o], t) => mutex[t] = o

\* The inductive invariant.
MIndInv == IndInv /\ MTypeOK /\ Asked /\ MutualExclusion /\ IsLockExact

USE CoMutexAssumption

\* Every step of the mutexes is a step of their block objects.
LEMMA MNextIsNext == MNext => [Next]_vars
<1>1. ASSUME NEW o \in Object, NEW t \in Task, Lock(t, o) PROVE Next
  BY <1>1, SMTT(60) DEF Lock, Next
<1>2. ASSUME NEW o \in Object, NEW c \in Caller, TryLock(c, o) PROVE Next
  BY <1>2, SMTT(60) DEF TryLock, Next
<1>3. ASSUME NEW o \in Object, NEW c \in Caller, Unlock(c, o) PROVE Next
  BY <1>3, SMTT(60) DEF Unlock, Next
<1>4. ASSUME NEW o \in Object, NEW c \in Caller, DoubleUnlock(c, o) PROVE Next
  BY <1>4, SMTT(60) DEF DoubleUnlock, Next
<1>5. ASSUME NEW t \in Task, Background(t) PROVE Next
  BY <1>5, Zenon DEF Background, Next
<1>6. QED
  BY <1>1, <1>2, <1>3, <1>4, <1>5, SMTT(60) DEF MNext

\* Free mutexes, nobody has one.
LEMMA InitMIndInv == MInit => MIndInv
<1> SUFFICES ASSUME MInit PROVE MIndInv
  BY Zenon
<1>1. IndInv
  BY InitIndInv, Zenon DEF MInit
<1>2. MTypeOK
  BY <1>1, Zenon DEF MInit, MTypeOK, IndInv
<1>3. Asked
  BY QueuedEmpty, Zenon DEF MInit, Init, Asked
<1>4. MutualExclusion /\ IsLockExact
  BY DEF MInit, Init, MutualExclusion, IsLockExact, IsLock, IsWakeup, Holds
<1>5. QED
  BY <1>1, <1>2, <1>3, <1>4, SMTT(60) DEF MIndInv

\* Taking a stored wakeup, by lock, try_lock or a polling thread, takes a
\* mutex nobody has.
LEMMA TakeMIndInv ==
  ASSUME MIndInv, IndInv', NEW c \in Caller, NEW o \in Object,
         Active(c), mutex[c] = NULL, TryBlockWait(o),
         mutex' = [mutex EXCEPT ![c] = o]
  PROVE  MIndInv'
<1>0. /\ wakeup_[o] > 0 /\ wakeup_[o] <= 1
      /\ wakeup_' = [wakeup_ EXCEPT ![o] = wakeup_[o] - 1]
      /\ UNCHANGED <<wait_queue_, block_, place>>
      /\ wakeup_ \in [Object -> Nat] /\ mutex \in [Caller -> Object \cup {NULL}]
  BY Zenon DEF MIndInv, MTypeOK, TypeOK, TryBlockWait
<1>1. wakeup_[o] = 1 /\ wakeup_' = [wakeup_ EXCEPT ![o] = 0]
  <2>1. wakeup_[o] = 1 /\ 1 - 1 = 0
    BY <1>0
  <2>2. QED
    BY <1>0, <2>1, ZenonT(60)
<1>2. \A d \in Caller : ~Holds(d, o)
  BY <1>0, <1>1, SMTT(60) DEF MIndInv, IsLockExact, IsLock, IsWakeup
<1>3. \A d \in Caller : \A p \in Object :
        Holds(d, p)' <=> Holds(d, p) \/ (d = c /\ p = o)
  BY <1>0, <1>1, Zenon DEF Holds, Active
<1>4. MutualExclusion'
  BY <1>2, <1>3, SMTT(60) DEF MIndInv, MutualExclusion
<1>5. IsLockExact'
  BY <1>0, <1>1, <1>3 DEF MIndInv, IsLockExact, IsLock, IsWakeup
<1>6. MTypeOK'
  BY <1>0, <1>1, SMTT(60) DEF IndInv, MTypeOK
<1>7. Asked'
  BY <1>0, <1>1 DEF MIndInv, Asked, Caller
<1>8. QED
  BY <1>4, <1>5, <1>6, <1>7, SMTT(60) DEF MIndInv

\* A lock() that finds the mutex taken makes nobody a holder.
LEMMA YieldMIndInv ==
  ASSUME MIndInv, IndInv', NEW t \in Task, NEW o \in Object,
         place[t] = "running", mutex[t] = NULL, YieldOn(t, o),
         mutex' = [mutex EXCEPT ![t] = o]
  PROVE  MIndInv'
<1>1. /\ block_' = [block_ EXCEPT ![t] = o]
      /\ place' = [place EXCEPT ![t] = "yielded"]
      /\ UNCHANGED <<wakeup_, wait_queue_>>
      /\ block_ \in [Task -> Object \cup {NULL}] /\ place \in [Task -> Place]
      /\ mutex \in [Caller -> Object \cup {NULL}] /\ t \in Caller
  BY Zenon DEF MIndInv, IndInv, MTypeOK, TypeOK, YieldOn, Caller
<1>2. \A d \in Caller : \A p \in Object : Holds(d, p)' <=> Holds(d, p)
  BY <1>1, Zenon DEF Holds
<1>3. MutualExclusion' /\ IsLockExact'
  BY <1>1, <1>2, Zenon DEF MIndInv, MutualExclusion, IsLockExact, IsLock, IsWakeup
<1>4. MTypeOK'
  BY <1>1, Zenon DEF IndInv, MTypeOK
<1>5. Asked'
  <2>1. \A p \in Object : ~Queued(wait_queue_[p], t)
    BY Zenon DEF MIndInv, IndInv, QueuedOnce
  <2>2. QED
    BY <1>1, <2>1, SMTT(60) DEF MIndInv, Asked, Caller
<1>6. QED
  BY <1>3, <1>4, <1>5, SMTT(60) DEF MIndInv

\* unlock() passes the mutex to the first coroutine waiting for it, or frees
\* it.
LEMMA UnlockMIndInv ==
  ASSUME MIndInv, IndInv', NEW c \in Caller, NEW o \in Object, Unlock(c, o)
  PROVE  MIndInv'
<1>1. /\ mutex[c] = o /\ mutex' = [mutex EXCEPT ![c] = NULL]
      /\ mutex \in [Caller -> Object \cup {NULL}]
      /\ wakeup_ \in [Object -> Nat] /\ place \in [Task -> Place]
      /\ wait_queue_ \in [Object -> Seq(Task)]
      /\ Holds(c, o)
  BY Zenon DEF Unlock, MIndInv, MTypeOK, TypeOK, Active, Holds
<1>2. wakeup_[o] = 0 /\ \A d \in Caller : Holds(d, o) => d = c
  BY <1>1, SMTT(60) DEF MIndInv, IsLockExact, MutualExclusion, IsLock, IsWakeup
<1>3. \A p \in Object : mutex[c] = p => p = o
  BY <1>1, Zenon
<1>4. c \in Task => /\ block_[c] = NULL
                    /\ \A p \in Object : ~Queued(wait_queue_[p], c)
  BY <1>1, ZenonT(60) DEF Holds, MIndInv, IndInv, TypeOK, QueuedOnce
<1>5. MTypeOK'
  BY <1>1, Zenon DEF IndInv, MTypeOK
<1>6. CASE WakeupStored(o)
  <2>1. /\ wakeup_' = [wakeup_ EXCEPT ![o] = 1]
        /\ UNCHANGED <<wait_queue_, block_, place>>
    BY <1>1, <1>2, <1>6 DEF WakeupStored
  <2>2. \A d \in Caller : \A p \in Object :
          Holds(d, p)' <=> Holds(d, p) /\ d # c
    BY <1>1, <2>1, Zenon DEF Holds
  <2>3. \A d \in Caller : ~Holds(d, o)'
    BY <1>2, <2>2, Zenon
  <2>4. MutualExclusion'
    BY <2>2, Zenon DEF MIndInv, MutualExclusion
  <2>5. IsLockExact'
    <3>1. \A p \in Object : p # o =>
            \A d \in Caller : Holds(d, p)' <=> Holds(d, p)
      BY <1>1, <2>2, Zenon DEF Holds
    <3>2. QED
      BY <1>1, <2>1, <2>3, <3>1, SMTT(60) DEF MIndInv, IsLockExact, IsLock, IsWakeup
  <2>6. Asked'
    BY <1>1, <1>4, <2>1, SMTT(60) DEF MIndInv, Asked
  <2>7. QED
    BY <1>5, <2>4, <2>5, <2>6, Zenon DEF MIndInv
<1>7. CASE WakeupWaiter(o)
  <2> DEFINE q == wait_queue_[o]
  <2>0. PICK h : h = Head(q)
    BY SMTT(60)
  <2>1. /\ q \in Seq(Task) /\ q # <<>> /\ Distinct(q)
        /\ wait_queue_' = [wait_queue_ EXCEPT ![o] = Tail(q)]
        /\ place' = [place EXCEPT ![h] = "ready"]
        /\ wakeup_' = wakeup_ /\ block_' = block_
    BY <1>7, <2>0, SMTT(60) DEF MIndInv, IndInv, TypeOK, QueuedOnce, WakeupWaiter
  <2>2. /\ h \in Task /\ h \in Caller /\ Queued(q, h)
        /\ \A t : Queued(Tail(q), t) <=> Queued(q, t) /\ t # h
    BY <2>0, <2>1, PopProperties, SMTT(60) DEF Caller
  <2>3. mutex[h] = o /\ place[h] = "waiting" /\ h # c
    BY <1>4, <2>2, SMTT(60) DEF MIndInv, Asked, IndInv, QueuedOnce
  <2>4. \A d \in Caller : \A p \in Object :
          Holds(d, p)' <=> (Holds(d, p) /\ d # c) \/ (d = h /\ p = o)
    BY <1>1, <2>1, <2>2, <2>3, SMTT(60) DEF Holds
  <2>5. MutualExclusion'
    BY <1>2, <2>4 DEF MIndInv, MutualExclusion
  <2>6. IsLockExact'
    <3>1. \A p \in Object : p # o =>
            \A d \in Caller : Holds(d, p)' <=> Holds(d, p)
      BY <1>1, <2>4, Zenon DEF Holds
    <3>2. Holds(h, o)'
      BY <2>2, <2>4, SMTT(60)
    <3>3. QED
      BY <1>2, <2>1, <2>2, <3>1, <3>2, SMTT(60) DEF MIndInv, IsLockExact, IsLock, IsWakeup
  <2>7. Asked'
    <3>1. \A p \in Object : \A u \in Task :
            Queued(wait_queue_'[p], u) => Queued(wait_queue_[p], u)
      BY <1>1, <2>1, <2>2, Zenon
    <3>2. QED
      BY <1>1, <1>4, <2>1, <3>1, SMTT(60) DEF MIndInv, Asked
  <2>8. QED
    BY <1>5, <2>5, <2>6, <2>7, Zenon DEF MIndInv
<1>8. QED
  BY <1>6, <1>7, Zenon DEF Unlock, Wakeup

\* AddWaitTask makes the coroutine a holder exactly when it consumes a
\* wakeup; running a coroutine again changes no holder.
LEMMA BackgroundMIndInv ==
  ASSUME MIndInv, IndInv', NEW t \in Task, Background(t)
  PROVE  MIndInv'
<1>1. /\ mutex' = mutex /\ t \in Caller
      /\ mutex \in [Caller -> Object \cup {NULL}]
      /\ wakeup_ \in [Object -> Nat] /\ place \in [Task -> Place]
      /\ block_ \in [Task -> Object \cup {NULL}]
      /\ wait_queue_ \in [Object -> Seq(Task)]
  BY Zenon DEF Background, MIndInv, MTypeOK, TypeOK, Caller
<1>2. MTypeOK'
  BY <1>1, Zenon DEF IndInv, MTypeOK
<1>3. CASE Resume(t)
  <2>1. \A d \in Caller : \A p \in Object : Holds(d, p)' <=> Holds(d, p)
    BY <1>1, <1>3, SMTT(60) DEF Resume, Holds
  <2>2. MutualExclusion' /\ IsLockExact' /\ Asked'
    BY <1>1, <1>3, <2>1, Zenon
       DEF Resume, MIndInv, MutualExclusion, IsLockExact, IsLock, IsWakeup, Asked
  <2>3. QED
    BY <1>2, <2>2, Zenon DEF MIndInv
<1>4. CASE AddWaitTask(t)
  <2> DEFINE o == block_[t]
  <2>1. /\ o \in Object /\ place[t] = "yielded" /\ mutex[t] = o
        /\ block_' = [block_ EXCEPT ![t] = NULL]
    BY <1>4, Zenon DEF AddWaitTask, MIndInv, IndInv, TypeOK, Asked
  <2>2. CASE AddWaitTaskRefused(t)
    <3>0. wakeup_[o] = 1 /\ 1 - 1 = 0
      <4>1. wakeup_[o] <= 1 /\ wakeup_[o] > 0
        BY <2>1, <2>2, Zenon DEF MIndInv, MTypeOK, TypeOK, AddWaitTaskRefused
      <4>2. QED
        BY <1>1, <2>1, <4>1, SMTT(60)
    <3>1. /\ wakeup_[o] = 1 /\ wakeup_' = [wakeup_ EXCEPT ![o] = 0]
          /\ place' = [place EXCEPT ![t] = "ready"] /\ wait_queue_' = wait_queue_
      BY <2>2, <3>0, ZenonT(60) DEF AddWaitTaskRefused
    <3> HIDE DEF o
    <3>2. \A d \in Caller : \A p \in Object :
            Holds(d, p)' <=> Holds(d, p) \/ (d = t /\ p = o)
      BY <1>1, <2>1, <3>1, ZenonT(60) DEF Holds
    <3>3. \A d \in Caller : ~Holds(d, o)
      BY <2>1, <3>1 DEF MIndInv, IsLockExact, IsLock, IsWakeup
    <3>4. MutualExclusion'
      BY <3>2, <3>3, SMTT(60) DEF MIndInv, MutualExclusion
    <3>5. IsLockExact'
      BY <1>1, <2>1, <3>1, <3>2, SMTT(60) DEF MIndInv, IsLockExact, IsLock, IsWakeup
    <3>6. Asked'
      BY <1>1, <2>1, <3>1, Zenon DEF MIndInv, Asked
    <3>7. QED
      BY <1>2, <3>4, <3>5, <3>6, SMTT(60) DEF MIndInv
  <2>3. CASE AddWaitTaskQueued(t)
    <3>1. /\ wait_queue_' = [wait_queue_ EXCEPT ![o] = Append(wait_queue_[o], t)]
          /\ place' = [place EXCEPT ![t] = "waiting"] /\ wakeup_' = wakeup_
      BY <2>3, Zenon DEF AddWaitTaskQueued
    <3>2. \A u \in Task : Queued(Append(wait_queue_[o], t), u)
                            <=> Queued(wait_queue_[o], u) \/ u = t
      BY <1>1, <2>1, QueuedAppend, SMTT(60)
    <3> HIDE DEF o
    <3>3. \A p \in Object : \A u \in Task :
            Queued(wait_queue_'[p], u) => Queued(wait_queue_[p], u) \/ (p = o /\ u = t)
      BY <1>1, <2>1, <3>1, <3>2, SMTT(60)
    <3>4. Asked'
      BY <1>1, <2>1, <3>3, SMTT(60) DEF MIndInv, Asked
    <3>5. \A d \in Caller : \A p \in Object : Holds(d, p)' <=> Holds(d, p)
      BY <1>1, <2>1, <3>1, SMTT(60) DEF Holds
    <3>6. MutualExclusion' /\ IsLockExact'
      BY <3>1, <3>5, Zenon DEF MIndInv, MutualExclusion, IsLockExact, IsLock, IsWakeup
    <3>7. QED
      BY <1>2, <3>4, <3>6, SMTT(60) DEF MIndInv
  <2>4. QED
    BY <1>4, <2>2, <2>3, ZenonT(60) DEF AddWaitTask
<1>5. QED
  BY <1>3, <1>4, SMTT(60) DEF Background
\* Every step of the mutexes preserves the invariant.
LEMMA NextMIndInv == MIndInv /\ [MNext]_mvars => MIndInv'
<1> SUFFICES ASSUME MIndInv, [MNext]_mvars PROVE MIndInv'
  BY Zenon
<1>1. IndInv'
  <2>1. [Next]_vars
    BY MNextIsNext, Zenon DEF mvars
  <2>2. QED
    BY <2>1, NextIndInv, Zenon DEF MIndInv
<1>2. ASSUME NEW o \in Object, NEW t \in Task, Lock(t, o) PROVE MIndInv'
  BY <1>1, <1>2, TakeMIndInv, YieldMIndInv, ZenonT(60) DEF Lock, CoBlockWait, Active, Caller
<1>3. ASSUME NEW o \in Object, NEW c \in Caller, TryLock(c, o) PROVE MIndInv'
  BY <1>1, <1>3, TakeMIndInv, ZenonT(60) DEF TryLock
<1>4. ASSUME NEW o \in Object, NEW c \in Caller, Unlock(c, o) PROVE MIndInv'
  BY <1>1, <1>4, UnlockMIndInv, Zenon
<1>5. ASSUME NEW t \in Task, Background(t) PROVE MIndInv'
  BY <1>1, <1>5, BackgroundMIndInv, SMTT(60)
<1>6. ASSUME UNCHANGED mvars PROVE MIndInv'
  BY <1>1, <1>6, SMTT(60) DEF mvars, vars, MIndInv, MTypeOK, TypeOK, Asked, MutualExclusion,
                    IsLockExact, IsLock, IsWakeup, Holds
<1>7. ASSUME NEW o \in Object, NEW c \in Caller, DoubleUnlock(c, o) PROVE MIndInv'
  BY <1>6, <1>7, Zenon DEF DoubleUnlock, WakeupFailed, mvars
<1>8. QED
  BY <1>2, <1>3, <1>4, <1>5, <1>6, <1>7, SMTT(60) DEF MNext

\* The invariant holds in every reachable state of the mutexes.
LEMMA MIndInvHolds == MSafety => []MIndInv
BY InitMIndInv, NextMIndInv, PTL DEF MSafety

\* lock() and try_lock() never let two callers in at once, for any number of
\* coroutines and plain threads.
THEOREM MutexExcludes == MSafety => []MutualExclusion
<1>1. MIndInv => MutualExclusion
  BY Zenon DEF MIndInv
<1>2. QED
  BY <1>1, MIndInvHolds, PTL

\* is_lock() answers exactly whether somebody has the mutex, so unlock() by
\* its holder never throws ec_mutex_double_unlock.
THEOREM MutexIsLockExact == MSafety => []IsLockExact
<1>1. MIndInv => IsLockExact
  BY ZenonT(60) DEF MIndInv
<1>2. QED
  BY <1>1, MIndInvHolds, PTL
\* A caller that becomes a holder beside a non-empty wait_queue_ is its head.
LEMMA StepNoOvertaking ==
  ASSUME MIndInv, MNext, NEW o \in Object, NEW c \in Caller,
         wait_queue_[o] # <<>>, ~Holds(c, o), Holds(c, o)'
  PROVE  c = Head(wait_queue_[o])
<1>1. /\ wakeup_[o] = 0
      /\ mutex \in [Caller -> Object \cup {NULL}]
      /\ place \in [Task -> Place]
  BY SMTT(60) DEF MIndInv, MTypeOK, IndInv, TypeOK, NoIdleWakeup
<1>2. ASSUME NEW p \in Object, NEW d \in Caller, TryBlockWait(p),
             mutex' = [mutex EXCEPT ![d] = p]
      PROVE  FALSE
  BY <1>1, <1>2, SMTT(60) DEF TryBlockWait, Holds
<1>3. ASSUME NEW p \in Object, NEW t \in Task, Lock(t, p) PROVE FALSE
  <2>1. YieldOn(t, p) => FALSE
    BY <1>1, <1>3, Zenon DEF Lock, YieldOn, Holds
  <2>2. QED
    BY <1>2, <1>3, <2>1, ZenonT(60) DEF Lock, CoBlockWait, Caller
<1>4. ASSUME NEW p \in Object, NEW d \in Caller, TryLock(d, p) PROVE FALSE
  BY <1>2, <1>4, ZenonT(60) DEF TryLock
<1>5. ASSUME NEW p \in Object, NEW d \in Caller, DoubleUnlock(d, p) PROVE FALSE
  BY <1>5, Zenon DEF DoubleUnlock, WakeupFailed, vars, Holds
<1>6. ASSUME NEW p \in Object, NEW d \in Caller, Unlock(d, p)
      PROVE  c = Head(wait_queue_[o])
  <2>1. mutex[c] = o /\ c \in Task /\ place'[c] # place[c]
    BY <1>1, <1>6, Zenon DEF Unlock, Holds
  <2>2. WakeupWaiter(p) /\ c = Head(wait_queue_[p])
    BY <1>1, <1>6, <2>1, SMTT(60) DEF Unlock, Wakeup, WakeupStored, WakeupWaiter
  <2>3. Queued(wait_queue_[p], c)
    BY <2>2, PopProperties, SMTT(60) DEF MIndInv, IndInv, TypeOK, QueuedOnce, WakeupWaiter
  <2>4. p = o
    BY <2>1, <2>3, Zenon DEF MIndInv, Asked
  <2>5. QED
    BY <2>2, <2>4, Zenon
<1>7. ASSUME NEW t \in Task, Background(t) PROVE FALSE
  <2>1. mutex[c] = o /\ c \in Task /\ place'[c] # place[c]
    BY <1>7, SMTT(60) DEF Background, Holds
  <2>2. CASE Resume(t)
    BY <1>1, <2>1, <2>2, ZenonT(60) DEF Resume, Holds
  <2>3. CASE AddWaitTask(t)
    <3>1. block_[t] \in Object /\ mutex[t] = block_[t]
      BY <2>3, ZenonT(60) DEF AddWaitTask, MIndInv, IndInv, TypeOK, Asked
    <3>2. t = c /\ AddWaitTaskRefused(t)
      BY <1>1, <2>1, <2>3, Zenon DEF AddWaitTask, AddWaitTaskRefused, AddWaitTaskQueued, Holds
    <3>3. QED
      BY <1>1, <2>1, <3>1, <3>2, SMTT(60) DEF AddWaitTaskRefused
  <2>4. QED
    BY <1>7, <2>2, <2>3, SMTT(60) DEF Background
<1>8. QED
  BY <1>3, <1>4, <1>5, <1>6, <1>7, SMTT(60) DEF MNext

\* unlock() hands the mutex to the first queued coroutine; no lock() or
\* try_lock() of anybody else gets in between.
THEOREM MutexNoOvertaking == MSafety => NoOvertaking
<1> DEFINE A == \A o \in Object : \A c \in Caller :
                  wait_queue_[o] # <<>> /\ ~Holds(c, o) /\ Holds(c, o)'
                    => c = Head(wait_queue_[o])
<1>1. MIndInv /\ MNext => A
  BY StepNoOvertaking, ZenonT(60)
<1>2. MIndInv /\ [MNext]_mvars => [A]_mvars
  BY <1>1, Zenon
<1>3. [][A]_mvars => NoOvertaking
  BY Zenon DEF NoOvertaking
<1> HIDE DEF A
<1>4. QED
  BY <1>2, <1>3, MIndInvHolds, PTL DEF MSafety

-----------------------------------------------------------------------------

(***************************************************************************)
(* Exclusion of CoRWMutex for any finite set of callers, on any number of  *)
(* threads.  A writer that sees readers_c_ = 0 knows that nobody reads     *)
(* because the count is exact (ReadersCounted); a reader that sees the     *)
(* mutex free knows that nobody writes because is_lock is exact            *)
(* (IsLockExact of CoMutex) and a writer has the mutex (Engaged).          *)
(***************************************************************************)

\* A coroutine is switched out only inside the mtx_.lock() of w_lock.
Engaged == \A t \in Task : pc[t] # "w_wait" => place[t] = "running"

\* The inductive invariant.
RWIndInv == MIndInv /\ RWTypeOK /\ Engaged /\ ReadersCounted /\ RWExclusion

USE CoRWMutexAssumption

\* Every step of the reader-writer mutex is a step of the mutex or none.
LEMMA RWNextIsMNext == RWNext => [MNext]_mvars
<1>1. ASSUME NEW c \in Caller, RIncrement(c) PROVE UNCHANGED mvars
  BY <1>1, Zenon DEF RIncrement
<1>2. ASSUME NEW c \in Caller, WLock(c) PROVE MNext
  BY <1>2, Zenon DEF WLock, MNext
<1>3. ASSUME NEW c \in Caller, WTryLock(c) PROVE MNext
  BY <1>3, Zenon DEF WTryLock, MNext
<1>4. ASSUME NEW c \in Caller, WUnlock(c) PROVE MNext
  BY <1>4, SMTT(60) DEF WUnlock, MNext
<1>5. ASSUME NEW c \in Caller, Proceed(c), ~WUnlock(c) PROVE UNCHANGED mvars
  BY <1>5, Zenon DEF Proceed, RIncrement, RCheck, RUndo, RUnlock, WLockCheck, WTryCheck
<1>6. ASSUME NEW t \in Task, RWBackground(t) PROVE MNext
  BY <1>6, Zenon DEF RWBackground, MNext
<1>7. QED
  BY <1>1, <1>2, <1>3, <1>4, <1>5, <1>6, SMTT(60) DEF RWNext

\* The states of a fresh reader-writer mutex.
LEMMA InitRWIndInv == RWInit => RWIndInv
<1> SUFFICES ASSUME RWInit PROVE RWIndInv
  BY Zenon
<1>1. MIndInv
  BY InitMIndInv, Zenon DEF RWInit
<1>2. RWTypeOK /\ Engaged
  BY <1>1, Zenon DEF RWInit, MInit, Init, RWTypeOK, PC, Engaged, MIndInv, Caller
<1>3. ReadersCounted
  <2>1. Counted = {}
    BY Zenon DEF RWInit, Counted
  <2>2. QED
    BY <2>1, FS_EmptySet, Zenon DEF RWInit, ReadersCounted
<1>4. RWExclusion
  BY Zenon DEF RWInit, RWExclusion
<1>5. QED
  BY <1>1, <1>2, <1>3, <1>4, Zenon DEF RWIndInv

\* Entering or leaving the counted states by one caller changes the number of
\* counted callers by one, and by none otherwise.
LEMMA CountedStep ==
  ASSUME NEW S, IsFiniteSet(S), NEW c
  PROVE  /\ c \notin S => Cardinality(S \cup {c}) = Cardinality(S) + 1
         /\ c \in S => Cardinality(S \ {c}) = Cardinality(S) - 1
         /\ Cardinality(S) \in Nat
BY FS_AddElement, FS_RemoveElement, FS_CardinalityType, ZenonT(60)

\* Counted is finite, and empty exactly when the count says so.
LEMMA CountedFinite ==
  /\ IsFiniteSet(Counted)
  /\ Cardinality(Counted) = 0 => Counted = {}
<1>1. IsFiniteSet(Counted)
  <2>1. Counted \subseteq Caller
    BY Zenon DEF Counted
  <2>2. QED
    BY <2>1, FS_Subset, Zenon
<1>2. QED
  BY <1>1, FS_EmptySet, Zenon

\* A caller that writes has the mutex.
LEMMA WriterHolds ==
  ASSUME RWIndInv, NEW c \in Caller,
         pc[c] \in {"wt_check", "wt_undo", "writing"}
  PROVE  Holds(c, mtx_)
BY Zenon DEF RWIndInv, RWTypeOK, Engaged, Holds

\* ++readers_c_ counts the caller that makes it.
LEMMA RIncrementInv ==
  ASSUME RWIndInv, MIndInv', NEW c \in Caller, RIncrement(c)
  PROVE  RWIndInv'
<1>1. PICK to \in {"rl_check", "rt_check"} :
        /\ pc[c] \in {"idle", "rl_again"}
        /\ pc' = [pc EXCEPT ![c] = to]
        /\ pc \in [Caller -> PC] /\ readers_c_ \in Nat
        /\ readers_c_' = readers_c_ + 1 /\ UNCHANGED mvars
  BY ZenonT(60) DEF RIncrement, Goto, RWIndInv, RWTypeOK
<1>2. RWTypeOK' /\ Engaged'
  BY <1>1, SMTT(60) DEF RWIndInv, RWTypeOK, MIndInv, Engaged, mvars, vars, PC
<1>3. Counted' = Counted \cup {c} /\ c \notin Counted
  BY <1>1, SMTT(60) DEF Counted
<1>4. ReadersCounted'
  BY <1>1, <1>3, CountedStep, CountedFinite, SMTT(60) DEF RWIndInv, ReadersCounted
<1>5. RWExclusion'
  BY <1>1, Zenon DEF RWIndInv, RWExclusion
<1>6. QED
  BY <1>2, <1>4, <1>5, Zenon DEF RWIndInv

\* --readers_c_, in r_unlock or by a reader that gives up, discounts it.
LEMMA RDecrementInv ==
  ASSUME RWIndInv, MIndInv', NEW c \in Caller, RUndo(c) \/ RUnlock(c)
  PROVE  RWIndInv'
<1>1. PICK to \in {"rl_again", "idle"} :
        /\ pc[c] \in {"rl_undo", "rt_undo", "reading"}
        /\ pc' = [pc EXCEPT ![c] = to]
        /\ pc \in [Caller -> PC] /\ readers_c_ \in Nat
        /\ readers_c_' = readers_c_ - 1 /\ UNCHANGED mvars
  BY Zenon DEF RUndo, RUnlock, Goto, RWIndInv, RWTypeOK
<1>2. Counted' = Counted \ {c} /\ c \in Counted
  BY <1>1, Zenon DEF Counted
<1>3. ReadersCounted'
  BY <1>1, <1>2, CountedStep, CountedFinite, Zenon DEF RWIndInv, ReadersCounted
<1>4. readers_c_' \in Nat
  <2>1. IsFiniteSet(Counted')
    BY <1>2, CountedFinite, FS_RemoveElement, ZenonT(60)
  <2>2. QED
    BY <1>3, <2>1, FS_CardinalityType, SMTT(60) DEF ReadersCounted
<1>5. RWTypeOK' /\ Engaged'
  BY <1>1, <1>4, SMTT(60) DEF RWIndInv, RWTypeOK, MIndInv, Engaged, mvars, vars, PC
<1>6. RWExclusion'
  BY <1>1, Zenon DEF RWIndInv, RWExclusion
<1>7. QED
  BY <1>3, <1>5, <1>6, SMTT(60) DEF RWIndInv

\* A reader gets in only when nobody has the mutex, so nobody writes.
LEMMA RCheckInv ==
  ASSUME RWIndInv, MIndInv', NEW c \in Caller, RCheck(c)
  PROVE  RWIndInv'
<1>1. PICK to \in {"rl_undo", "rt_undo", "reading"} :
        /\ pc[c] \in {"rl_check", "rt_check"}
        /\ pc' = [pc EXCEPT ![c] = to]
        /\ pc \in [Caller -> PC]
        /\ to = "reading" => ~IsLock(mtx_)
        /\ readers_c_' = readers_c_ /\ UNCHANGED mvars
  BY ZenonT(60) DEF RCheck, Goto, RWIndInv, RWTypeOK
<1>2. RWTypeOK' /\ Engaged'
  BY <1>1 DEF RWIndInv, RWTypeOK, MIndInv, Engaged, mvars, vars, PC
<1>3. Counted' = Counted
  BY <1>1, Zenon DEF Counted
<1>4. ReadersCounted'
  BY <1>1, <1>3, SMTT(60) DEF RWIndInv, ReadersCounted
<1>5. to = "reading" => \A d \in Caller : pc[d] # "writing"
  BY <1>1, WriterHolds, SMTT(60) DEF RWIndInv, MIndInv, IsLockExact
<1>6. RWExclusion'
  BY <1>1, <1>5, Zenon DEF RWIndInv, RWExclusion
<1>7. QED
  BY <1>2, <1>4, <1>6, SMTT(60) DEF RWIndInv

\* A writer gets in only with the mutex and past a zero count, so nobody
\* reads and nobody else writes.
LEMMA WCheckInv ==
  ASSUME RWIndInv, MIndInv', NEW c \in Caller, WLockCheck(c) \/ WTryCheck(c)
  PROVE  RWIndInv'
<1>1. PICK to \in {"wt_undo", "writing"} :
        /\ pc[c] \in {"w_wait", "wt_check"}
        /\ pc' = [pc EXCEPT ![c] = to]
        /\ pc \in [Caller -> PC]
        /\ to = "writing" => readers_c_ = 0
        /\ Active(c)
        /\ readers_c_' = readers_c_ /\ UNCHANGED mvars
  BY ZenonT(60) DEF WLockCheck, WTryCheck, CanStep, Goto, RWIndInv, RWTypeOK
<1>2. RWTypeOK' /\ Engaged'
  BY <1>1 DEF RWIndInv, RWTypeOK, MIndInv, Engaged, mvars, vars, PC, Active
<1>3. Counted' = Counted
  BY <1>1, Zenon DEF Counted
<1>4. ReadersCounted'
  BY <1>1, <1>3, Zenon DEF RWIndInv, ReadersCounted
<1>5. to = "writing" => \A d \in Caller : pc[d] # "reading"
  BY <1>1, CountedFinite, SMTT(60) DEF RWIndInv, ReadersCounted, Counted
<1>6. \A d \in Caller : pc[d] = "writing" => d = c
  <2>1. Holds(c, mtx_)
    BY <1>1, Zenon DEF Holds, Active, RWIndInv, RWTypeOK
  <2>2. QED
    BY <2>1, WriterHolds, ZenonT(60) DEF RWIndInv, MIndInv, MutualExclusion
<1>7. RWExclusion'
  BY <1>1, <1>5, <1>6, SMTT(60) DEF RWIndInv, RWExclusion
<1>8. QED
  BY <1>2, <1>4, <1>7, SMTT(60) DEF RWIndInv
\* Steps of the mutex move no caller in or out of the counted states, and
\* admit no writer.
LEMMA MutexStepInv ==
  ASSUME RWIndInv, MIndInv', RWTypeOK', Engaged', readers_c_' = readers_c_,
         \A d \in Caller :
           \/ pc'[d] = pc[d]
           \/ pc[d] \in {"idle", "wt_undo", "writing"}
                /\ pc'[d] \in {"w_wait", "wt_check", "idle"}
  PROVE  RWIndInv'
<1>1. Counted' = Counted
  BY ZenonT(60) DEF Counted
<1>2. ReadersCounted'
  BY <1>1, SMTT(60) DEF RWIndInv, ReadersCounted
<1>3. RWExclusion'
  BY SMTT(60) DEF RWIndInv, RWExclusion
<1>4. QED
  BY <1>2, <1>3, ZenonT(60) DEF RWIndInv

\* mtx_.lock() of w_lock and mtx_.try_lock() of w_try_lock.
LEMMA WAcquireInv ==
  ASSUME RWIndInv, MIndInv', NEW c \in Caller, WLock(c) \/ WTryLock(c)
  PROVE  RWIndInv'
<1>1. PICK to \in {"w_wait", "wt_check"} :
        /\ pc[c] = "idle" /\ pc' = [pc EXCEPT ![c] = to]
        /\ to = "wt_check" => place' = place
        /\ place' = place \/ (c \in Task /\ place' = [place EXCEPT ![c] = "yielded"])
        /\ mutex' = [mutex EXCEPT ![c] = mtx_]
        /\ readers_c_' = readers_c_
  BY Zenon DEF WLock, WTryLock, Goto, Lock, TryLock, CoBlockWait, TryBlockWait, YieldOn
<1>2. /\ pc \in [Caller -> PC] /\ readers_c_ \in Nat /\ place \in [Task -> Place]
      /\ mutex \in [Caller -> Object \cup {NULL}]
  BY SMTT(60) DEF RWIndInv, RWTypeOK, MTypeOK, TypeOK
<1>3. RWTypeOK'
  BY <1>1, <1>2, SMTT(60) DEF RWIndInv, RWTypeOK, MIndInv, PC
<1>4. Engaged'
  BY <1>1, <1>2, Zenon DEF RWIndInv, Engaged, Caller
<1>5. QED
  BY <1>1, <1>2, <1>3, <1>4, MutexStepInv, ZenonT(60)

\* mtx_.unlock() of w_unlock and w_try_lock: the coroutine it wakes up is
\* inside w_lock.
LEMMA WUnlockInv ==
  ASSUME RWIndInv, MIndInv', NEW c \in Caller, WUnlock(c)
  PROVE  RWIndInv'
<1>1. /\ pc[c] \in {"wt_undo", "writing"} /\ pc' = [pc EXCEPT ![c] = "idle"]
      /\ mutex' = [mutex EXCEPT ![c] = NULL]
      /\ readers_c_' = readers_c_
      /\ Wakeup(mtx_)
  BY SMTT(60) DEF WUnlock, Goto, Unlock
<1>2. /\ pc \in [Caller -> PC] /\ readers_c_ \in Nat /\ place \in [Task -> Place]
      /\ mutex \in [Caller -> Object \cup {NULL}]
      /\ wait_queue_ \in [Object -> Seq(Task)]
  BY ZenonT(60) DEF RWIndInv, RWTypeOK, MTypeOK, TypeOK
<1>3. RWTypeOK'
  BY <1>1, <1>2, Zenon DEF RWIndInv, RWTypeOK, MIndInv, PC
<1>4. Engaged'
  <2>1. CASE WakeupStored(mtx_)
    <3>1. place' = place
      BY <2>1, Zenon DEF WakeupStored
    <3>2. c \in Task => place[c] = "running"
      BY <1>1, Zenon DEF RWIndInv, Engaged
    <3>3. QED
      BY <1>1, <1>2, <3>1, <3>2, ZenonT(60) DEF RWIndInv, Engaged, Caller
  <2>2. CASE WakeupWaiter(mtx_)
    <3> DEFINE q == wait_queue_[mtx_]
    <3>1. PICK h : h = Head(q)
      BY ZenonT(60)
    <3>2. /\ h \in Task /\ Queued(q, h)
          /\ place' = [place EXCEPT ![h] = "ready"]
      <4>1. q # <<>> /\ place' = [place EXCEPT ![Head(q)] = "ready"]
        BY <2>2, ZenonT(60) DEF WakeupWaiter
      <4>2. q \in Seq(Task) /\ Distinct(q)
        BY <1>2, ZenonT(60) DEF RWIndInv, MIndInv, IndInv, TypeOK, QueuedOnce
      <4>3. QED
        BY <3>1, <4>1, <4>2, PopProperties, Zenon
    <3>3. place[h] = "waiting"
      BY <3>2, ZenonT(60) DEF RWIndInv, MIndInv, IndInv, QueuedOnce
    <3>4. pc[h] = "w_wait" /\ h # c
      BY <1>1, <3>2, <3>3, SMTT(60) DEF RWIndInv, Engaged
    <3>5. QED
      BY <1>1, <1>2, <3>2, <3>4, Zenon DEF RWIndInv, Engaged, Caller
  <2>3. QED
    BY <1>1, <2>1, <2>2, Zenon DEF Wakeup
<1>5. QED
  BY <1>1, <1>2, <1>3, <1>4, MutexStepInv, SMTT(60)

\* The scheduler moves only coroutines inside w_lock.
LEMMA RWBackgroundInv ==
  ASSUME RWIndInv, MIndInv', NEW t \in Task, RWBackground(t)
  PROVE  RWIndInv'
<1>1. /\ UNCHANGED <<mutex, readers_c_, pc>>
      /\ place[t] \in {"yielded", "ready"}
      /\ \A u \in Task : u # t => place'[u] = place[u]
  BY ZenonT(60) DEF RWBackground, Background, AddWaitTask, AddWaitTaskRefused,
         AddWaitTaskQueued, Resume, RWIndInv, RWTypeOK, MTypeOK, TypeOK
<1>2. pc[t] = "w_wait"
  BY <1>1, ZenonT(60) DEF RWIndInv, Engaged
<1>3. RWTypeOK' /\ Engaged'
  BY <1>1, <1>2, SMTT(60) DEF RWIndInv, RWTypeOK, MIndInv, Engaged
<1>4. QED
  BY <1>1, <1>3, MutexStepInv, ZenonT(60)

\* Every step of the reader-writer mutex preserves the invariant.
LEMMA NextRWIndInv == RWIndInv /\ [RWNext]_rwvars => RWIndInv'
<1> SUFFICES ASSUME RWIndInv, [RWNext]_rwvars PROVE RWIndInv'
  BY Zenon
<1>1. MIndInv'
  BY RWNextIsMNext, NextMIndInv, Zenon DEF RWIndInv, rwvars
<1>2. ASSUME NEW c \in Caller, RIncrement(c) PROVE RWIndInv'
  BY <1>1, <1>2, RIncrementInv, SMTT(60)
<1>3. ASSUME NEW c \in Caller, WLock(c) \/ WTryLock(c) PROVE RWIndInv'
  BY <1>1, <1>3, WAcquireInv, SMTT(60)
<1>4. ASSUME NEW c \in Caller, Proceed(c) PROVE RWIndInv'
  BY <1>1, <1>2, <1>4, RCheckInv, RDecrementInv, WCheckInv, WUnlockInv, SMTT(60) DEF Proceed
<1>5. ASSUME NEW t \in Task, RWBackground(t) PROVE RWIndInv'
  BY <1>1, <1>5, RWBackgroundInv, ZenonT(60)
<1>6. CASE UNCHANGED rwvars
  BY <1>1, <1>6, Zenon DEF rwvars, mvars, vars, RWIndInv, RWTypeOK, MIndInv, Engaged,
                    ReadersCounted, Counted, RWExclusion
<1>7. QED
  BY <1>2, <1>3, <1>4, <1>5, <1>6, SMTT(60) DEF RWNext

\* The invariant holds in every reachable state.
LEMMA RWIndInvHolds == RWSafety => []RWIndInv
BY InitRWIndInv, NextRWIndInv, PTL DEF RWSafety

\* While one caller writes nobody reads and nobody else writes, however the
\* reader's ++readers_c_ / is_lock() and the writer's lock() / readers_c_
\* accesses interleave, for any finite number of callers.
THEOREM RWMutexExcludes == RWSafety => []RWExclusion
<1>1. RWIndInv => RWExclusion
  BY Zenon DEF RWIndInv
<1>2. QED
  BY <1>1, RWIndInvHolds, PTL

\* readers_c_ equals the number of callers between their increment and their
\* decrement, so the assert(rc >= 0) of r_unlock never fails.
THEOREM RWMutexReadersCounted == RWSafety => []ReadersCounted
<1>1. RWIndInv => ReadersCounted
  BY Zenon DEF RWIndInv
<1>2. QED
  BY <1>1, RWIndInvHolds, PTL

=============================================================================
