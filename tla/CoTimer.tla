------------------------------- MODULE CoTimer -------------------------------
(***************************************************************************)
(* CoTimer and CoTimerMgr (timer.h, timer.cpp) with the loop that calls    *)
(* expired timers (Scheduler::DoTimer, and the same loop in SleepWait and  *)
(* IoWait).  Scheduler threads take expired timers and call them, while    *)
(* other threads cancel them.                                              *)
(*                                                                         *)
(* fn_lock_ of a timer is held while its callback runs; operator() and     *)
(* Cancel give up when they find it taken.  lock_ of the manager guards    *)
(* timers_ and deadlines_: each of its critical sections is one step.      *)
(***************************************************************************)
EXTENDS Naturals, Sequences, FiniteSets

CONSTANTS
  Timer,     \* timers that may be added, each once
  Thread,    \* scheduler threads
  Canceller, \* callers of Cancel and BlockCancel
  Delay,     \* delays given to ExpireAt
  MaxTime,   \* bound: the clock stops here
  Batch,     \* argument n of GetExpired (128 in the code)
  NULL       \* nobody

ASSUME CoTimerAssumption ==
  /\ Delay \subseteq Nat
  /\ MaxTime \in Nat
  /\ Batch \in Nat \ {0}
  /\ NULL \notin Timer \cup Thread \cup Canceller
  /\ Thread \cap Canceller = {}

VARIABLES
  now,              \* the clock
  next_time_point_, \* of each timer
  active_,          \* of each timer
  fn_lock_,         \* who holds the lock of each timer, or NULL
  timers_,          \* the timers in CoTimerMgr::timers_
  deadlines_,       \* CoTimerMgr::deadlines_: timers ordered by time point
  batch,            \* the timers each thread took and has not called yet
  running,          \* the timer whose callback each thread is in, or NULL
  call,             \* the cancel call each canceller is in
  unborn,           \* the timers not added yet
  fired,            \* how often the callback of each timer has been entered
  cancelled,        \* how often a cancel of each timer has returned true
  settled,          \* the timers a BlockCancel has returned for
  dropped           \* the timers taken with one whose callback threw

mgrvars == <<next_time_point_, timers_, deadlines_, unborn>>
ghosts  == <<fired, cancelled, settled, dropped>>
tvars   == <<now, mgrvars, active_, fn_lock_, batch, running, call, ghosts>>

NoCall == [at |-> "none", timer |-> NULL, block |-> FALSE]

TInit ==
  /\ now = 0
  /\ next_time_point_ = [m \in Timer |-> 0]
  /\ active_ = [m \in Timer |-> TRUE]
  /\ fn_lock_ = [m \in Timer |-> NULL]
  /\ timers_ = {}
  /\ deadlines_ = <<>>
  /\ batch = [h \in Thread |-> <<>>]
  /\ running = [h \in Thread |-> NULL]
  /\ call = [c \in Canceller |-> NoCall]
  /\ unborn = Timer
  /\ fired = [m \in Timer |-> 0]
  /\ cancelled = [m \in Timer |-> 0]
  /\ settled = {}
  /\ dropped = {}

Tick ==
  /\ now < MaxTime
  /\ now' = now + 1
  /\ UNCHANGED <<mgrvars, active_, fn_lock_, batch, running, call, ghosts>>

-----------------------------------------------------------------------------

\* Mutant: the new timer goes to the end of the table.
ExpireAtEnd(m, d) ==
  /\ m \in unborn
  /\ unborn' = unborn \ {m}
  /\ next_time_point_' = [next_time_point_ EXCEPT ![m] = now + d]
  /\ timers_' = timers_ \cup {m}
  /\ deadlines_' = Append(deadlines_, m)
  /\ UNCHANGED <<now, active_, fn_lock_, batch, running, call, ghosts>>

\* ExpireAt: the new timer goes behind those with the same time point, as
\* multimap::insert puts it.
ExpireAt(m, d) ==
  LET due == now + d
      i == Cardinality({j \in 1..Len(deadlines_) :
                          next_time_point_[deadlines_[j]] <= due})
  IN
  /\ m \in unborn
  /\ unborn' = unborn \ {m}
  /\ next_time_point_' = [next_time_point_ EXCEPT ![m] = due]
  /\ timers_' = timers_ \cup {m}
  /\ deadlines_' = SubSeq(deadlines_, 1, i) \o <<m>>
                     \o SubSeq(deadlines_, i + 1, Len(deadlines_))
  /\ UNCHANGED <<now, active_, fn_lock_, batch, running, call, ghosts>>

\* GetExpired by thread h, at the head of its loop.
GetExpired(h) ==
  LET due == Cardinality({j \in 1..Len(deadlines_) :
                            next_time_point_[deadlines_[j]] <= now})
      k == IF due < Batch THEN due ELSE Batch
      taken == SubSeq(deadlines_, 1, k)
  IN
  /\ batch[h] = <<>> /\ running[h] = NULL
  /\ k > 0
  /\ batch' = [batch EXCEPT ![h] = taken]
  /\ timers_' = timers_ \ {taken[j] : j \in 1..k}
  /\ deadlines_' = SubSeq(deadlines_, k + 1, Len(deadlines_))
  /\ UNCHANGED <<now, next_time_point_, unborn, active_, fn_lock_, running, call, ghosts>>

\* operator() returning without a call: the lock is taken, or the timer is
\* inactive.
SkipCallback(h) ==
  LET m == Head(batch[h]) IN
  /\ batch[h] # <<>> /\ running[h] = NULL
  /\ fn_lock_[m] # NULL \/ ~active_[m]
  /\ batch' = [batch EXCEPT ![h] = Tail(@)]
  /\ UNCHANGED <<now, mgrvars, active_, fn_lock_, running, call, ghosts>>

\* Mutant: the timer stays active while its callback runs.
EnterCallbackActive(h) ==
  LET m == Head(batch[h]) IN
  /\ batch[h] # <<>> /\ running[h] = NULL
  /\ fn_lock_[m] = NULL /\ active_[m]
  /\ fn_lock_' = [fn_lock_ EXCEPT ![m] = h]
  /\ batch' = [batch EXCEPT ![h] = Tail(@)]
  /\ running' = [running EXCEPT ![h] = m]
  /\ fired' = [fired EXCEPT ![m] = @ + 1]
  /\ UNCHANGED <<now, mgrvars, active_, call, cancelled, settled, dropped>>

\* operator() entering fn_().
EnterCallback(h) ==
  LET m == Head(batch[h]) IN
  /\ batch[h] # <<>> /\ running[h] = NULL
  /\ fn_lock_[m] = NULL /\ active_[m]
  /\ fn_lock_' = [fn_lock_ EXCEPT ![m] = h]
  /\ active_' = [active_ EXCEPT ![m] = FALSE]
  /\ batch' = [batch EXCEPT ![h] = Tail(@)]
  /\ running' = [running EXCEPT ![h] = m]
  /\ fired' = [fired EXCEPT ![m] = @ + 1]
  /\ UNCHANGED <<now, mgrvars, call, cancelled, settled, dropped>>

\* Mutant: a callback leaves the loop, and the rest of the batch is dropped.
LeaveCallbackDrops(h) ==
  /\ running[h] # NULL
  /\ fn_lock_' = [fn_lock_ EXCEPT ![running[h]] = NULL]
  /\ running' = [running EXCEPT ![h] = NULL]
  /\ batch' = [batch EXCEPT ![h] = <<>>]
  /\ UNCHANGED <<now, mgrvars, active_, call, ghosts>>

\* fn_() returns and the lock is released.
LeaveCallback(h) ==
  /\ running[h] # NULL
  /\ fn_lock_' = [fn_lock_ EXCEPT ![running[h]] = NULL]
  /\ running' = [running EXCEPT ![h] = NULL]
  /\ UNCHANGED <<now, mgrvars, active_, batch, call, ghosts>>

\* Mutant: DoTimer goes on with the list after a callback has thrown.
ThrowCallbackGoesOn(h) ==
  /\ running[h] # NULL
  /\ fn_lock_' = [fn_lock_ EXCEPT ![running[h]] = NULL]
  /\ running' = [running EXCEPT ![h] = NULL]
  /\ dropped' = dropped \cup {batch[h][i] : i \in 1..Len(batch[h])}
  /\ UNCHANGED <<now, mgrvars, batch, active_, call, fired, cancelled, settled>>

\* fn_() throws: unique_lock releases the lock, and the exception leaves the
\* loop of DoTimer and with it the list of the timers not called yet.
ThrowCallback(h) ==
  /\ running[h] # NULL
  /\ fn_lock_' = [fn_lock_ EXCEPT ![running[h]] = NULL]
  /\ running' = [running EXCEPT ![h] = NULL]
  /\ batch' = [batch EXCEPT ![h] = <<>>]
  /\ dropped' = dropped \cup {batch[h][i] : i \in 1..Len(batch[h])}
  /\ UNCHANGED <<now, mgrvars, active_, call, fired, cancelled, settled>>

\* Mutant: BlockCancel does not wait for the lock.
CancelLockFree(c, m, block) ==
  /\ call[c] = NoCall
  /\ m \notin unborn
  /\ block \/ fn_lock_[m] = NULL
  /\ fn_lock_' = [fn_lock_ EXCEPT ![m] = c]
  /\ call' = [call EXCEPT ![c] = [at |-> "locked", timer |-> m, block |-> block]]
  /\ UNCHANGED <<now, mgrvars, active_, batch, running, ghosts>>

\* Cancel and BlockCancel taking fn_lock_.  Cancel on a taken lock returns
\* false and changes nothing; BlockCancel spins.
CancelLock(c, m, block) ==
  /\ call[c] = NoCall
  /\ m \notin unborn
  /\ fn_lock_[m] = NULL
  /\ fn_lock_' = [fn_lock_ EXCEPT ![m] = c]
  /\ call' = [call EXCEPT ![c] = [at |-> "locked", timer |-> m, block |-> block]]
  /\ UNCHANGED <<now, mgrvars, active_, batch, running, ghosts>>

\* The locked part of Cancel and BlockCancel: an inactive timer is not
\* cancelled, and the call returns false.
CancelSet(c) ==
  LET m == call[c].timer
      ok == active_[m]
  IN
  /\ call[c].at = "locked"
  /\ active_' = [active_ EXCEPT ![m] = FALSE]
  /\ fn_lock_' = [fn_lock_ EXCEPT ![m] = NULL]
  /\ cancelled' = [cancelled EXCEPT ![m] = IF ok THEN @ + 1 ELSE @]
  /\ settled' = IF call[c].block THEN settled \cup {m} ELSE settled
  /\ call' = [call EXCEPT ![c] = IF ok THEN [@ EXCEPT !.at = "erase"] ELSE NoCall]
  /\ UNCHANGED <<now, mgrvars, batch, running, fired, dropped>>

\* Mutant: __Cancel forgets the second table.
CancelEraseOne(c) ==
  /\ call[c].at = "erase"
  /\ timers_' = timers_ \ {call[c].timer}
  /\ call' = [call EXCEPT ![c] = NoCall]
  /\ UNCHANGED <<now, next_time_point_, deadlines_, unborn, active_, fn_lock_,
                 batch, running, ghosts>>

\* deadlines_ without its entry for m, if it has one.
WithoutDeadline(m) ==
  LET at == {i \in 1..Len(deadlines_) : deadlines_[i] = m}
      i == CHOOSE j \in at : TRUE
  IN IF at = {}
       THEN deadlines_
       ELSE SubSeq(deadlines_, 1, i - 1) \o SubSeq(deadlines_, i + 1, Len(deadlines_))

\* __Cancel: take the timer out of both tables unless GetExpired has.
CancelErase(c) ==
  LET m == call[c].timer IN
  /\ call[c].at = "erase"
  /\ IF m \in timers_
       THEN /\ timers_' = timers_ \ {m}
            /\ deadlines_' = WithoutDeadline(m)
       ELSE UNCHANGED <<timers_, deadlines_>>
  /\ call' = [call EXCEPT ![c] = NoCall]
  /\ UNCHANGED <<now, next_time_point_, unborn, active_, fn_lock_, batch, running, ghosts>>

Serve(h) ==
  \/ GetExpired(h) \/ SkipCallback(h) \/ EnterCallback(h)
  \/ LeaveCallback(h) \/ ThrowCallback(h)

TNext ==
  \/ Tick
  \/ \E m \in Timer, d \in Delay : ExpireAt(m, d)
  \/ \E h \in Thread : Serve(h)
  \/ \E c \in Canceller :
       \/ \E m \in Timer, b \in BOOLEAN : CancelLock(c, m, b)
       \/ CancelSet(c) \/ CancelErase(c)

\* Time passes, scheduler threads run their loop, callbacks end, and a cancel
\* that has the lock goes on.
TFairness ==
  /\ WF_tvars(Tick)
  /\ \A h \in Thread : WF_tvars(Serve(h))
  /\ \A c \in Canceller : WF_tvars(CancelSet(c) \/ CancelErase(c))

TSafety == TInit /\ [][TNext]_tvars

TSpec == TSafety /\ TFairness

-----------------------------------------------------------------------------

\* timers_ and deadlines_ list the same timers, the latter in the order of
\* their time points, although __Cancel and GetExpired race to remove them.
TablesAgree ==
  /\ {deadlines_[i] : i \in 1..Len(deadlines_)} = timers_
  /\ Len(deadlines_) = Cardinality(timers_)
  /\ \A i, j \in 1..Len(deadlines_) :
       i < j => next_time_point_[deadlines_[i]] <= next_time_point_[deadlines_[j]]

\* A timer's callback runs once or a cancel of it returns true once, never
\* both: co_timer_cancel returning true means the callback never runs.
FiredOrCancelled == \A m \in Timer : fired[m] + cancelled[m] <= 1

\* Once co_timer_block_cancel has returned, whatever it returned, the callback
\* is not running and will not run.
SettledIsOver == \A m \in settled : \A h \in Thread : running[h] # m

\* operator() and Cancel giving up on a taken lock never leave a timer that
\* nobody handles: an added timer fires, is cancelled, or was taken behind one
\* whose callback threw.  Only the last leaves a timer that nobody calls.
EveryTimerHandled ==
  \A m \in Timer :
    m \notin unborn /\ next_time_point_[m] <= MaxTime
      ~> fired[m] + cancelled[m] = 1 \/ m \in dropped

\* A timer lost to a throwing callback is in neither table and in no batch, so
\* it never runs; a cancel of it may still return true.
DroppedNeverRuns ==
  \A m \in dropped :
    /\ fired[m] = 0
    /\ m \notin timers_
    /\ \A h \in Thread : \A i \in 1..Len(batch[h]) : batch[h][i] # m

\* The two tables agree, and a timer lost to a throwing callback is lost for
\* good (ExpireAt, GetExpired, __Cancel and DoTimer).
TimerExact == TablesAgree /\ DroppedNeverRuns

\* What the two cancels promise together: a true answer excludes the callback,
\* and after BlockCancel none is running (CoTimer::operator(), Cancel and
\* BlockCancel).
CancelExact == FiredOrCancelled /\ SettledIsOver
=============================================================================
