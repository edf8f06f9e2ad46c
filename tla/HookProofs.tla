----------------------------- MODULE HookProofs -----------------------------
(***************************************************************************)
(* Proofs about the hooked system calls over IoWait, for any number of     *)
(* coroutines and descriptors and any use of the descriptors: FlagRestored *)
(* and WokenOnce; then the account of the epolls, that what is registered  *)
(* belongs to a wait that goes on, or that Cancel is about to clear, where *)
(* the descriptors of a wait on several are its own (Unshared) and named   *)
(* once (Distinct).  RefCountProofs builds on it.                          *)
(***************************************************************************)
EXTENDS Hook, Integers, TLAPS

\* f is an element of the sequence q.
In(q, f) == \E i \in 1..Len(q) : q[i] = f

\* The lists of descriptors t may wait for.
Lists(t) == Waits[t] \cup {<<f>> : f \in Calls[t] \cup Connects[t]}

WaitId == [tk : Task, id : Nat]
SwitchState == [at : {"none", "lock", "add", "rollback"},
                rest : Seq(Fd), added : Seq(Fd)]
TimerState == [id : Nat, at : {"none", "set", "expired", "firing", "fired", "cancelled"}]
LoopState == [at : {"none", "events", "timeouts", "fired", "erase", "clear"},
              type : {0, 1}, evs : SUBSET [st : WaitId, fd : Fd],
              tasks : SUBSET WaitId, timeouts : SUBSET WaitId,
              cur : WaitId \cup {NULL}, left : Seq(Fd)]
HookState == [fn : {"none", "rw", "connect", "poll", "select", "sleep"},
              at : {"none", "set", "call", "wait", "again", "sleep", "timer",
                    "restore", "unset", "block"},
              f : Fd \cup {NULL}]

\* The part of the type invariant that the proofs use.
IoTypeOK ==
  /\ epoll \in [Fd -> WaitId \cup {NULL}]
  /\ wait_tasks_ \subseteq Task
  /\ io_block_id_ \in [Task -> Nat]
  /\ wait_fds_ \in [Task -> Seq(Fd)]
  /\ \A t \in Task : wait_fds_[t] \in Lists(t) \cup {<<>>}
  /\ timer \in [Task -> TimerState]
  /\ ref_count_ \in [Task -> Int]
  /\ delete_list \subseteq Task /\ deleted \subseteq Task
  /\ place \in [Task -> {"running", "blocked", "runnable", "done", "asleep"}]
  /\ sw \in [Task -> SwitchState]
  /\ wl \in LoopState
  /\ wl.at \in {"erase", "clear", "fired"} => wl.cur \in WaitId

HookTypeOK ==
  /\ nonblock \in [Desc -> BOOLEAN]
  /\ hook \in [Task -> HookState]
  /\ sleepers \subseteq Task

\* A call that changes the flag knows its descriptor, the others have none.
KnowsFd(t) ==
  IF hook[t].fn \in {"rw", "connect"}
    THEN hook[t].f \in Calls[t] \cup Connects[t] ELSE hook[t].f = NULL

\* The coroutines in SleepWait are asleep.
HookShape ==
  /\ \A t \in Task : KnowsFd(t)
  /\ \A t \in sleepers : place[t] = "asleep" /\ hook[t].at = "timer"

\* Before a coroutine enters wait_tasks_ nobody can wake it.
NotYetKnown ==
  \A t \in Task : sw[t].at = "lock" =>
    /\ place[t] = "blocked" /\ t \notin wait_tasks_
    /\ ~(wl.at = "clear" /\ wl.cur.tk = t)

\* What a step of Hook does to IoWait.
IoStep ==
  \/ \E t \in Task :
       \/ \E fds \in Lists(t), b \in BOOLEAN : CoSwitch(t, fds, b)
       \/ Resume(t) \/ Finish(t) \/ SchedulerSwitch(t) \/ Expire(t)
       \/ /\ UNCHANGED <<epoll, wait_tasks_, waitvars, evvars, timer, refvars, deleted, sw, wl>>
          /\ \/ place[t] = "running" /\ place' = [place EXCEPT ![t] = "asleep"]
             \/ place[t] = "asleep" /\ place' = [place EXCEPT ![t] = "running"]
  \/ WaitLoop
  \/ UNCHANGED iovars

\* The invariant for WokenOnce.
WokenInv == IoTypeOK /\ WokenOnce /\ NotYetKnown

\* The inductive invariant for FlagRestored.
FlagInv == WokenInv /\ HookTypeOK /\ HookShape /\ FlagRestored

-----------------------------------------------------------------------------
(* Sequences *)

\* What the head and the tail of a list hold.
LEMMA InTail ==
  ASSUME NEW S, NEW q \in Seq(S), q # <<>>
  PROVE  /\ Head(q) \in S /\ In(q, Head(q))
         /\ Tail(q) \in Seq(S) /\ Len(Tail(q)) = Len(q) - 1
         /\ \A f : In(q, f) <=> f = Head(q) \/ In(Tail(q), f)
<1>1. /\ Len(q) \in Nat \ {0} /\ Head(q) = q[1] /\ Head(q) \in S
      /\ Tail(q) \in Seq(S) /\ Len(Tail(q)) = Len(q) - 1
      /\ \A i \in 1..Len(Tail(q)) : Tail(q)[i] = q[i + 1]
  OBVIOUS
<1>2. ASSUME NEW f, NEW i \in 1..Len(q), q[i] = f, f # Head(q)
      PROVE  In(Tail(q), f)
  <2>1. i - 1 \in 1..Len(Tail(q)) /\ Tail(q)[i - 1] = q[(i - 1) + 1] /\ (i - 1) + 1 = i
    BY <1>1, <1>2
  <2>2. QED
    BY <1>2, <2>1, Zenon DEF In
<1>3. ASSUME NEW f, NEW i \in 1..Len(Tail(q)), Tail(q)[i] = f
      PROVE  In(q, f)
  <2>1. i + 1 \in 1..Len(q)
    BY <1>1, <1>3
  <2>2. QED
    BY <1>1, <1>3, <2>1, Zenon DEF In
<1>4. In(q, Head(q))
  <2>1. 1 \in 1..Len(q)
    BY <1>1
  <2>2. QED
    BY <1>1, <2>1, Zenon DEF In
<1>5. QED
  BY <1>1, <1>2, <1>3, <1>4, Zenon DEF In

\* What a list holds once an element is appended.
LEMMA InAppend ==
  ASSUME NEW S, NEW q \in Seq(S), NEW e \in S
  PROVE  /\ Append(q, e) \in Seq(S) /\ Len(Append(q, e)) = Len(q) + 1
         /\ Append(q, e) # <<>>
         /\ \A f : In(Append(q, e), f) <=> In(q, f) \/ f = e
<1>1. /\ Append(q, e) \in Seq(S) /\ Len(Append(q, e)) = Len(q) + 1 /\ Len(q) \in Nat
      /\ \A i \in 1..Len(q) : Append(q, e)[i] = q[i]
      /\ Append(q, e)[Len(q) + 1] = e
  OBVIOUS
<1>2. Append(q, e) # <<>>
  BY <1>1
<1>3. ASSUME NEW f, In(q, f) \/ f = e PROVE In(Append(q, e), f)
  BY <1>1, <1>3 DEF In
<1>4. ASSUME NEW f, In(Append(q, e), f) PROVE In(q, f) \/ f = e
  BY <1>1, <1>4 DEF In
<1>5. QED
  BY <1>1, <1>2, <1>3, <1>4, Zenon

\* The empty list holds nothing.
LEMMA InEmpty == \A f : ~In(<<>>, f)
BY DEF In

\* A sequence of one element has no other.
LEMMA InSingle ==
  ASSUME NEW S, NEW q \in Seq(S), Len(q) <= 1, NEW f, NEW g, In(q, f), In(q, g)
  PROVE  f = g
BY DEF In

-----------------------------------------------------------------------------
(* Types *)

\* The lists a coroutine may wait for are sequences of descriptors.
LEMMA ListsTyped == \A t \in Task : Lists(t) \subseteq Seq(Fd)
<1>1. \A f \in Fd : <<f>> \in Seq(Fd)
  OBVIOUS
<1>2. QED
  BY <1>1, IoWaitAssumption, HookAssumption, ZenonT(60) DEF Lists

\* The initial state has the types of the epoll and the hook variables.
LEMMA InitTypes == HookInit => IoTypeOK /\ HookTypeOK
<1> SUFFICES ASSUME HookInit PROVE IoTypeOK /\ HookTypeOK
  BY Zenon
<1>1. <<>> \in Seq(Fd)
  OBVIOUS
<1>2. NoSwitch \in SwitchState /\ NoTimer \in TimerState /\ NoHook \in HookState
  BY <1>1, Zenon DEF NoSwitch, SwitchState, NoTimer, TimerState, NoHook, HookState
<1>3. NoLoop \in LoopState /\ NoLoop.at = "none"
  BY <1>1, Zenon DEF NoLoop, LoopState
<1>4. IoTypeOK
  BY <1>1, <1>2, <1>3 DEF HookInit, IoInit, IoTypeOK
<1>5. HookTypeOK
  BY <1>2, Zenon DEF HookInit, HookTypeOK
<1>6. QED
  BY <1>4, <1>5, Zenon

\* The steps of a coroutine and of its timer.
LEMMA TaskTypes ==
  ASSUME IoTypeOK, NEW t \in Task,
         \/ \E fds \in Lists(t), b \in BOOLEAN : CoSwitch(t, fds, b)
         \/ Resume(t) \/ Finish(t) \/ Expire(t)
  PROVE  IoTypeOK'
<1>1. ASSUME NEW fds \in Lists(t), NEW b \in BOOLEAN, CoSwitch(t, fds, b)
      PROVE  IoTypeOK'
  <2>1. fds \in Seq(Fd) /\ <<>> \in Seq(Fd)
    BY ListsTyped
  <2>2. [at |-> "lock", rest |-> fds, added |-> <<>>] \in SwitchState /\ NoTimer \in TimerState
    BY <2>1, Zenon DEF SwitchState, NoTimer, TimerState
  <2>3. QED
    BY <1>1, <2>1, <2>2, SMTT(60) DEF CoSwitch, IoTypeOK, refvars
<1>2. ASSUME Resume(t) \/ Expire(t) \/ Finish(t)
      PROVE  IoTypeOK'
  <2>1. /\ UNCHANGED <<epoll, wait_tasks_, waitvars, deleted, sw, wl>>
        /\ ref_count_' \in [Task -> Int] /\ delete_list' \subseteq Task
    BY <1>2, SMTT(60) DEF Resume, Expire, Finish, DecrementRef, refvars, IoTypeOK
  <2>2. timer' \in [Task -> TimerState]
    <3>1. timer \in [Task -> TimerState]
      BY Zenon DEF IoTypeOK
    <3>2. /\ [timer[t] EXCEPT !.at = "cancelled"] \in TimerState
          /\ [timer[t] EXCEPT !.at = "expired"] \in TimerState
      BY <3>1, Zenon DEF TimerState
    <3>3. QED
      BY <1>2, <3>1, <3>2, Zenon DEF Resume, Expire, Finish
  <2>3. place' \in [Task -> {"running", "blocked", "runnable", "done", "asleep"}]
    BY <1>2, ZenonT(60) DEF Resume, Expire, Finish, IoTypeOK
  <2>4. QED
    BY <2>1, <2>2, <2>3, SMTT(60) DEF IoTypeOK, waitvars
<1>3. QED
  BY <1>1, <1>2, Zenon

\* The steps of SchedulerSwitch.
LEMMA SwitchTypes ==
  ASSUME IoTypeOK, NEW t \in Task, SchedulerSwitch(t)
  PROVE  IoTypeOK'
<1> DEFINE r == sw[t]
<1>1. /\ sw \in [Task -> SwitchState] /\ r \in SwitchState
      /\ r.rest \in Seq(Fd) /\ r.added \in Seq(Fd)
  BY Zenon DEF IoTypeOK, SwitchState
<1>2. /\ r.rest # <<>> => Head(r.rest) \in Fd /\ Tail(r.rest) \in Seq(Fd)
                            /\ Append(r.added, Head(r.rest)) \in Seq(Fd)
      /\ r.added # <<>> => Head(r.added) \in Fd /\ Tail(r.added) \in Seq(Fd)
  BY <1>1, InTail, InAppend
<1>3. sw' \in [Task -> SwitchState]
  <2>1. PICK x \in SwitchState : sw' = [sw EXCEPT ![t] = x]
    <3>1. CASE SwitchLock(t)
      <4>1. [r EXCEPT !.at = "add"] \in SwitchState
        BY <1>1, ZenonT(60) DEF SwitchState
      <4>2. QED
        BY <3>1, <4>1, ZenonT(60) DEF SwitchLock
    <3>2. CASE SwitchAdd(t)
      <4>1. [r EXCEPT !.rest = Tail(r.rest), !.added = Append(r.added, Head(r.rest))]
              \in SwitchState
        BY <1>1, <1>2, <3>2, Zenon DEF SwitchAdd, SwitchState
      <4>2. sw' = [sw EXCEPT ![t] = [r EXCEPT !.rest = Tail(r.rest),
                                              !.added = Append(r.added, Head(r.rest))]]
        BY <1>1, <3>2, ZenonT(60) DEF SwitchAdd, SwitchState
      <4>3. QED
        BY <4>1, <4>2, ZenonT(60)
    <3>3. CASE SwitchAddFails(t)
      <4>1. [r EXCEPT !.rest = Tail(r.rest)] \in SwitchState
        BY <1>1, <1>2, <3>3, ZenonT(60) DEF SwitchAddFails, SwitchState
      <4>2. QED
        BY <3>3, <4>1, ZenonT(60) DEF SwitchAddFails
    <3>4. CASE SwitchExists(t)
      <4>1. [r EXCEPT !.at = "rollback"] \in SwitchState
        BY <1>1, ZenonT(60) DEF SwitchState
      <4>2. QED
        BY <3>4, <4>1, ZenonT(60) DEF SwitchExists
    <3>5. CASE SwitchRollback(t)
      <4>1. [r EXCEPT !.added = Tail(r.added)] \in SwitchState
        BY <1>1, <1>2, <3>5, ZenonT(60) DEF SwitchRollback, SwitchState
      <4>2. QED
        BY <3>5, <4>1, ZenonT(60) DEF SwitchRollback
    <3>6. CASE SwitchFailed(t) \/ SwitchDone(t)
      <4>1. NoSwitch \in SwitchState
        BY DEF NoSwitch, SwitchState
      <4>2. QED
        BY <3>6, <4>1, Zenon DEF SwitchFailed, SwitchDone
    <3>7. QED
      BY <3>1, <3>2, <3>3, <3>4, <3>5, <3>6, Zenon DEF SchedulerSwitch
  <2>2. QED
    BY <1>1, <2>1, Zenon
<1>4. /\ epoll' \in [Fd -> WaitId \cup {NULL}]
      /\ ref_count_' \in [Task -> Int] /\ delete_list' \subseteq Task
  <2>1. /\ epoll \in [Fd -> WaitId \cup {NULL}] /\ Wait(t, io_block_id_[t]) \in WaitId
        /\ ref_count_ \in [Task -> Int] /\ delete_list \subseteq Task
    BY Zenon DEF IoTypeOK, Wait, WaitId
  <2>2. CASE SwitchAdd(t)
    BY <1>2, <2>1, <2>2 DEF SwitchAdd
  <2>3. CASE SwitchRollback(t)
    BY <1>2, <2>1, <2>3 DEF SwitchRollback, DeleteFd, DecrementRef, refvars
  <2>4. CASE SwitchDone(t)
    BY <2>1, <2>4 DEF SwitchDone
  <2>5. CASE SwitchLock(t) \/ SwitchAddFails(t) \/ SwitchExists(t) \/ SwitchFailed(t)
    BY <2>1, <2>5, Zenon DEF SwitchLock, SwitchAddFails, SwitchExists, SwitchFailed, refvars
  <2>6. QED
    BY <2>2, <2>3, <2>4, <2>5, Zenon DEF SchedulerSwitch
<1>5. timer' \in [Task -> TimerState]
  <2>1. [id |-> io_block_id_[t], at |-> "set"] \in TimerState
    BY Zenon DEF IoTypeOK, TimerState
  <2>2. QED
    BY <2>1, ZenonT(60) DEF IoTypeOK, SchedulerSwitch, SwitchLock, SwitchAdd, SwitchAddFails,
       SwitchExists, SwitchRollback, SwitchFailed, SwitchDone
<1>6. /\ wait_tasks_' \subseteq Task
      /\ place' \in [Task -> {"running", "blocked", "runnable", "done", "asleep"}]
  BY ZenonT(60) DEF IoTypeOK, SchedulerSwitch, SwitchLock, SwitchAdd, SwitchAddFails,
     SwitchExists,
     SwitchRollback, SwitchFailed, SwitchDone
<1>7. UNCHANGED <<waitvars, deleted, wl>>
  BY Zenon DEF SchedulerSwitch, SwitchLock, SwitchAdd, SwitchAddFails, SwitchExists,
     SwitchRollback, SwitchFailed, SwitchDone
<1>8. QED
  BY <1>3, <1>4, <1>5, <1>6, <1>7, SMTT(60) DEF IoTypeOK, waitvars

\* WaitLoop's own record.
LEMMA LoopTypes ==
  ASSUME IoTypeOK, WaitLoop
  PROVE  wl' \in LoopState /\ (wl'.at \in {"erase", "clear", "fired"} => wl'.cur \in WaitId)
<1>1. /\ wl \in LoopState /\ (wl.at \in {"erase", "clear", "fired"} => wl.cur \in WaitId)
      /\ epoll \in [Fd -> WaitId \cup {NULL}] /\ wait_fds_ \in [Task -> Seq(Fd)]
      /\ timer \in [Task -> TimerState]
  BY Zenon DEF IoTypeOK
<1>2. CASE wl' = [wl EXCEPT !.at = "events", !.tasks = @ \ {wl.cur}, !.cur = NULL]
  BY <1>1, <1>2, ZenonT(60) DEF LoopState
<1>3. CASE wl' = [wl EXCEPT !.at = "fired"] /\ wl.at \in {"erase", "clear"}
  BY <1>1, <1>3, ZenonT(60) DEF LoopState
<1>4. CASE LoopDelete
  BY <1>1, <1>4, SMTT(60) DEF LoopDelete, NoLoop, LoopState
<1>5. CASE LoopFetch
  <2>1. PICK ready \in SUBSET {f \in Fd : epoll[f] # NULL}, type \in {0, 1} :
          wl' = [wl EXCEPT !.at = "events", !.type = type,
                           !.evs = {[st |-> epoll[f], fd |-> f] : f \in ready}]
    BY <1>5, ZenonT(60) DEF LoopFetch
  <2>2. {[st |-> epoll[f], fd |-> f] : f \in ready} \in SUBSET [st : WaitId, fd : Fd]
    BY <1>1
  <2>3. QED
    BY <1>1, <2>1, <2>2, ZenonT(60) DEF LoopState
<1>6. CASE LoopEvent
  <2>1. PICK e \in wl.evs :
          wl' = [wl EXCEPT !.evs = @ \ {e},
                           !.tasks = IF \E s \in @ : s.tk = e.st.tk THEN @ ELSE @ \cup {e.st}]
    BY <1>6, ZenonT(60) DEF LoopEvent
  <2>2. e.st \in WaitId
    BY <1>1, Zenon DEF LoopState
  <2>3. QED
    BY <1>1, <1>6, <2>1, <2>2, ZenonT(60) DEF LoopEvent, LoopState
<1>7. CASE LoopCancel
  <2>1. PICK s \in wl.tasks :
          \/ wl' = [wl EXCEPT !.tasks = @ \ {s}] /\ wl.at = "events"
          \/ wl' = [wl EXCEPT !.at = "erase", !.cur = s]
    BY <1>7, ZenonT(60) DEF LoopCancel, EventsDone
  <2>2. s \in WaitId
    BY <1>1, Zenon DEF LoopState, WaitId
  <2>3. CASE wl' = [wl EXCEPT !.tasks = @ \ {s}] /\ wl.at = "events"
    BY <1>1, <2>2, <2>3, ZenonT(60) DEF LoopState
  <2>4. CASE wl' = [wl EXCEPT !.at = "erase", !.cur = s]
    BY <1>1, <2>2, <2>4, ZenonT(60) DEF LoopState
  <2>5. QED
    BY <2>1, <2>3, <2>4, ZenonT(60)
<1>8. CASE LoopSwap
  <2>1. {Wait(t, timer[t].id) : t \in {u \in Task : timer[u].at = "expired"}} \subseteq WaitId
    BY <1>1 DEF Wait, WaitId, TimerState
  <2>2. QED
    BY <1>1, <1>8, <2>1, ZenonT(60) DEF LoopSwap, LoopState
<1>9. CASE LoopSkipTimeout
  <2>1. PICK s \in wl.timeouts : wl' = [wl EXCEPT !.timeouts = @ \ {s}] /\ wl.at = "timeouts"
    BY <1>9, SMTT(60) DEF LoopSkipTimeout
  <2>2. QED
    BY <1>1, <2>1, ZenonT(60) DEF LoopState
<1>10. CASE CancelClear
  <2>1. wl.left # <<>> => Tail(wl.left) \in Seq(Fd)
    BY <1>1, InTail, Zenon DEF LoopState
  <2>2. QED
    BY <1>1, <1>10, <2>1, ZenonT(60) DEF CancelClear, LoopState
<1>11. CASE LoopTimeout
  <2>1. PICK s \in wl.timeouts, a \in {"fired", "erase"} : wl' = [wl EXCEPT !.at = a, !.cur = s]
    BY <1>11, ZenonT(60) DEF LoopTimeout
  <2>2. s \in WaitId
    BY <1>1, Zenon DEF LoopState, WaitId
  <2>3. QED
    BY <1>1, <2>1, <2>2, ZenonT(60) DEF LoopState
<1>12. CASE CancelErase
  <2>1. CASE wl' = [wl EXCEPT !.at = "clear", !.left = wait_fds_[wl.cur.tk]] /\ wl.at = "erase"
    <3> DEFINE q == wait_fds_[wl.cur.tk]
    <3>1. q \in Seq(Fd)
      BY <1>1, <2>1, Zenon DEF WaitId
    <3> HIDE DEF q
    <3>2. QED
      BY <1>1, <2>1, <3>1, ZenonT(60) DEF LoopState, q
  <2>2. QED
    BY <1>2, <1>3, <1>12, <2>1, Zenon DEF CancelErase, CancelReturns
<1>13. CASE CancelWake
  BY <1>2, <1>3, <1>13, Zenon DEF CancelWake, CancelReturns
<1>14. CASE TimeoutDone
  BY <1>1, <1>14, ZenonT(60) DEF TimeoutDone, LoopState
<1>15. QED
  BY <1>4, <1>5, <1>6, <1>7, <1>8, <1>9, <1>10, <1>11, <1>12, <1>13, <1>14, ZenonT(60)
     DEF WaitLoop

\* What WaitLoop does to the rest of the state.
LEMMA LoopStepTypes ==
  ASSUME IoTypeOK, WaitLoop
  PROVE  IoTypeOK'
<1>1. wl' \in LoopState /\ (wl'.at \in {"erase", "clear", "fired"} => wl'.cur \in WaitId)
  BY LoopTypes, Zenon
<1>2. CASE LoopFetch \/ LoopEvent \/ LoopSwap \/ LoopSkipTimeout \/ LoopCancel \/ CancelErase
           \/ LoopDelete
  <2>1. /\ UNCHANGED <<epoll, waitvars, timer, ref_count_, place, sw>>
        /\ wait_tasks_' \subseteq wait_tasks_ /\ delete_list' \subseteq delete_list
        /\ deleted' \subseteq deleted \cup delete_list
    BY <1>2, ZenonT(60) DEF LoopFetch, LoopEvent, LoopSwap, LoopSkipTimeout, LoopCancel,
       CancelErase, LoopDelete, refvars
  <2>2. QED
    BY <1>1, <2>1, Zenon DEF IoTypeOK, waitvars
<1>3. CASE LoopTimeout
  <2>1. PICK s \in wl.timeouts : timer' = [timer EXCEPT ![s.tk].at = "firing"]
    BY <1>3, ZenonT(60) DEF LoopTimeout
  <2>2. s.tk \in Task
    BY Zenon DEF IoTypeOK, LoopState, WaitId
  <2> DEFINE r == timer[s.tk]
  <2>3. timer \in [Task -> TimerState] /\ r \in TimerState
    BY <2>2, Zenon DEF IoTypeOK
  <2>4. [r EXCEPT !.at = "firing"] \in TimerState
    BY <2>3, Zenon DEF TimerState
  <2>5. timer' \in [Task -> TimerState]
    BY <2>1, <2>2, <2>3, <2>4, Zenon
  <2>6. QED
    BY <1>1, <1>3, <2>5, Zenon DEF IoTypeOK, LoopTimeout, waitvars, refvars
<1>4. CASE CancelClear
  <2>1. /\ wl.cur.tk \in Task /\ Head(wl.left) \in Fd
        /\ epoll \in [Fd -> WaitId \cup {NULL}]
        /\ ref_count_ \in [Task -> Int] /\ delete_list \subseteq Task
    BY <1>4, InTail, Zenon DEF CancelClear, IoTypeOK, LoopState, WaitId
  <2>2. /\ epoll' \in [Fd -> WaitId \cup {NULL}]
        /\ ref_count_' \in [Task -> Int] /\ delete_list' \subseteq Task
    BY <1>4, <2>1 DEF CancelClear, DeleteFd, DecrementRef, refvars
  <2>3. QED
    BY <1>1, <1>4, <2>2, Zenon DEF IoTypeOK, CancelClear, waitvars
<1>5. CASE CancelWake
  <2>1. wl.cur.tk \in Task
    BY <1>5, Zenon DEF CancelWake, IoTypeOK, WaitId
  <2>2. place' \in [Task -> {"running", "blocked", "runnable", "done", "asleep"}]
    BY <1>5, <2>1, Zenon DEF CancelWake, IoTypeOK
  <2>3. QED
    BY <1>1, <1>5, <2>2, Zenon DEF IoTypeOK, CancelWake, waitvars, refvars
<1>6. CASE TimeoutDone
  <2>1. wl.cur.tk \in Task
    BY <1>6, Zenon DEF TimeoutDone, IoTypeOK, WaitId
  <2> DEFINE r == timer[wl.cur.tk]
  <2>2. timer[wl.cur.tk] \in TimerState /\ [r EXCEPT !.at = "fired"] \in TimerState
    <3>1. r \in TimerState
      BY <2>1, Zenon DEF IoTypeOK
    <3>2. QED
      BY <3>1, Zenon DEF TimerState
  <2>3. /\ timer' \in [Task -> TimerState]
        /\ ref_count_' \in [Task -> Int] /\ delete_list' \subseteq Task
    BY <1>6, <2>1, <2>2 DEF TimeoutDone, DecrementRef, IoTypeOK
  <2>4. QED
    BY <1>1, <1>6, <2>3, Zenon DEF IoTypeOK, TimeoutDone, waitvars
<1>7. QED
  BY <1>2, <1>3, <1>4, <1>5, <1>6, Zenon DEF WaitLoop

\* Every step of IoWait keeps the types.
LEMMA IoStepTypes == IoTypeOK /\ IoStep => IoTypeOK'
<1> SUFFICES ASSUME IoTypeOK, IoStep PROVE IoTypeOK'
  BY Zenon
<1>1. ASSUME NEW t \in Task,
             UNCHANGED <<epoll, wait_tasks_, waitvars, evvars, timer, refvars, deleted, sw, wl>>,
             \/ place[t] = "running" /\ place' = [place EXCEPT ![t] = "asleep"]
             \/ place[t] = "asleep" /\ place' = [place EXCEPT ![t] = "running"]
      PROVE  IoTypeOK'
  BY <1>1, ZenonT(60) DEF IoTypeOK, waitvars, refvars
<1>2. CASE UNCHANGED iovars
  BY <1>2, Zenon DEF IoTypeOK, iovars, waitvars, refvars
<1>3. QED
  BY <1>1, <1>2, TaskTypes, SwitchTypes, LoopStepTypes, Zenon DEF IoStep

-----------------------------------------------------------------------------
(* WokenOnce *)

\* A coroutine that blocks is known to nobody yet; SchedulerSwitch makes it
\* known, and whoever takes it from wait_tasks_ makes it runnable.
LEMMA StepWokenInv == WokenInv /\ IoStep => WokenInv'
<1> SUFFICES ASSUME WokenInv, IoStep PROVE WokenInv'
  BY Zenon
<1>1. IoTypeOK /\ IoTypeOK' /\ WokenOnce /\ NotYetKnown
  BY IoStepTypes, Zenon DEF WokenInv
<1>2. /\ place \in [Task -> {"running", "blocked", "runnable", "done", "asleep"}]
      /\ sw \in [Task -> SwitchState] /\ wait_tasks_ \subseteq Task
      /\ wl \in LoopState /\ (wl.at = "clear" => wl.cur.tk \in Task)
  BY <1>1, ZenonT(60) DEF IoTypeOK, WaitId
<1>3. ASSUME NEW t \in Task, NEW fds \in Lists(t), NEW b \in BOOLEAN, CoSwitch(t, fds, b)
      PROVE  WokenOnce' /\ NotYetKnown'
  BY <1>1, <1>2, <1>3, Zenon DEF CoSwitch, WokenOnce, NotYetKnown, SwitchState
<1>4. ASSUME NEW t \in Task, Resume(t) \/ Finish(t) \/ Expire(t)
      PROVE  WokenOnce' /\ NotYetKnown'
  BY <1>1, <1>2, <1>4 DEF Resume, Finish, Expire, WokenOnce, NotYetKnown
<1>5. ASSUME NEW t \in Task, SchedulerSwitch(t)
      PROVE  WokenOnce' /\ NotYetKnown'
  <2>1. CASE SwitchLock(t)
    BY <1>1, <1>2, <2>1, ZenonT(60) DEF SwitchLock, WokenOnce, NotYetKnown, SwitchState
  <2>2. CASE SwitchFailed(t)
    BY <1>1, <1>2, <2>2, Zenon DEF SwitchFailed, WokenOnce, NotYetKnown, SwitchState, NoSwitch
  <2>3. CASE SwitchAdd(t) \/ SwitchAddFails(t) \/ SwitchExists(t) \/ SwitchRollback(t)
             \/ SwitchDone(t)
    <3>1. UNCHANGED <<wait_tasks_, place, wl>>
      BY <2>3, ZenonT(60) DEF SwitchAdd, SwitchAddFails, SwitchExists, SwitchRollback,
         SwitchDone
    <3>2. \A u \in Task \ {t} : sw'[u] = sw[u]
      BY <1>2, <2>3, Zenon DEF SwitchAdd, SwitchAddFails, SwitchExists, SwitchRollback,
         SwitchDone
    <3>3. sw'[t].at # "lock"
      <4> DEFINE r == sw[t]
      <4>1. r \in SwitchState /\ sw' = [sw EXCEPT ![t] = sw'[t]]
        BY <1>2, <2>3, Zenon DEF SwitchAdd, SwitchAddFails, SwitchExists, SwitchRollback,
           SwitchDone
      <4>2. CASE SwitchAdd(t)
        BY <1>2, <4>1, <4>2, Zenon DEF SwitchAdd, SwitchState
      <4>3. CASE SwitchAddFails(t)
        BY <1>2, <4>1, <4>3, Zenon DEF SwitchAddFails, SwitchState
      <4>4. CASE SwitchExists(t)
        BY <1>2, <4>1, <4>4, Zenon DEF SwitchExists, SwitchState
      <4>5. CASE SwitchRollback(t)
        BY <1>2, <4>1, <4>5, ZenonT(60) DEF SwitchRollback, SwitchState
      <4>6. CASE SwitchDone(t)
        BY <1>2, <4>6, Zenon DEF SwitchDone, NoSwitch
      <4>7. QED
        BY <2>3, <4>2, <4>3, <4>4, <4>5, <4>6, ZenonT(60)
    <3>4. QED
      BY <1>1, <3>1, <3>2, <3>3, ZenonT(60) DEF WokenOnce, NotYetKnown
  <2>4. QED
    BY <1>5, <2>1, <2>2, <2>3, Zenon DEF SchedulerSwitch
<1>6. ASSUME NEW t \in Task, UNCHANGED <<wait_tasks_, sw, wl>>,
             \/ place[t] = "running" /\ place' = [place EXCEPT ![t] = "asleep"]
             \/ place[t] = "asleep" /\ place' = [place EXCEPT ![t] = "running"]
      PROVE  WokenOnce' /\ NotYetKnown'
  BY <1>1, <1>2, <1>6, Zenon DEF WokenOnce, NotYetKnown
<1>7. ASSUME WaitLoop PROVE WokenOnce' /\ NotYetKnown'
  <2>1. CASE CancelErase
    <3>1. /\ UNCHANGED <<place, sw>> /\ wait_tasks_' = wait_tasks_ \ {wl.cur.tk}
          /\ \/ wl.cur.tk \in wait_tasks_ /\ wl'.cur = wl.cur
             \/ wl.cur.tk \notin wait_tasks_ /\ wl'.at # "clear"
      <4> DEFINE q == wait_fds_[wl.cur.tk]
      <4>1. CASE wl.cur.tk \in wait_tasks_
        <5>1. wl' = [wl EXCEPT !.at = "clear", !.left = q]
          BY <2>1, <4>1, Zenon DEF CancelErase
        <5> HIDE DEF q
        <5>2. wl'.cur = wl.cur
          BY <1>2, <5>1, Zenon DEF LoopState
        <5>3. QED
          BY <2>1, <4>1, <5>2, Zenon DEF CancelErase
      <4>2. CASE wl.cur.tk \notin wait_tasks_
        BY <1>2, <2>1, <4>2, ZenonT(60) DEF CancelErase, CancelReturns, LoopState
      <4>3. QED
        BY <4>1, <4>2, Zenon
    <3>2. QED
      BY <1>1, <1>2, <3>1, ZenonT(60) DEF WokenOnce, NotYetKnown
  <2>2. CASE CancelWake
    <3>1. /\ wl.at = "clear" /\ wl'.at # "clear" /\ place' = [place EXCEPT ![wl.cur.tk] = "runnable"]
          /\ UNCHANGED <<wait_tasks_, sw>>
      BY <1>2, <2>2, ZenonT(60) DEF CancelWake, CancelReturns, LoopState
    <3>2. QED
      BY <1>1, <1>2, <3>1, Zenon DEF WokenOnce, NotYetKnown
  <2>3. CASE CancelClear
    BY <1>1, <1>2, <2>3, Zenon DEF CancelClear, WokenOnce, NotYetKnown, LoopState
  <2>4. CASE LoopFetch \/ LoopSwap \/ TimeoutDone \/ LoopDelete
    <3>1. UNCHANGED <<place, sw, wait_tasks_>>
      BY <2>4, ZenonT(60) DEF LoopFetch, LoopSwap, TimeoutDone, LoopDelete
    <3>2. wl'.at # "clear"
      <4>1. CASE LoopFetch \/ LoopSwap
        BY <1>2, <4>1, ZenonT(60) DEF LoopFetch, LoopSwap, LoopState
      <4>2. CASE TimeoutDone
        BY <1>2, <4>2, Zenon DEF TimeoutDone, LoopState
      <4>3. CASE LoopDelete
        BY <4>3, Zenon DEF LoopDelete, NoLoop
      <4>4. QED
        BY <2>4, <4>1, <4>2, <4>3, Zenon
    <3>3. QED
      BY <1>1, <3>1, <3>2, Zenon DEF WokenOnce, NotYetKnown
  <2>5. CASE LoopEvent \/ LoopSkipTimeout \/ LoopCancel \/ LoopTimeout
    <3>1. UNCHANGED <<place, sw, wait_tasks_>>
      BY <2>5, ZenonT(60) DEF LoopEvent, LoopSkipTimeout, LoopCancel, LoopTimeout
    <3>2. wl'.at # "clear"
      <4>1. CASE LoopEvent \/ LoopSkipTimeout
        BY <1>2, <4>1, ZenonT(60) DEF LoopEvent, LoopSkipTimeout, LoopState
      <4>2. CASE LoopCancel
        BY <1>2, <4>2, ZenonT(60) DEF LoopCancel, EventsDone, LoopState
      <4>3. CASE LoopTimeout
        BY <1>2, <4>3, ZenonT(60) DEF LoopTimeout, LoopState
      <4>4. QED
        BY <2>5, <4>1, <4>2, <4>3, Zenon
    <3>3. QED
      BY <1>1, <3>1, <3>2, ZenonT(60) DEF WokenOnce, NotYetKnown
  <2>6. QED
    BY <1>7, <2>1, <2>2, <2>3, <2>4, <2>5, Zenon DEF WaitLoop
<1>8. ASSUME UNCHANGED iovars PROVE WokenOnce' /\ NotYetKnown'
  BY <1>1, <1>8, Zenon DEF iovars, WokenOnce, NotYetKnown
<1>9. QED
  BY <1>1, <1>3, <1>4, <1>5, <1>6, <1>7, <1>8, Zenon DEF IoStep, WokenInv

-----------------------------------------------------------------------------
(* What each step does to the fields of the records *)

\* The steps of WaitLoop that wake nobody.
LEMMA LoopFields ==
  ASSUME IoTypeOK
  PROVE  /\ LoopFetch => \E ready \in SUBSET {f \in Fd : epoll[f] # NULL} :
                           /\ wl.at \in {"none", "events"} /\ wl'.at = "events"
                           /\ wl'.tasks = wl.tasks
                           /\ wl'.evs = {[st |-> epoll[f], fd |-> f] : f \in ready}
         /\ LoopEvent => \E e \in wl.evs :
                           /\ wl.at = "events" /\ wl'.at = "events"
                           /\ wl'.evs = wl.evs \ {e} /\ wl'.tasks \subseteq wl.tasks \cup {e.st}
         /\ LoopSwap => /\ wl.at = "events" /\ wl'.at = "timeouts"
                        /\ wl.tasks = {} /\ wl'.tasks = {} /\ wl.evs = {} /\ wl'.evs = {}
         /\ LoopSkipTimeout => /\ wl.at = "timeouts" /\ wl'.at = "timeouts"
                               /\ wl'.tasks = wl.tasks /\ wl'.evs = wl.evs
         /\ LoopDelete => /\ wl.at = "timeouts" /\ wl'.at = "none"
                          /\ wl'.tasks = {} /\ wl'.evs = {}
<1>1. wl \in LoopState
  BY Zenon DEF IoTypeOK
<1>2. ASSUME LoopFetch
      PROVE  \E ready \in SUBSET {f \in Fd : epoll[f] # NULL} :
               /\ wl.at \in {"none", "events"} /\ wl'.at = "events" /\ wl'.tasks = wl.tasks
               /\ wl'.evs = {[st |-> epoll[f], fd |-> f] : f \in ready}
  <2>1. PICK ready \in SUBSET {f \in Fd : epoll[f] # NULL}, type \in {0, 1} :
          wl' = [wl EXCEPT !.at = "events", !.type = type,
                           !.evs = {[st |-> epoll[f], fd |-> f] : f \in ready}]
    BY <1>2, ZenonT(60) DEF LoopFetch
  <2> DEFINE E == {[st |-> epoll[f], fd |-> f] : f \in ready}
  <2>2. wl' = [wl EXCEPT !.at = "events", !.type = type, !.evs = E]
    BY <2>1, Zenon
  <2> HIDE DEF E
  <2>3. wl'.at = "events" /\ wl'.tasks = wl.tasks /\ wl'.evs = E
    BY <1>1, <2>2, Zenon DEF LoopState
  <2>4. wl.at \in {"none", "events"}
    BY <1>2, Zenon DEF LoopFetch
  <2>5. QED
    BY <2>3, <2>4, ZenonT(60) DEF E
<1>3. ASSUME LoopEvent
      PROVE  \E e \in wl.evs : /\ wl.at = "events" /\ wl'.at = "events"
                               /\ wl'.evs = wl.evs \ {e} /\ wl'.tasks \subseteq wl.tasks \cup {e.st}
  <2>1. PICK e \in wl.evs :
          wl' = [wl EXCEPT !.evs = @ \ {e},
                           !.tasks = IF \E s \in @ : s.tk = e.st.tk THEN @ ELSE @ \cup {e.st}]
    BY <1>3, ZenonT(60) DEF LoopEvent
  <2> DEFINE T == IF \E s \in wl.tasks : s.tk = e.st.tk THEN wl.tasks ELSE wl.tasks \cup {e.st}
             E == wl.evs \ {e}
  <2>2. wl' = [wl EXCEPT !.evs = E, !.tasks = T]
    BY <1>1, <2>1, Zenon DEF LoopState
  <2>3. T \subseteq wl.tasks \cup {e.st}
    BY Zenon
  <2> HIDE DEF T, E
  <2>4. wl'.at = wl.at /\ wl'.evs = E /\ wl'.tasks = T
    BY <1>1, <2>2, Zenon DEF LoopState
  <2>5. QED
    BY <1>3, <2>3, <2>4, ZenonT(60) DEF LoopEvent, E
<1>4. ASSUME LoopSwap
      PROVE  /\ wl.at = "events" /\ wl'.at = "timeouts"
             /\ wl.tasks = {} /\ wl'.tasks = {} /\ wl.evs = {} /\ wl'.evs = {}
  BY <1>1, <1>4, Zenon DEF LoopSwap, EventsDone, LoopState
<1>5. ASSUME LoopSkipTimeout
      PROVE  wl.at = "timeouts" /\ wl'.at = "timeouts" /\ wl'.tasks = wl.tasks /\ wl'.evs = wl.evs
  BY <1>1, <1>5, SMTT(60) DEF LoopSkipTimeout, LoopState
<1>6. ASSUME LoopDelete
      PROVE  wl.at = "timeouts" /\ wl'.at = "none" /\ wl'.tasks = {} /\ wl'.evs = {}
  BY <1>6, Zenon DEF LoopDelete, NoLoop
<1>7. QED
  BY <1>2, <1>3, <1>4, <1>5, <1>6, Zenon

\* Cancel returns to the loop over epollwait_tasks_, or to the timer's callback.
Returned ==
  \/ wl.cur \in wl.tasks /\ wl'.at = "events" /\ wl'.tasks = wl.tasks \ {wl.cur}
  \/ /\ wl.cur \notin wl.tasks /\ wl'.at = "fired"
     /\ wl'.tasks = wl.tasks /\ wl'.cur = wl.cur

\* The steps of Cancel and of its callers.
LEMMA CancelFields ==
  ASSUME IoTypeOK
  PROVE  /\ LoopCancel => \E s \in wl.tasks :
              /\ wl.at = "events" /\ wl.evs = {} /\ wl'.evs = {}
              /\ \/ CancelMisses(s) /\ wl'.at = "events" /\ wl'.tasks = wl.tasks \ {s}
                 \/ ~CancelMisses(s) /\ wl'.at = "erase" /\ wl'.tasks = wl.tasks /\ wl'.cur = s
         /\ LoopTimeout => \E s \in wl.timeouts :
              /\ wl.at = "timeouts" /\ ~Inactive(s) /\ wl'.evs = wl.evs /\ wl'.tasks = wl.tasks
              /\ wl'.at \in {"fired", "erase"} /\ wl'.cur = s
              /\ timer' = [timer EXCEPT ![s.tk].at = "firing"]
         /\ CancelErase => /\ wl.at = "erase" /\ wl'.evs = wl.evs
                           /\ \/ /\ wl.cur.tk \in wait_tasks_ /\ wl'.at = "clear"
                                 /\ wl'.tasks = wl.tasks /\ wl'.cur = wl.cur
                                 /\ wl'.left = wait_fds_[wl.cur.tk]
                              \/ wl.cur.tk \notin wait_tasks_ /\ Returned
         /\ CancelClear => /\ wl.at = "clear" /\ wl'.at = "clear" /\ wl'.evs = wl.evs
                           /\ wl'.tasks = wl.tasks /\ wl'.cur = wl.cur
                           /\ wl.left # <<>> /\ wl'.left = Tail(wl.left)
         /\ CancelWake => wl.at = "clear" /\ wl.left = <<>> /\ wl'.evs = wl.evs /\ Returned
         /\ TimeoutDone => /\ wl.at = "fired" /\ wl'.at = "timeouts"
                           /\ wl'.evs = wl.evs /\ wl'.tasks = wl.tasks
<1>1. wl \in LoopState
  BY Zenon DEF IoTypeOK
<1>2. ASSUME LoopCancel
      PROVE  \E s \in wl.tasks :
              /\ wl.at = "events" /\ wl.evs = {} /\ wl'.evs = {}
              /\ \/ CancelMisses(s) /\ wl'.at = "events" /\ wl'.tasks = wl.tasks \ {s}
                 \/ ~CancelMisses(s) /\ wl'.at = "erase" /\ wl'.tasks = wl.tasks /\ wl'.cur = s
  <2>1. PICK s \in wl.tasks :
          \/ CancelMisses(s) /\ wl' = [wl EXCEPT !.tasks = @ \ {s}]
          \/ ~CancelMisses(s) /\ wl' = [wl EXCEPT !.at = "erase", !.cur = s]
    BY <1>2, ZenonT(60) DEF LoopCancel
  <2>2. wl.at = "events" /\ wl.evs = {}
    BY <1>2, Zenon DEF LoopCancel, EventsDone
  <2>3. CASE CancelMisses(s) /\ wl' = [wl EXCEPT !.tasks = @ \ {s}]
    BY <1>1, <2>2, <2>3, Zenon DEF LoopState
  <2>4. CASE ~CancelMisses(s) /\ wl' = [wl EXCEPT !.at = "erase", !.cur = s]
    BY <1>1, <2>2, <2>4, Zenon DEF LoopState
  <2>5. QED
    BY <2>1, <2>3, <2>4, Zenon
<1>3. ASSUME LoopTimeout
      PROVE  \E s \in wl.timeouts :
              /\ wl.at = "timeouts" /\ ~Inactive(s) /\ wl'.evs = wl.evs /\ wl'.tasks = wl.tasks
              /\ wl'.at \in {"fired", "erase"} /\ wl'.cur = s
              /\ timer' = [timer EXCEPT ![s.tk].at = "firing"]
  <2>1. PICK s \in wl.timeouts, a \in {"fired", "erase"} :
          /\ ~Inactive(s) /\ wl' = [wl EXCEPT !.at = a, !.cur = s]
          /\ timer' = [timer EXCEPT ![s.tk].at = "firing"]
    BY <1>3, ZenonT(60) DEF LoopTimeout
  <2>2. wl'.evs = wl.evs /\ wl'.tasks = wl.tasks /\ wl'.at = a /\ wl'.cur = s
    BY <1>1, <2>1, Zenon DEF LoopState
  <2>3. wl.at = "timeouts"
    BY <1>3, Zenon DEF LoopTimeout
  <2>4. QED
    BY <2>1, <2>2, <2>3, Zenon
<1>4. ASSUME CancelReturns PROVE Returned /\ wl'.evs = wl.evs
  <2>1. CASE wl.cur \in wl.tasks
    BY <1>1, <1>4, <2>1, Zenon DEF CancelReturns, Returned, LoopState
  <2>2. CASE wl.cur \notin wl.tasks
    BY <1>1, <1>4, <2>2, Zenon DEF CancelReturns, Returned, LoopState
  <2>3. QED
    BY <2>1, <2>2, Zenon
<1>5. ASSUME CancelErase
      PROVE  /\ wl.at = "erase" /\ wl'.evs = wl.evs
             /\ \/ /\ wl.cur.tk \in wait_tasks_ /\ wl'.at = "clear"
                   /\ wl'.tasks = wl.tasks /\ wl'.cur = wl.cur
                   /\ wl'.left = wait_fds_[wl.cur.tk]
                \/ wl.cur.tk \notin wait_tasks_ /\ Returned
  <2>1. wl.at = "erase"
    BY <1>5, Zenon DEF CancelErase
  <2>2. CASE wl.cur.tk \in wait_tasks_
    <3> DEFINE q == wait_fds_[wl.cur.tk]
    <3>1. wl' = [wl EXCEPT !.at = "clear", !.left = q]
      BY <1>5, <2>2, Zenon DEF CancelErase
    <3> HIDE DEF q
    <3>2. wl'.evs = wl.evs /\ wl'.at = "clear" /\ wl'.tasks = wl.tasks /\ wl'.cur = wl.cur
          /\ wl'.left = q
      BY <1>1, <3>1, Zenon DEF LoopState
    <3>3. QED
      BY <2>1, <2>2, <3>2, Zenon DEF q
  <2>3. CASE wl.cur.tk \notin wait_tasks_
    BY <1>4, <1>5, <2>1, <2>3, Zenon DEF CancelErase
  <2>4. QED
    BY <2>2, <2>3, Zenon
<1>6. ASSUME CancelClear
      PROVE  /\ wl.at = "clear" /\ wl'.at = "clear" /\ wl'.evs = wl.evs
             /\ wl'.tasks = wl.tasks /\ wl'.cur = wl.cur
             /\ wl.left # <<>> /\ wl'.left = Tail(wl.left)
  BY <1>1, <1>6, SMTT(60) DEF CancelClear, LoopState
<1>7. ASSUME CancelWake
      PROVE  wl.at = "clear" /\ wl.left = <<>> /\ wl'.evs = wl.evs /\ Returned
  BY <1>4, <1>7, Zenon DEF CancelWake
<1>8. ASSUME TimeoutDone
      PROVE  wl.at = "fired" /\ wl'.at = "timeouts" /\ wl'.evs = wl.evs /\ wl'.tasks = wl.tasks
  BY <1>1, <1>8, SMTT(60) DEF TimeoutDone, LoopState
<1>9. QED
  BY <1>2, <1>3, <1>5, <1>6, <1>7, <1>8, Zenon

\* The steps of SchedulerSwitch change the record of one coroutine.
LEMMA SwitchFields ==
  ASSUME IoTypeOK, NEW t \in Task, SchedulerSwitch(t)
  PROVE  /\ \A u \in Task \ {t} : sw'[u] = sw[u]
         /\ SwitchLock(t) => /\ sw[t].at = "lock" /\ sw'[t].at = "add"
                             /\ sw'[t].rest = sw[t].rest /\ sw'[t].added = sw[t].added
         /\ SwitchAdd(t) => /\ sw[t].at = "add" /\ sw'[t].at = "add" /\ sw[t].rest # <<>>
                            /\ sw'[t].rest = Tail(sw[t].rest)
                            /\ sw'[t].added = Append(sw[t].added, Head(sw[t].rest))
         /\ SwitchAddFails(t) => /\ sw[t].at = "add" /\ sw'[t].at = "add" /\ sw[t].rest # <<>>
                                 /\ sw'[t].rest = Tail(sw[t].rest) /\ sw'[t].added = sw[t].added
         /\ SwitchExists(t) => /\ sw[t].at = "add" /\ sw'[t].at = "rollback"
                               /\ sw[t].rest # <<>>
                               /\ sw'[t].rest = sw[t].rest /\ sw'[t].added = sw[t].added
         /\ SwitchRollback(t) => /\ sw[t].at = "rollback" /\ sw'[t].at = "rollback"
                                 /\ sw[t].added # <<>>
                                 /\ sw'[t].rest = sw[t].rest /\ sw'[t].added = Tail(sw[t].added)
         /\ SwitchFailed(t) => /\ sw[t].at \in {"add", "rollback"} /\ sw[t].added = <<>>
                               /\ sw'[t].at = "none"
         /\ SwitchDone(t) => sw[t].at = "add" /\ sw[t].added # <<>> /\ sw'[t].at = "none"
<1> DEFINE r == sw[t]
<1>1. sw \in [Task -> SwitchState] /\ r \in SwitchState
  BY ZenonT(60) DEF IoTypeOK
<1>2. \A u \in Task \ {t} : sw'[u] = sw[u]
  BY <1>1, Zenon DEF SchedulerSwitch, SwitchLock, SwitchAdd, SwitchAddFails, SwitchExists,
     SwitchRollback, SwitchFailed, SwitchDone
<1>3. ASSUME SwitchLock(t)
      PROVE  /\ r.at = "lock" /\ sw'[t].at = "add"
             /\ sw'[t].rest = r.rest /\ sw'[t].added = r.added
  <2>1. r.at = "lock" /\ sw'[t] = [r EXCEPT !.at = "add"]
    BY <1>1, <1>3, Zenon DEF SwitchLock
  <2>2. QED
    BY <1>1, <2>1, Zenon DEF SwitchState
<1>4. ASSUME SwitchAdd(t)
      PROVE  /\ r.at = "add" /\ sw'[t].at = "add" /\ r.rest # <<>>
             /\ sw'[t].rest = Tail(r.rest) /\ sw'[t].added = Append(r.added, Head(r.rest))
  <2>1. /\ r.at = "add" /\ r.rest # <<>>
        /\ sw'[t] = [r EXCEPT !.rest = Tail(r.rest), !.added = Append(r.added, Head(r.rest))]
    BY <1>1, <1>4, Zenon DEF SwitchAdd, SwitchState
  <2> DEFINE T == Tail(r.rest)
             A == Append(r.added, Head(r.rest))
  <2>2. sw'[t] = [r EXCEPT !.rest = T, !.added = A]
    BY <2>1, Zenon
  <2> HIDE DEF T, A
  <2>3. sw'[t].at = r.at /\ sw'[t].rest = T /\ sw'[t].added = A
    BY <1>1, <2>2, Zenon DEF SwitchState
  <2>4. QED
    BY <2>1, <2>3, Zenon DEF T, A
<1>5. ASSUME SwitchAddFails(t)
      PROVE  /\ r.at = "add" /\ sw'[t].at = "add" /\ r.rest # <<>>
             /\ sw'[t].rest = Tail(r.rest) /\ sw'[t].added = r.added
  <2>1. r.at = "add" /\ r.rest # <<>> /\ sw'[t] = [r EXCEPT !.rest = Tail(r.rest)]
    BY <1>1, <1>5, Zenon DEF SwitchAddFails
  <2>2. QED
    BY <1>1, <2>1, Zenon DEF SwitchState
<1>6. ASSUME SwitchExists(t)
      PROVE  /\ r.at = "add" /\ sw'[t].at = "rollback" /\ r.rest # <<>>
             /\ sw'[t].rest = r.rest /\ sw'[t].added = r.added
  <2>1. r.at = "add" /\ r.rest # <<>> /\ sw'[t] = [r EXCEPT !.at = "rollback"]
    BY <1>1, <1>6, Zenon DEF SwitchExists
  <2>2. QED
    BY <1>1, <2>1, Zenon DEF SwitchState
<1>7. ASSUME SwitchRollback(t)
      PROVE  /\ r.at = "rollback" /\ sw'[t].at = "rollback" /\ r.added # <<>>
             /\ sw'[t].rest = r.rest /\ sw'[t].added = Tail(r.added)
  <2>1. r.at = "rollback" /\ r.added # <<>> /\ sw'[t] = [r EXCEPT !.added = Tail(r.added)]
    BY <1>1, <1>7, Zenon DEF SwitchRollback
  <2>2. QED
    BY <1>1, <2>1, Zenon DEF SwitchState
<1>8. ASSUME SwitchFailed(t)
      PROVE  r.at \in {"add", "rollback"} /\ r.added = <<>> /\ sw'[t].at = "none"
  BY <1>1, <1>8, Zenon DEF SwitchFailed, NoSwitch
<1>9. ASSUME SwitchDone(t)
      PROVE  r.at = "add" /\ r.added # <<>> /\ sw'[t].at = "none"
  BY <1>1, <1>9, ZenonT(60) DEF SwitchDone, NoSwitch
<1>10. QED
  BY <1>2, <1>3, <1>4, <1>5, <1>6, <1>7, <1>8, <1>9, Zenon

-----------------------------------------------------------------------------
(* The hooked calls *)

\* What a hooked call does to IoWait, and to the record of its coroutine.
LEMMA HookStep ==
  ASSUME FlagInv, HookNext
  PROVE  IoStep
<1>1. /\ HookTypeOK /\ HookShape /\ IoTypeOK
      /\ hook \in [Task -> HookState] /\ sleepers \subseteq Task
  BY ZenonT(60) DEF FlagInv, WokenInv, HookTypeOK
<1>2. ASSUME NEW t \in Task, NEW b \in BOOLEAN, CallWaits(t, b)
      PROVE  IoStep
  <2>1. hook[t].fn \in {"rw", "connect"} /\ CoSwitch(t, <<hook[t].f>>, b)
    BY <1>2, Zenon DEF CallWaits, At
  <2>2. hook[t].f \in Calls[t] \cup Connects[t]
    BY <1>1, <2>1, Zenon DEF HookShape, KnowsFd
  <2>3. <<hook[t].f>> \in Lists(t)
    BY <2>2, Zenon DEF Lists
  <2>4. QED
    BY <2>1, <2>3, ZenonT(60) DEF IoStep
<1>3. ASSUME NEW t \in Task, NEW fds \in Waits[t], NEW b \in BOOLEAN,
             Poll(t, fds, b) \/ Select(t, fds, b)
      PROVE  IoStep
  BY <1>3, ZenonT(60) DEF Poll, Select, WaitForMany, IoStep, Lists
<1>4. ASSUME NEW t \in Task,
             \/ \E f \in Calls[t] : ReadCall(t, f) \/ WriteCall(t, f)
             \/ \E f \in Connects[t] : Connect(t, f)
             \/ SetNonblock(t) \/ CallCompletes(t) \/ AfterWait(t) \/ Restore(t)
             \/ BlockingCall(t)
      PROVE  IoStep
  <2>1. UNCHANGED iovars
    BY <1>4, Zenon DEF ReadCall, WriteCall, Connect, GetFlags, SetNonblock, CallCompletes,
       AfterWait,
       Restore, BlockingCall
  <2>2. QED
    BY <2>1, Zenon DEF IoStep
<1>5. ASSUME NEW t \in Task, NEW fn, SleepSwitch(t, fn), place[t] = "running"
      PROVE  IoStep
  BY <1>5, ZenonT(60) DEF SleepSwitch, notsleep, IoStep
<1>6. ASSUME NEW t \in Task, AfterPoll(t) \/ AfterSelect(t)
      PROVE  IoStep
  <2>1. place[t] = "running" /\ SleepIfRefused(t)
    BY <1>6, Zenon DEF AfterPoll, AfterSelect, At
  <2>2. CASE SleepSwitch(t, hook[t].fn)
    BY <1>5, <2>1, <2>2, Zenon
  <2>3. CASE UNCHANGED iovars
    BY <2>3, Zenon DEF IoStep
  <2>4. QED
    BY <2>1, <2>2, <2>3, Zenon DEF SleepIfRefused
<1>7. ASSUME NEW t \in Task, SleepEnter(t)
      PROVE  IoStep
  <2>1. UNCHANGED iovars
    BY <1>7, Zenon DEF SleepEnter, notsleep, iovars
  <2>2. QED
    BY <2>1, Zenon DEF IoStep
<1>8. ASSUME NEW t \in Task, SleepWakeup(t)
      PROVE  IoStep
  <2>1. place[t] = "asleep"
    BY <1>1, <1>8, Zenon DEF SleepWakeup, HookShape
  <2>2. QED
    BY <1>8, <2>1, ZenonT(60) DEF SleepWakeup, notsleep, IoStep
<1>9. ASSUME NEW t \in Task, Sleep(t)
      PROVE  IoStep
  BY <1>5, <1>9, Zenon DEF Sleep, At
<1>10. ASSUME NEW t \in Task, Finish(t) \/ Resume(t) \/ SchedulerSwitch(t) \/ Expire(t)
       PROVE  IoStep
  BY <1>10, ZenonT(60) DEF IoStep
<1>11. QED
  BY <1>2, <1>3, <1>4, <1>6, <1>7, <1>8, <1>9, <1>10, ZenonT(60) DEF HookNext, Continue, IoStep

\* t is in a call that is going to clear O_NONBLOCK of d.
Clears(t, d) ==
  /\ hook[t].at \in {"call", "wait", "again", "restore", "unset"}
  /\ hook[t].f \in Fd /\ DescOf[hook[t].f] = d

\* A step of the hooked calls changes one record.
LEMMA HookRecords ==
  ASSUME HookTypeOK, NEW t \in Task
  PROVE  /\ \A a \in {"call", "wait", "again", "timer", "restore", "unset", "block"} : Goto(t, a) =>
              /\ hook' \in [Task -> HookState] /\ \A u \in Task \ {t} : hook'[u] = hook[u]
              /\ hook'[t].at = a /\ hook'[t].fn = hook[t].fn /\ hook'[t].f = hook[t].f
         /\ Return(t) =>
              /\ hook' \in [Task -> HookState] /\ \A u \in Task \ {t} : hook'[u] = hook[u]
              /\ hook'[t].at = "none" /\ hook'[t].fn = "none" /\ hook'[t].f = NULL
         /\ \A fn \in {"poll", "select", "sleep"} : SleepSwitch(t, fn) =>
              /\ hook' \in [Task -> HookState] /\ \A u \in Task \ {t} : hook'[u] = hook[u]
              /\ hook'[t].at = "sleep" /\ hook'[t].fn = fn /\ hook'[t].f = hook[t].f
<1> DEFINE h == hook[t]
<1>1. hook \in [Task -> HookState] /\ h \in HookState /\ NoHook \in HookState
  BY Zenon DEF HookTypeOK, NoHook, HookState
<1>2. ASSUME NEW a \in {"call", "wait", "again", "timer", "restore", "unset", "block"}, Goto(t, a)
      PROVE  /\ hook' \in [Task -> HookState] /\ \A u \in Task \ {t} : hook'[u] = hook[u]
             /\ hook'[t].at = a /\ hook'[t].fn = h.fn /\ hook'[t].f = h.f
  <2>1. [h EXCEPT !.at = a] \in HookState
    BY <1>1, Zenon DEF HookState
  <2>2. hook' = [hook EXCEPT ![t] = [h EXCEPT !.at = a]]
    BY <1>2, Zenon DEF Goto
  <2>3. hook' \in [Task -> HookState] /\ \A u \in Task \ {t} : hook'[u] = hook[u]
    BY <1>1, <2>1, <2>2, Zenon
  <2>4. hook'[t] = [h EXCEPT !.at = a]
    BY <1>1, <2>2, Zenon
  <2>5. QED
    BY <1>1, <2>3, <2>4, Zenon DEF HookState
<1>3. ASSUME Return(t)
      PROVE  /\ hook' \in [Task -> HookState] /\ \A u \in Task \ {t} : hook'[u] = hook[u]
             /\ hook'[t].at = "none" /\ hook'[t].fn = "none" /\ hook'[t].f = NULL
  BY <1>1, <1>3, Zenon DEF Return, NoHook
<1>4. ASSUME NEW fn \in {"poll", "select", "sleep"}, SleepSwitch(t, fn)
      PROVE  /\ hook' \in [Task -> HookState] /\ \A u \in Task \ {t} : hook'[u] = hook[u]
             /\ hook'[t].at = "sleep" /\ hook'[t].fn = fn /\ hook'[t].f = h.f
  <2>1. [h EXCEPT !.fn = fn, !.at = "sleep"] \in HookState
    BY <1>1, ZenonT(60) DEF HookState
  <2>2. hook' = [hook EXCEPT ![t] = [h EXCEPT !.fn = fn, !.at = "sleep"]]
    BY <1>1, <1>4, ZenonT(60) DEF SleepSwitch, HookState
  <2>3. hook' \in [Task -> HookState] /\ \A u \in Task \ {t} : hook'[u] = hook[u]
    BY <1>1, <2>1, <2>2, Zenon
  <2>4. hook'[t] = [h EXCEPT !.fn = fn, !.at = "sleep"]
    BY <1>1, <2>2, Zenon
  <2>5. QED
    BY <1>1, <2>3, <2>4, Zenon DEF HookState
<1>5. QED
  BY <1>2, <1>3, <1>4, Zenon

\* Nobody but the timer of SleepWait wakes a coroutine that is asleep.
LEMMA AsleepStays ==
  ASSUME WokenInv, NEW u \in Task, place[u] = "asleep",
         \/ \E t \in Task : \/ \E fds, b : CoSwitch(t, fds, b)
                            \/ Resume(t) \/ Finish(t) \/ SchedulerSwitch(t) \/ Expire(t)
         \/ WaitLoop
         \/ UNCHANGED place
  PROVE  place'[u] = "asleep"
<1>1. place \in [Task -> {"running", "blocked", "runnable", "done", "asleep"}] /\ WokenOnce
  BY Zenon DEF WokenInv, IoTypeOK
<1>2. ASSUME NEW t \in Task, \/ \E fds, b : CoSwitch(t, fds, b)
                             \/ Resume(t) \/ Finish(t) \/ Expire(t)
      PROVE  place'[u] = "asleep"
  BY <1>1, <1>2, Zenon DEF CoSwitch, Resume, Finish, Expire
<1>3. ASSUME NEW t \in Task, SchedulerSwitch(t) PROVE place'[u] = "asleep"
  <2>1. \/ place' = place
        \/ t \in wait_tasks_ /\ place' = [place EXCEPT ![t] = "runnable"]
    BY <1>3, ZenonT(60) DEF SchedulerSwitch, SwitchLock, SwitchAdd, SwitchAddFails,
       SwitchExists,
       SwitchRollback, SwitchFailed, SwitchDone
  <2>2. QED
    BY <1>1, <2>1, ZenonT(60) DEF WokenOnce
<1>4. ASSUME WaitLoop PROVE place'[u] = "asleep"
  <2>1. \/ place' = place
        \/ wl.at = "clear" /\ place' = [place EXCEPT ![wl.cur.tk] = "runnable"]
    BY <1>4, ZenonT(60) DEF WaitLoop, LoopFetch, LoopEvent, LoopCancel, CancelErase,
       LoopSwap,
       LoopSkipTimeout, LoopTimeout, CancelClear, CancelWake, TimeoutDone, LoopDelete
  <2>2. QED
    BY <1>1, <2>1, ZenonT(60) DEF WokenOnce
<1>5. QED
  BY <1>2, <1>3, <1>4, Zenon

\* Who sets O_NONBLOCK of a descriptor clears it.
LEMMA StepFlagInv ==
  ASSUME FlagInv, [HookNext]_hvars
  PROVE  FlagInv'
<1>1. /\ WokenInv /\ HookTypeOK /\ HookShape /\ FlagRestored
      /\ hook \in [Task -> HookState] /\ sleepers \subseteq Task
      /\ nonblock \in [Desc -> BOOLEAN]
      /\ place \in [Task -> {"running", "blocked", "runnable", "done", "asleep"}]
      /\ \A u \in sleepers : place[u] = "asleep" /\ hook[u].at = "timer"
  BY ZenonT(60) DEF FlagInv, HookTypeOK, WokenInv, IoTypeOK, HookShape
<1>2. CASE UNCHANGED hvars
  <2>1. WokenInv'
    BY <1>1, <1>2, StepWokenInv, Zenon DEF hvars, IoStep
  <2>2. QED
    BY <1>1, <1>2, <2>1, SMTT(60) DEF FlagInv, hvars, hookvars, iovars, HookTypeOK, HookShape,
       KnowsFd, FlagRestored
<1>3. SUFFICES ASSUME HookNext PROVE HookTypeOK' /\ HookShape' /\ FlagRestored'
  <2>1. HookNext => WokenInv'
    BY HookStep, StepWokenInv, ZenonT(60) DEF FlagInv
  <2>2. QED
    BY <1>2, <1>3, <2>1, Zenon DEF FlagInv
\* A step that changes the record of t and the flag of its descriptor.
<1>4. ASSUME NEW t \in Task, hook' \in [Task -> HookState],
             \A u \in Task \ {t} : hook'[u] = hook[u],
             nonblock' \in [Desc -> BOOLEAN],
             \A d \in Desc : nonblock'[d] => Clears(t, d)' \/ (nonblock[d] /\ ~Clears(t, d)),
             KnowsFd(t)',
             sleepers' \subseteq Task,
             \A u \in sleepers' : place'[u] = "asleep" /\ hook'[u].at = "timer"
      PROVE  HookTypeOK' /\ HookShape' /\ FlagRestored'
  <2>1. HookTypeOK'
    BY <1>4, ZenonT(60) DEF HookTypeOK
  <2> \A u \in Task : KnowsFd(u)'
    BY <1>1, <1>4, SMTT(60) DEF KnowsFd, HookShape
  <2> HookShape'
    BY <1>4, ZenonT(60) DEF HookShape
  <2>2. ASSUME NEW d \in Desc, nonblock'[d] PROVE \E u \in Task : Clears(u, d)'
    <3>1. CASE Clears(t, d)'
      BY <3>1, ZenonT(60)
    <3>2. CASE nonblock[d] /\ ~Clears(t, d)
      <4>1. PICK u \in Task : Clears(u, d)
        BY <1>1, <3>2, ZenonT(60) DEF FlagRestored, Clears
      <4>2. u # t /\ hook'[u] = hook[u]
        BY <1>4, <3>2, <4>1, SMTT(60)
      <4>3. QED
        BY <4>1, <4>2, ZenonT(60) DEF Clears
    <3>3. QED
      BY <1>4, <2>2, <3>1, <3>2, Zenon
  <2>3. QED
    BY <2>1, <2>2, SMTT(60) DEF FlagRestored, Clears
\* The same when nobody goes to sleep or wakes up, and t runs.
<1>5. ASSUME NEW t \in Task, place[t] = "running", sleepers' = sleepers,
             \A u \in Task \ {t} : place'[u] = place[u]
      PROVE  \A u \in sleepers' : u \in Task \ {t} /\ place'[u] = "asleep" /\ hook[u].at = "timer"
  BY <1>1, <1>5, ZenonT(60)
<1>6. ASSUME NEW t \in Task, NEW f \in Calls[t] \cup Connects[t], NEW fn \in {"rw", "connect"},
             GetFlags(t, fn, f)
      PROVE  HookTypeOK' /\ HookShape' /\ FlagRestored'
  <2>1. [fn |-> fn, at |-> "set", f |-> f] \in HookState
    BY HookAssumption, ZenonT(60) DEF HookState
  <2>2. /\ hook' \in [Task -> HookState] /\ \A u \in Task \ {t} : hook'[u] = hook[u]
        /\ hook'[t].fn = fn /\ hook'[t].f = f /\ hook[t].at = "none"
        /\ place[t] = "running" /\ UNCHANGED <<place, nonblock, sleepers>>
    BY <1>1, <1>6, <2>1, ZenonT(60) DEF GetFlags, At, iovars
  <2>3. \A d \in Desc : ~Clears(t, d)
    BY <2>2, SMTT(60) DEF Clears
  <2>4. KnowsFd(t)' /\ \A d \in Desc : nonblock'[d] => nonblock[d]
    BY <2>2, SMTT(60) DEF KnowsFd
  <2>5. \A u \in sleepers' : place'[u] = "asleep" /\ hook'[u].at = "timer"
    BY <1>5, <2>2, ZenonT(60)
  <2>6. QED
    BY <1>1, <1>4, <2>2, <2>3, <2>4, <2>5, SMTT(60)
<1>7. ASSUME NEW t \in Task, SetNonblock(t) \/ CallCompletes(t) \/ AfterWait(t)
      PROVE  HookTypeOK' /\ HookShape' /\ FlagRestored'
  <2>1. /\ hook[t].fn \in {"rw", "connect"} /\ hook[t].f \in Calls[t] \cup Connects[t]
        /\ hook[t].f \in Fd
        /\ place[t] = "running" /\ UNCHANGED <<place, sleepers>>
    <3>1. hook[t].fn \in {"rw", "connect"} /\ place[t] = "running" /\ UNCHANGED <<place, sleepers>>
      BY <1>7, Zenon DEF SetNonblock, CallCompletes, AfterWait, At, iovars
    <3>2. QED
      BY <1>1, <3>1, HookAssumption, ZenonT(60) DEF HookShape, KnowsFd
  <2>2. PICK a \in {"call", "again", "restore", "unset"} : Goto(t, a)
    BY <1>7, ZenonT(60) DEF SetNonblock, CallCompletes, AfterWait
  <2>3. /\ hook' \in [Task -> HookState] /\ \A u \in Task \ {t} : hook'[u] = hook[u]
        /\ hook'[t].at = a /\ hook'[t].fn = hook[t].fn /\ hook'[t].f = hook[t].f
    BY <1>1, <2>2, HookRecords, ZenonT(60)
  <2>4. Clears(t, DescOf[hook[t].f])'
    BY <2>1, <2>3, Zenon DEF Clears
  <2>5. nonblock' \in [Desc -> BOOLEAN] /\ \A d \in Desc : nonblock'[d] => nonblock[d] \/ d = DescOf[hook[t].f]
    BY <1>1, <1>7, ZenonT(60) DEF SetNonblock, CallCompletes, AfterWait
  <2>6. \A d \in Desc : Clears(t, d) => d = DescOf[hook[t].f]
    BY ZenonT(60) DEF Clears
  <2>7. \A d \in Desc : nonblock'[d] => Clears(t, d)' \/ (nonblock[d] /\ ~Clears(t, d))
    BY <2>1, <2>3, <2>5, ZenonT(60) DEF Clears
  <2>8. KnowsFd(t)'
    BY <2>1, <2>3, SMTT(60) DEF KnowsFd
  <2>9. \A u \in sleepers' : place'[u] = "asleep" /\ hook'[u].at = "timer"
    BY <1>5, <2>1, <2>3, ZenonT(60)
  <2>10. QED
    BY <1>1, <1>4, <2>1, <2>3, <2>5, <2>7, <2>8, <2>9, ZenonT(60)
<1>8. ASSUME NEW t \in Task, NEW b \in BOOLEAN, CallWaits(t, b)
      PROVE  HookTypeOK' /\ HookShape' /\ FlagRestored'
  <2>1. /\ hook[t].fn \in {"rw", "connect"} /\ place[t] = "running"
        /\ Goto(t, "wait") /\ CoSwitch(t, <<hook[t].f>>, b) /\ UNCHANGED <<nonblock, sleepers>>
    BY <1>8, ZenonT(60) DEF CallWaits, At
  <2>2. /\ hook[t].f \in Calls[t] \cup Connects[t] /\ hook[t].f \in Fd
        /\ \A u \in Task \ {t} : place'[u] = place[u]
    BY <1>1, <2>1, HookAssumption, ZenonT(60) DEF HookShape, KnowsFd, CoSwitch
  <2>3. /\ hook' \in [Task -> HookState] /\ \A u \in Task \ {t} : hook'[u] = hook[u]
        /\ hook'[t].at = "wait" /\ hook'[t].fn = hook[t].fn /\ hook'[t].f = hook[t].f
    BY <1>1, <2>1, HookRecords, ZenonT(60)
  <2>4. \A d \in Desc : nonblock'[d] => Clears(t, d)' \/ (nonblock[d] /\ ~Clears(t, d))
    BY <2>1, <2>2, <2>3, ZenonT(60) DEF Clears
  <2>5. KnowsFd(t)'
    BY <2>1, <2>2, <2>3, ZenonT(60) DEF KnowsFd
  <2>6. \A u \in sleepers' : place'[u] = "asleep" /\ hook'[u].at = "timer"
    BY <1>5, <2>1, <2>2, <2>3
  <2>7. QED
    BY <1>1, <1>4, <2>1, <2>3, <2>4, <2>5, <2>6, ZenonT(60)
<1>9. ASSUME NEW t \in Task, Restore(t)
      PROVE  HookTypeOK' /\ HookShape' /\ FlagRestored'
  <2>1. /\ hook[t].fn \in {"rw", "connect"} /\ place[t] = "running"
        /\ UNCHANGED <<place, sleepers>> /\ (Return(t) \/ Goto(t, "block"))
        /\ nonblock' = [nonblock EXCEPT ![DescOf[hook[t].f]] = FALSE]
    BY <1>9, ZenonT(60) DEF Restore, At, iovars
  <2>2. hook[t].f \in Calls[t] \cup Connects[t]
    BY <1>1, <2>1, ZenonT(60) DEF HookShape, KnowsFd
  <2>3. /\ hook' \in [Task -> HookState] /\ \A u \in Task \ {t} : hook'[u] = hook[u]
        /\ \/ hook'[t].fn = "none" /\ hook'[t].f = NULL
           \/ hook'[t].fn = hook[t].fn /\ hook'[t].f = hook[t].f
    BY <1>1, <2>1, HookRecords, ZenonT(60)
  <2>4. nonblock' \in [Desc -> BOOLEAN] /\ ~nonblock'[DescOf[hook[t].f]]
        /\ \A d \in Desc : nonblock'[d] => nonblock[d]
    BY <1>1, <2>1, <2>2, HookAssumption, ZenonT(60) DEF Desc
  <2>5. \A d \in Desc : nonblock'[d] => nonblock[d] /\ ~Clears(t, d)
    BY <2>4, ZenonT(60) DEF Clears
  <2>6. KnowsFd(t)'
    BY <2>1, <2>2, <2>3, ZenonT(60) DEF KnowsFd
  <2>7. \A u \in sleepers' : place'[u] = "asleep" /\ hook'[u].at = "timer"
    BY <1>5, <2>1, <2>3, SMTT(60)
  <2>8. QED
    BY <1>1, <1>4, <2>1, <2>3, <2>4, <2>5, <2>6, <2>7, ZenonT(60)
<1>10. ASSUME NEW t \in Task, BlockingCall(t)
       PROVE  HookTypeOK' /\ HookShape' /\ FlagRestored'
  <2>1. /\ hook[t].at = "block" /\ place[t] = "running" /\ Return(t)
        /\ UNCHANGED <<place, nonblock, sleepers>>
    BY <1>10, SMTT(60) DEF BlockingCall, At, iovars
  <2>2. /\ hook' \in [Task -> HookState] /\ \A u \in Task \ {t} : hook'[u] = hook[u]
        /\ hook'[t].fn = "none" /\ hook'[t].f = NULL
    BY <1>1, <2>1, HookRecords, ZenonT(60)
  <2>3. \A d \in Desc : ~Clears(t, d)
    BY <2>1, ZenonT(60) DEF Clears
  <2>4. KnowsFd(t)' /\ \A d \in Desc : nonblock'[d] => nonblock[d]
    BY <2>1, <2>2, SMTT(60) DEF KnowsFd
  <2>5. \A u \in sleepers' : place'[u] = "asleep" /\ hook'[u].at = "timer"
    BY <1>5, <2>1, <2>2, SMTT(60)
  <2>6. QED
    BY <1>1, <1>4, <2>1, <2>2, <2>3, <2>4, <2>5, ZenonT(60)
\* poll, select and sleep have no descriptor of their own.
<1>11. ASSUME NEW t \in Task, hook[t].fn \notin {"rw", "connect"}
       PROVE  hook[t].f = NULL /\ \A d \in Desc : ~Clears(t, d)
  BY <1>1, <1>11, IoWaitAssumption, SMTT(60) DEF HookShape, KnowsFd, Clears
<1>12. ASSUME NEW t \in Task, NEW fds \in Waits[t], NEW b \in BOOLEAN,
              Poll(t, fds, b) \/ Select(t, fds, b)
       PROVE  HookTypeOK' /\ HookShape' /\ FlagRestored'
  <2>1. PICK fn \in {"poll", "select"} : WaitForMany(t, fn, fds, b)
    BY <1>12, Zenon DEF Poll, Select
  <2> DEFINE h == [NoHook EXCEPT !.fn = fn, !.at = "wait"]
  <2>2. /\ hook[t].fn = "none" /\ place[t] = "running" /\ CoSwitch(t, fds, b)
        /\ hook' = [hook EXCEPT ![t] = h]
        /\ UNCHANGED <<nonblock, sleepers>>
    BY <2>1, Zenon DEF WaitForMany, At
  <2>3. h \in HookState /\ h.fn = fn /\ h.f = NULL
    <3>1. NoHook \in HookState /\ NoHook.f = NULL
      BY Zenon DEF NoHook, HookState
    <3>2. QED
      BY <3>1, ZenonT(60) DEF HookState
  <2>4. /\ hook' \in [Task -> HookState] /\ \A u \in Task \ {t} : hook'[u] = hook[u]
        /\ hook'[t].fn = fn /\ hook'[t].f = NULL
    BY <1>1, <2>2, <2>3, Zenon
  <2>5. \A u \in Task \ {t} : place'[u] = place[u]
    BY <1>1, <2>2, Zenon DEF CoSwitch
  <2>6. KnowsFd(t)' /\ \A d \in Desc : ~Clears(t, d) /\ (nonblock'[d] => nonblock[d])
    BY <1>11, <2>2, <2>4, Zenon DEF KnowsFd
  <2>7. \A u \in sleepers' : place'[u] = "asleep" /\ hook'[u].at = "timer"
    BY <1>5, <2>2, <2>4, <2>5, ZenonT(60)
  <2>8. QED
    BY <1>1, <1>4, <2>2, <2>4, <2>6, <2>7, ZenonT(60)
<1>13. ASSUME NEW t \in Task, NEW fn \in {"poll", "select", "sleep"}, SleepSwitch(t, fn),
              place[t] = "running", hook[t].fn \notin {"rw", "connect"}
       PROVE  HookTypeOK' /\ HookShape' /\ FlagRestored'
  <2>1. /\ hook' \in [Task -> HookState] /\ \A u \in Task \ {t} : hook'[u] = hook[u]
        /\ hook'[t].at = "sleep" /\ hook'[t].fn = fn /\ hook'[t].f = hook[t].f
    BY <1>1, <1>13, HookRecords, Zenon
  <2>2. /\ \A u \in Task \ {t} : place'[u] = place[u]
        /\ UNCHANGED <<nonblock, sleepers>>
    BY <1>1, <1>13, ZenonT(60) DEF SleepSwitch, notsleep
  <2>3. KnowsFd(t)' /\ \A d \in Desc : ~Clears(t, d) /\ (nonblock'[d] => nonblock[d])
    BY <1>11, <1>13, <2>1, <2>2, ZenonT(60) DEF KnowsFd
  <2>4. \A u \in sleepers' : place'[u] = "asleep" /\ hook'[u].at = "timer"
    BY <1>5, <1>13, <2>1, <2>2, SMTT(60)
  <2>5. QED
    BY <1>1, <1>4, <2>1, <2>2, <2>3, <2>4, ZenonT(60)
<1>14. ASSUME NEW t \in Task, AfterPoll(t) \/ AfterSelect(t) \/ Sleep(t)
       PROVE  HookTypeOK' /\ HookShape' /\ FlagRestored'
  <2>1. /\ place[t] = "running" /\ hook[t].fn \in {"none", "poll", "select"}
        /\ \/ Sleep(t) /\ SleepSwitch(t, "sleep")
           \/ hook[t].fn \in {"poll", "select"} /\ SleepSwitch(t, hook[t].fn)
           \/ Return(t) /\ UNCHANGED <<iovars, nonblock, sleepers>>
    BY <1>14, SMTT(60) DEF AfterPoll, AfterSelect, Sleep, SleepIfRefused, At
  <2>2. CASE Return(t) /\ UNCHANGED <<iovars, nonblock, sleepers>>
    <3>1. /\ hook' \in [Task -> HookState] /\ \A u \in Task \ {t} : hook'[u] = hook[u]
          /\ hook'[t].fn = "none" /\ hook'[t].f = NULL
      BY <1>1, <2>2, HookRecords, SMTT(60)
    <3>2. UNCHANGED <<place, nonblock, sleepers>>
      BY <2>2, SMTT(60) DEF iovars
    <3>3. KnowsFd(t)' /\ \A d \in Desc : ~Clears(t, d) /\ (nonblock'[d] => nonblock[d])
      BY <1>11, <2>1, <3>1, <3>2, ZenonT(60) DEF KnowsFd
    <3>4. \A u \in sleepers' : place'[u] = "asleep" /\ hook'[u].at = "timer"
      BY <1>5, <2>1, <3>1, <3>2, SMTT(60)
    <3>5. QED
      BY <1>1, <1>4, <3>1, <3>2, <3>3, <3>4, ZenonT(60)
  <2>3. QED
    BY <1>13, <2>1, <2>2, ZenonT(60)
<1>15. ASSUME NEW t \in Task, SleepEnter(t)
       PROVE  HookTypeOK' /\ HookShape' /\ FlagRestored'
  <2>1. /\ place[t] = "asleep" /\ hook[t].at = "sleep" /\ Goto(t, "timer")
        /\ sleepers' = sleepers \cup {t} /\ UNCHANGED <<place, nonblock>>
    BY <1>15, ZenonT(60) DEF SleepEnter, notsleep
  <2>2. /\ hook' \in [Task -> HookState] /\ \A u \in Task \ {t} : hook'[u] = hook[u]
        /\ hook'[t].at = "timer" /\ hook'[t].fn = hook[t].fn /\ hook'[t].f = hook[t].f
    BY <1>1, <2>1, HookRecords, Zenon
  <2>3. \A d \in Desc : ~Clears(t, d)
    BY <2>1, ZenonT(60) DEF Clears
  <2>4. KnowsFd(t)' /\ \A d \in Desc : nonblock'[d] => nonblock[d]
    BY <1>1, <2>1, <2>2, SMTT(60) DEF HookShape, KnowsFd
  <2>5. \A u \in sleepers' : place'[u] = "asleep" /\ hook'[u].at = "timer"
    BY <1>1, <2>1, <2>2, Zenon
  <2>6. QED
    BY <1>1, <1>4, <2>1, <2>2, <2>3, <2>4, <2>5, ZenonT(60)
<1>16. ASSUME NEW t \in Task, SleepWakeup(t)
       PROVE  HookTypeOK' /\ HookShape' /\ FlagRestored'
  <2>1. /\ hook[t].at = "timer" /\ Return(t)
        /\ sleepers' = sleepers \ {t} /\ place' = [place EXCEPT ![t] = "running"]
        /\ UNCHANGED nonblock
    BY <1>1, <1>16, ZenonT(60) DEF SleepWakeup, notsleep
  <2>2. /\ hook' \in [Task -> HookState] /\ \A u \in Task \ {t} : hook'[u] = hook[u]
        /\ hook'[t].fn = "none" /\ hook'[t].f = NULL
    BY <1>1, <2>1, HookRecords, ZenonT(60)
  <2>3. \A d \in Desc : ~Clears(t, d)
    BY <2>1, Zenon DEF Clears
  <2>4. \A u \in sleepers' : place'[u] = "asleep" /\ hook'[u].at = "timer"
    BY <1>1, <2>1, <2>2, ZenonT(60)
  <2>5. KnowsFd(t)' /\ \A d \in Desc : nonblock'[d] => nonblock[d]
    BY <2>1, <2>2, ZenonT(60) DEF KnowsFd
  <2>6. QED
    BY <1>1, <1>4, <2>1, <2>2, <2>3, <2>4, <2>5, ZenonT(60)
<1>17. ASSUME UNCHANGED hookvars, \A u \in sleepers : place'[u] = "asleep"
       PROVE  HookTypeOK' /\ HookShape' /\ FlagRestored'
  BY <1>1, <1>17 DEF hookvars, HookTypeOK, HookShape, KnowsFd, FlagRestored
<1>18. ASSUME NEW t \in Task, Finish(t) \/ Resume(t) \/ SchedulerSwitch(t) \/ Expire(t),
              UNCHANGED hookvars
       PROVE  HookTypeOK' /\ HookShape' /\ FlagRestored'
  BY <1>1, <1>17, <1>18, AsleepStays, Zenon
<1>19. CASE WaitLoop /\ UNCHANGED hookvars
  BY <1>1, <1>17, <1>19, AsleepStays, ZenonT(60)
<1>20. ASSUME NEW t \in Task, \/ \E f \in Calls[t] : ReadCall(t, f) \/ WriteCall(t, f)
                              \/ \E f \in Connects[t] : Connect(t, f)
       PROVE  HookTypeOK' /\ HookShape' /\ FlagRestored'
  BY <1>6, <1>20, ZenonT(60) DEF ReadCall, WriteCall, Connect
<1>21. QED
  BY <1>3, <1>7, <1>8, <1>9, <1>10, <1>12, <1>14, <1>15, <1>16, <1>18, <1>19, <1>20, ZenonT(60)
     DEF HookNext, Continue

\* The invariant of the blocking flags holds at the start, with no hooked call under way.
LEMMA InitFlagInv == HookInit => FlagInv
<1> SUFFICES ASSUME HookInit PROVE FlagInv
  BY Zenon
<1>1. IoTypeOK /\ HookTypeOK
  BY InitTypes, ZenonT(60)
<1>2. /\ NoLoop.at = "none" /\ NoSwitch.at = "none"
      /\ NoHook.fn = "none" /\ NoHook.f = NULL
  BY Zenon DEF NoLoop, NoSwitch, NoHook
<1>3. /\ wl = NoLoop /\ wait_tasks_ = {} /\ sleepers = {}
      /\ \A t \in Task : sw[t] = NoSwitch /\ hook[t] = NoHook
      /\ \A d \in Desc : ~nonblock[d]
  BY SMTT(60) DEF HookInit, IoInit
<1>4. QED
  BY <1>1, <1>2, <1>3, Zenon DEF FlagInv, WokenInv, WokenOnce, NotYetKnown, HookShape,
     KnowsFd, FlagRestored

\* A step of Hook, a stuttering one included, is an IoStep.
LEMMA SpecStep == FlagInv /\ [HookNext]_hvars => IoStep
BY HookStep, Zenon DEF hvars, IoStep

\* The hooks leave a socket as the user made it: whenever O_NONBLOCK is set,
\* some coroutine is in read_write_mode or connect on that socket and still has
\* to clear it, for any number of coroutines and any sharing of sockets.
THEOREM FlagIsRestored == HookSpec => []FlagRestored
<1>1. HookInit => FlagInv
  BY InitFlagInv, Zenon
<1>2. FlagInv /\ [HookNext]_hvars => FlagInv'
  BY StepFlagInv, Zenon
<1>3. FlagInv => FlagRestored
  BY Zenon DEF FlagInv
<1>4. QED
  BY <1>1, <1>2, <1>3, PTL DEF HookSpec

\* SchedulerSwitch, which gives up a wait, and IoWait::Cancel, which ends one,
\* never both make a coroutine runnable: who finds it in wait_tasks_ finds it
\* blocked, and no third party holds it.
THEOREM WaitEndsOnce == HookSpec => []WokenOnce
<1>1. HookInit => FlagInv
  BY InitFlagInv, Zenon
<1>2. FlagInv /\ [HookNext]_hvars => FlagInv'
  BY StepFlagInv, Zenon
<1>3. FlagInv => WokenOnce
  BY ZenonT(60) DEF FlagInv, WokenInv
<1>4. QED
  BY <1>1, <1>2, <1>3, PTL DEF HookSpec

-----------------------------------------------------------------------------
(* The account of the epolls *)

Live == {"set", "expired", "firing"}

\* Nobody else uses the descriptors of a wait on several.
Unshared ==
  \A t, u \in Task : \A q \in Lists(t), r \in Lists(u) :
    Len(q) > 1 /\ (\E f \in Fd : In(q, f) /\ In(r, f)) => t = u

\* No element occurs twice in q.
Once(q) == \A i, j \in 1..Len(q) : q[i] = q[j] => i = j

\* No wait names a descriptor twice.
Distinct == \A t \in Task : \A q \in Waits[t] : Once(q)

\* The waits WaitLoop has events of, and the one it is cancelling.
Notified == {e.st : e \in wl.evs} \cup wl.tasks

Known == Notified \cup (IF wl.at \in {"erase", "clear"} THEN {wl.cur} ELSE {})

\* SchedulerSwitch has registered a descriptor for the current wait of t, and
\* does not give up.
Begun(t) ==
  /\ sw[t].at \notin {"lock", "rollback"}
  /\ sw[t].at = "add" => sw[t].added # <<>>

\* Where WaitLoop is tells what it still has to do.
LoopShape ==
  /\ wl.at \in {"none", "erase", "clear", "timeouts", "fired"} => wl.evs = {}
  /\ wl.at \in {"none", "timeouts", "fired"} => wl.tasks = {}
  /\ wl.at \in {"erase", "clear"} =>
       wl.cur \in wl.tasks \/ (wl.tasks = {} /\ timer[wl.cur.tk].at = "firing")
  /\ wl.at = "fired" => timer[wl.cur.tk].at = "firing"

\* The waits WaitLoop knows are the current ones.
KnownBegun == \A s \in Known : s.id = io_block_id_[s.tk] /\ Begun(s.tk)

\* They go on until Cancel ends them.
KnownWaits ==
  \A s \in Notified : s.tk \in wait_tasks_ \/ (wl.at = "clear" /\ wl.cur = s)

\* The timer is one of the current wait, set at the end of SchedulerSwitch.
TimerShape ==
  \A t \in Task :
    /\ timer[t].at # "none" => timer[t].id = io_block_id_[t] /\ sw[t].at = "none"
    /\ timer[t].at \in Live => place[t] \in {"blocked", "runnable"}

\* The progress of SchedulerSwitch.  Who takes the coroutine from wait_tasks_
\* while descriptors are being added has all of them still to clear, and
\* EEXIST comes before the first descriptor is added, or not at all.
SwitchOK(t) ==
  /\ place[t] \in {"blocked", "runnable"}
  /\ Len(sw[t].added) + Len(sw[t].rest) <= Len(wait_fds_[t])
  /\ \A f \in Fd : In(sw[t].added, f) \/ In(sw[t].rest, f) => In(wait_fds_[t], f)
  /\ \A f \in Fd : ~(In(sw[t].added, f) /\ In(sw[t].rest, f))
  /\ Once(sw[t].rest)
  /\ sw[t].at \in {"lock", "rollback"} => sw[t].added = <<>>
  /\ sw[t].at = "add" /\ t \notin wait_tasks_ =>
       /\ sw[t].added # <<>>
       /\ Locked(t) => wl.at = "clear" /\ wl.cur.tk = t /\ wl.left = wait_fds_[t]
  /\ sw[t].at = "rollback" => t \in wait_tasks_

SwitchShape == \A t \in Task : sw[t].at # "none" => SwitchOK(t)

\* A registered descriptor belongs to the current wait of a coroutine that is
\* in wait_tasks_, or that Cancel is about to clear.
RegisteredOK(f, t) ==
  /\ epoll[f].id = io_block_id_[t]
  /\ In(wait_fds_[t], f)
  /\ t \in wait_tasks_ \/ (wl.at = "clear" /\ wl.cur.tk = t /\ In(wl.left, f))
  /\ sw[t].at \in {"add", "rollback"} => In(sw[t].added, f)

RegisteredShape ==
  \A f \in Fd : epoll[f] # NULL => RegisteredOK(f, epoll[f].tk)

EpollInv ==
  LoopShape /\ KnownBegun /\ KnownWaits /\ TimerShape /\ SwitchShape /\ RegisteredShape

\* f is registered for t.
Has(t, f) == epoll[f] # NULL /\ epoll[f].tk = t

-----------------------------------------------------------------------------
(* EpollInv is kept *)

\* What comes after the head of a list without repetitions.
LEMMA OnceTail ==
  ASSUME NEW S, NEW q \in Seq(S), q # <<>>, Once(q)
  PROVE  Once(Tail(q)) /\ ~In(Tail(q), Head(q))
<1>1. /\ Len(q) \in Nat \ {0} /\ Head(q) = q[1] /\ Len(Tail(q)) = Len(q) - 1
      /\ \A i \in 1..Len(Tail(q)) : Tail(q)[i] = q[i + 1]
  OBVIOUS
<1>2. ASSUME NEW i \in 1..Len(Tail(q)), NEW j \in 1..Len(Tail(q)), Tail(q)[i] = Tail(q)[j]
      PROVE  i = j
  <2>1. i + 1 \in 1..Len(q) /\ j + 1 \in 1..Len(q) /\ q[i + 1] = q[j + 1]
    BY <1>1, <1>2
  <2>2. i + 1 = j + 1
    BY <2>1, Zenon DEF Once
  <2>3. QED
    BY <2>2
<1>3. ASSUME NEW i \in 1..Len(Tail(q)), Tail(q)[i] = Head(q)
      PROVE  FALSE
  <2>1. i + 1 \in 1..Len(q) /\ 1 \in 1..Len(q) /\ q[i + 1] = q[1] /\ i + 1 # 1
    BY <1>1, <1>3
  <2>2. QED
    BY <2>1, Zenon DEF Once
<1>4. QED
  BY <1>2, <1>3, Zenon DEF Once, In

\* No list of a hooked call names a descriptor twice.
LEMMA ListsOnce == Distinct => \A t \in Task : \A q \in Lists(t) : Once(q)
<1>1. \A f : Once(<<f>>)
  BY DEF Once
<1>2. QED
  BY <1>1, Zenon DEF Distinct, Lists

\* Nothing is registered with epoll at the start.
LEMMA InitEpollInv == HookInit => EpollInv
<1> SUFFICES ASSUME HookInit PROVE EpollInv
  BY Zenon
<1>1. /\ NoLoop.at = "none" /\ NoLoop.evs = {} /\ NoLoop.tasks = {}
      /\ NoSwitch.at = "none" /\ NoTimer.at = "none"
  BY Zenon DEF NoLoop, NoSwitch, NoTimer
<1>2. /\ wl = NoLoop
      /\ \A t \in Task : sw[t] = NoSwitch /\ timer[t] = NoTimer
      /\ \A f \in Fd : epoll[f] = NULL
  BY Zenon DEF HookInit, IoInit
<1>3. Known = {}
  BY <1>1, <1>2, ZenonT(60) DEF Known, Notified
<1>4. KnownBegun /\ KnownWaits
  BY <1>3, Zenon DEF KnownBegun, KnownWaits, Known
<1>5. QED
  BY <1>1, <1>2, <1>4, ZenonT(60)
     DEF EpollInv, LoopShape, TimerShape, SwitchShape, RegisteredShape, Live

\* The steps of a coroutine and of its timer.
LEMMA TaskEpollInv ==
  ASSUME Distinct, WokenInv, EpollInv, IoTypeOK', NEW t \in Task,
         \/ \E fds \in Lists(t), b \in BOOLEAN : CoSwitch(t, fds, b)
         \/ Resume(t) \/ Finish(t) \/ Expire(t)
         \/ /\ UNCHANGED <<epoll, wait_tasks_, waitvars, evvars, timer, refvars, deleted, sw, wl>>
            /\ \/ place[t] = "running" /\ place' = [place EXCEPT ![t] = "asleep"]
               \/ place[t] = "asleep" /\ place' = [place EXCEPT ![t] = "running"]
  PROVE  EpollInv'
<1>1. /\ place \in [Task -> {"running", "blocked", "runnable", "done", "asleep"}]
      /\ sw \in [Task -> SwitchState] /\ wait_tasks_ \subseteq Task
      /\ wl \in LoopState /\ (wl.at \in {"erase", "clear", "fired"} => wl.cur.tk \in Task)
      /\ io_block_id_ \in [Task -> Nat] /\ wait_fds_ \in [Task -> Seq(Fd)]
      /\ timer \in [Task -> TimerState] /\ WokenOnce
      /\ epoll \in [Fd -> WaitId \cup {NULL}]
  BY ZenonT(60) DEF WokenInv, IoTypeOK, WaitId
<1>2. Known \subseteq WaitId
  BY DEF WokenInv, IoTypeOK, Known, Notified, LoopState
<1>3. ASSUME NEW fds \in Lists(t), NEW b \in BOOLEAN, CoSwitch(t, fds, b)
      PROVE  EpollInv'
  <2>1. /\ place[t] = "running" /\ place' = [place EXCEPT ![t] = "blocked"]
        /\ io_block_id_' = [io_block_id_ EXCEPT ![t] = @ + 1]
        /\ wait_fds_' = [wait_fds_ EXCEPT ![t] = fds]
        /\ timer' = [timer EXCEPT ![t] = NoTimer]
        /\ sw' = [sw EXCEPT ![t] = [at |-> "lock", rest |-> fds, added |-> <<>>]]
        /\ UNCHANGED <<epoll, wait_tasks_, wl>>
    BY <1>3, Zenon DEF CoSwitch
  <2>2. /\ t \notin wait_tasks_ /\ ~(wl.at \in {"erase", "clear", "fired"} /\ wl.cur.tk = t)
        /\ \A s \in Known : s.tk # t
    <3>1. t \notin wait_tasks_ /\ ~(wl.at = "clear" /\ wl.cur.tk = t)
      BY <1>1, <2>1, ZenonT(60) DEF WokenOnce
    <3>2. \A s \in Notified : s.tk # t
      BY <3>1, ZenonT(60) DEF EpollInv, KnownWaits
    <3>3. timer[t].at # "firing"
      BY <1>1, <2>1, ZenonT(60) DEF EpollInv, TimerShape, Live
    <3>4. ~(wl.at \in {"erase", "fired"} /\ wl.cur.tk = t)
      BY <3>2, <3>3, ZenonT(60) DEF EpollInv, LoopShape, Notified
    <3>5. QED
      BY <3>1, <3>2, <3>4, ZenonT(60) DEF Known
  <2>3. /\ \A u \in Task \ {t} : /\ io_block_id_'[u] = io_block_id_[u] /\ place'[u] = place[u]
                                 /\ wait_fds_'[u] = wait_fds_[u] /\ timer'[u] = timer[u]
                                 /\ sw'[u] = sw[u]
        /\ io_block_id_'[t] = io_block_id_[t] + 1 /\ io_block_id_[t] \in Nat
        /\ place'[t] = "blocked" /\ wait_fds_'[t] = fds /\ fds \in Seq(Fd)
        /\ timer'[t].at = "none" /\ sw'[t].at = "lock"
        /\ sw'[t].rest = fds /\ sw'[t].added = <<>> /\ Len(<<>>) = 0
    BY <1>1, <2>1, ListsTyped, ZenonT(60) DEF NoTimer
  <2>4. LoopShape'
    BY <1>1, <2>1, <2>2, <2>3, ZenonT(60) DEF EpollInv, LoopShape
  <2>5. KnownBegun' /\ KnownWaits'
    <3>1. Known' = Known /\ Notified' = Notified
      BY <2>1, ZenonT(60) DEF Known, Notified
    <3>2. ASSUME NEW s \in Known
          PROVE  s.id = io_block_id_'[s.tk] /\ Begun(s.tk)'
      <4>1. s.tk \in Task /\ s.tk # t
        BY <1>2, <2>2, Zenon DEF WaitId
      <4>2. QED
        BY <2>3, <4>1, ZenonT(60) DEF EpollInv, KnownBegun, Begun
    <3>3. QED
      BY <2>1, <3>1, <3>2, ZenonT(60) DEF KnownBegun, EpollInv, KnownWaits
  <2>6. TimerShape'
    BY <2>3, ZenonT(60) DEF EpollInv, TimerShape, Live
  <2>7. SwitchShape'
    <3>1. ASSUME NEW u \in Task, u # t, sw'[u].at # "none"
          PROVE  SwitchOK(u)'
      <4>1. SwitchOK(u) /\ sw'[u] = sw[u] /\ place'[u] = place[u] /\ wait_fds_'[u] = wait_fds_[u]
        BY <2>3, <3>1, ZenonT(60) DEF EpollInv, SwitchShape
      <4>2. QED
        BY <2>1, <4>1, ZenonT(60) DEF SwitchOK, Locked
    <3>2. SwitchOK(t)'
      <4>1. sw'[t].at # "rollback" /\ sw'[t].at # "add"
        BY <2>3, Zenon
      <4>2. \A f \in Fd : In(sw'[t].added, f) \/ In(sw'[t].rest, f) => In(wait_fds_'[t], f)
        BY <2>3, InEmpty, Zenon
      <4>3. Len(fds) \in Nat
        BY <2>3
      <4>4. Len(sw'[t].added) + Len(sw'[t].rest) <= Len(wait_fds_'[t])
        <5>1. 0 + Len(fds) <= Len(fds)
          BY <4>3
        <5>2. QED
          BY <2>3, <5>1, Zenon
      <4>5. Once(sw'[t].rest) /\ \A f \in Fd : ~(In(sw'[t].added, f) /\ In(sw'[t].rest, f))
        BY <2>3, InEmpty, ListsOnce, Zenon
      <4>6. QED
        BY <2>3, <4>1, <4>2, <4>4, <4>5, ZenonT(60) DEF SwitchOK
    <3>3. QED
      BY <3>1, <3>2, Zenon DEF SwitchShape
  <2>8. RegisteredShape'
    BY <1>1, <2>1, <2>2, <2>3, SMTT(60) DEF EpollInv, RegisteredShape, RegisteredOK, WaitId
  <2>9. QED
    BY <2>4, <2>5, <2>6, <2>7, <2>8, ZenonT(60) DEF EpollInv
<1>4. ASSUME UNCHANGED <<epoll, wait_tasks_, io_block_id_, wait_fds_, sw, wl>>,
             \A u \in Task : \/ place'[u] = place[u]
                             \/ /\ place[u] \notin {"blocked", "runnable"}
                                /\ place'[u] \notin {"blocked", "runnable"}
                             \/ /\ place[u] = "runnable" /\ sw[u].at = "none"
                                /\ timer[u].at # "firing" /\ timer'[u].at \notin Live,
             \A u \in Task : \/ timer'[u] = timer[u]
                             \/ /\ timer[u].at \in {"set", "expired"}
                                /\ timer'[u].at \in {"expired", "cancelled"}
                                /\ timer'[u].id = timer[u].id
                                /\ timer'[u].at \in Live => place'[u] = place[u]
      PROVE  EpollInv'
  <2>1. LoopShape'
    BY <1>1, <1>4, ZenonT(60) DEF EpollInv, LoopShape
  <2>2. KnownBegun' /\ KnownWaits'
    BY <1>4, ZenonT(60) DEF EpollInv, KnownBegun, KnownWaits, Known, Notified, Begun
  <2>3. TimerShape'
    BY <1>4, SMTT(60) DEF EpollInv, TimerShape, Live
  <2>4. SwitchShape'
    BY <1>4, ZenonT(60) DEF EpollInv, SwitchShape, SwitchOK, Locked
  <2>5. RegisteredShape'
    BY <1>4, ZenonT(60) DEF EpollInv, RegisteredShape, RegisteredOK
  <2>6. QED
    BY <2>1, <2>2, <2>3, <2>4, <2>5, Zenon DEF EpollInv
<1>5. ASSUME Resume(t) \/ Expire(t)
      PROVE  EpollInv'
  <2>1. ASSUME NEW a \in {"cancelled", "expired"}, timer' = [timer EXCEPT ![t].at = a]
        PROVE  timer'[t].at = a /\ timer'[t].id = timer[t].id
    <3>1. timer[t] \in TimerState /\ timer'[t] = [timer[t] EXCEPT !.at = a]
      BY <1>1, <2>1, Zenon
    <3>2. QED
      BY <3>1, Zenon DEF TimerState
  <2>2. /\ \A u \in Task \ {t} : timer'[u] = timer[u] /\ place'[u] = place[u]
        /\ UNCHANGED <<epoll, wait_tasks_, io_block_id_, wait_fds_, sw, wl>>
    BY <1>1, <1>5, ZenonT(60) DEF Resume, Expire, waitvars
  <2>3. CASE Resume(t)
    <3>1. /\ place[t] = "runnable" /\ sw[t].at = "none" /\ timer[t].at # "firing"
          /\ place'[t] = "running"
      BY <1>1, <2>3, Zenon DEF Resume
    <3>2. CASE timer[t].at \in {"set", "expired"}
      BY <1>4, <2>1, <2>2, <2>3, <3>1, <3>2, ZenonT(60) DEF Resume, Live
    <3>3. CASE timer[t].at \notin {"set", "expired"}
      BY <1>4, <2>2, <2>3, <3>1, <3>3, Zenon DEF Resume, Live
    <3>4. QED
      BY <3>2, <3>3, Zenon
  <2>4. CASE Expire(t)
    BY <1>4, <2>1, <2>2, <2>4, ZenonT(60) DEF Expire, Live
  <2>5. QED
    BY <1>5, <2>3, <2>4, Zenon
<1>6. ASSUME \/ Finish(t)
             \/ /\ UNCHANGED <<epoll, wait_tasks_, waitvars, evvars, timer, refvars, deleted, sw, wl>>
                /\ \/ place[t] = "running" /\ place' = [place EXCEPT ![t] = "asleep"]
                   \/ place[t] = "asleep" /\ place' = [place EXCEPT ![t] = "running"]
      PROVE  EpollInv'
  <2>1. /\ UNCHANGED <<epoll, wait_tasks_, io_block_id_, wait_fds_, sw, wl, timer>>
        /\ \A u \in Task : \/ place'[u] = place[u]
                           \/ /\ place[u] \notin {"blocked", "runnable"}
                              /\ place'[u] \notin {"blocked", "runnable"}
    BY <1>1, <1>6, Zenon DEF Finish, waitvars
  <2>2. QED
    BY <1>4, <2>1, ZenonT(60)
<1>7. QED
  BY <1>3, <1>5, <1>6, Zenon

\* The steps of SchedulerSwitch.
LEMMA SwitchEpollInv ==
  ASSUME Unshared, WokenInv, EpollInv, NEW t \in Task, SchedulerSwitch(t)
  PROVE  EpollInv'
<1>1. /\ IoTypeOK /\ WokenOnce /\ NotYetKnown
      /\ sw \in [Task -> SwitchState] /\ wait_tasks_ \subseteq Task
      /\ io_block_id_ \in [Task -> Nat] /\ wait_fds_ \in [Task -> Seq(Fd)]
      /\ epoll \in [Fd -> WaitId \cup {NULL}] /\ timer \in [Task -> TimerState]
      /\ place \in [Task -> {"running", "blocked", "runnable", "done", "asleep"}]
      /\ wl.at \in {"erase", "clear", "fired"} => wl.cur.tk \in Task
  BY ZenonT(60) DEF WokenInv, IoTypeOK, WaitId
<1>2. /\ UNCHANGED <<io_block_id_, wait_fds_, wl>> /\ Known' = Known /\ Notified' = Notified
      /\ \A u \in Task \ {t} : /\ sw'[u] = sw[u] /\ timer'[u] = timer[u] /\ place'[u] = place[u]
                               /\ u \in wait_tasks_' <=> u \in wait_tasks_
      /\ place'[t] = place[t] \/ place'[t] = "runnable"
  BY <1>1, SwitchFields, ZenonT(60) DEF SchedulerSwitch, SwitchLock, SwitchAdd, SwitchAddFails,
     SwitchExists, SwitchRollback, SwitchFailed, SwitchDone, waitvars, Known,
     Notified
<1>3. /\ sw[t].at # "none" /\ SwitchOK(t) /\ timer[t].at = "none"
      /\ sw[t].rest \in Seq(Fd) /\ sw[t].added \in Seq(Fd) /\ wait_fds_[t] \in Seq(Fd)
  <2>1. sw[t].at # "none"
    BY SwitchFields, <1>1, ZenonT(60) DEF SchedulerSwitch
  <2>2. QED
    BY <1>1, <2>1, ZenonT(60) DEF EpollInv, SwitchShape, TimerShape, SwitchState
<1> DEFINE la == Len(sw[t].added)
           lr == Len(sw[t].rest)
           lw == Len(wait_fds_[t])
<1>4. /\ la \in Nat /\ lr \in Nat /\ lw \in Nat /\ la + lr <= lw
      /\ sw[t].rest # <<>> => lr > 0
      /\ sw[t].added # <<>> => la > 0
      /\ sw[t].added = <<>> => la = 0
  <2>1. \A q \in Seq(Fd) : Len(q) \in Nat /\ (q # <<>> <=> Len(q) > 0)
    BY SMTT(60)
  <2>2. QED
    BY <1>3, <2>1, ZenonT(60) DEF SwitchOK
<1> HIDE DEF la, lr, lw
<1>5. LoopShape'
  <2>1. wl.at \in {"erase", "clear", "fired"} /\ timer[wl.cur.tk].at = "firing"
          => timer'[wl.cur.tk].at = "firing"
    BY <1>1, <1>2, <1>3, ZenonT(60)
  <2>2. QED
    BY <1>2, <2>1, ZenonT(60) DEF EpollInv, LoopShape
<1>6. ASSUME \/ sw'[t].at = "none" /\ (sw[t].added = <<>> => \A f \in Fd : ~Has(t, f))
             \/ SwitchOK(t)',
             Begun(t) => Begun(t)' /\ (t \in wait_tasks_ => t \in wait_tasks_'),
             \/ timer'[t] = timer[t]
             \/ timer'[t].id = io_block_id_[t] /\ sw'[t].at = "none"
      PROVE  KnownBegun' /\ KnownWaits' /\ TimerShape' /\ SwitchShape'
  <2>1. KnownBegun' /\ KnownWaits'
    <3>1. \A u \in Task : Begun(u) => Begun(u)' /\ (u \in wait_tasks_ => u \in wait_tasks_')
      BY <1>2, <1>6, ZenonT(60) DEF Begun
    <3>2. Known \subseteq WaitId
      BY <1>1, SMTT(60) DEF IoTypeOK, Known, Notified, LoopState
    <3>3. \A s \in Known : s.tk \in Task /\ Begun(s.tk)
      BY <3>2, ZenonT(60) DEF EpollInv, KnownBegun, WaitId
    <3>4. KnownBegun'
      BY <1>2, <3>1, <3>3, ZenonT(60) DEF EpollInv, KnownBegun
    <3>5. QED
      BY <1>2, <3>1, <3>3, <3>4, ZenonT(60) DEF EpollInv, KnownWaits, Known
  <2>2. TimerShape'
    BY <1>2, <1>3, <1>6, ZenonT(60) DEF EpollInv, TimerShape, SwitchOK, Live
  <2>3. SwitchShape'
    <3>1. ASSUME NEW u \in Task, u # t, sw'[u].at # "none" PROVE SwitchOK(u)'
      <4>1. SwitchOK(u)
        BY <1>2, <3>1, Zenon DEF EpollInv, SwitchShape
      <4>2. QED
        BY <1>2, <3>1, <4>1, ZenonT(60) DEF SwitchOK, Locked
    <3>2. QED
      BY <1>6, <3>1, ZenonT(60) DEF SwitchShape
  <2>4. QED
    BY <2>1, <2>2, <2>3, SMTT(60)
<1>7. CASE SwitchLock(t)
  <2>1. /\ sw[t].at = "lock" /\ sw'[t].at = "add"
        /\ sw'[t].rest = sw[t].rest /\ sw'[t].added = sw[t].added
        /\ t \in wait_tasks_' /\ UNCHANGED <<epoll, timer, place>>
    BY <1>1, <1>7, SwitchFields, Zenon DEF SwitchLock
  <2>2. SwitchOK(t)'
    BY <1>2, <1>3, <2>1, ZenonT(60) DEF SwitchOK
  <2>3. KnownBegun' /\ KnownWaits' /\ TimerShape' /\ SwitchShape'
    BY <1>6, <2>1, <2>2, ZenonT(60) DEF Begun
  <2>4. RegisteredShape'
    <3>1. \A f \in Fd : ~Has(t, f)
      BY <1>1, <2>1, Zenon DEF EpollInv, RegisteredShape, RegisteredOK, NotYetKnown, Has
    <3>2. QED
      BY <1>1, <1>2, <2>1, <3>1, ZenonT(60) DEF EpollInv, RegisteredShape, RegisteredOK, Has,
         WaitId
  <2>5. QED
    BY <1>5, <2>3, <2>4, ZenonT(60) DEF EpollInv
<1>8. CASE SwitchAdd(t)
  <2>1. PICK f : f = Head(sw[t].rest)
    BY ZenonT(60)
  <2>2. /\ sw[t].at = "add" /\ sw'[t].at = "add" /\ sw[t].rest # <<>>
        /\ sw'[t].rest = Tail(sw[t].rest) /\ sw'[t].added = Append(sw[t].added, f)
        /\ epoll' = [epoll EXCEPT ![f] = Wait(t, io_block_id_[t])]
        /\ UNCHANGED <<wait_tasks_, timer, place>>
    BY <1>1, <1>8, <2>1, SwitchFields, ZenonT(60) DEF SwitchAdd
  <2>3. /\ f \in Fd /\ In(sw[t].rest, f) /\ In(wait_fds_[t], f)
        /\ sw'[t].added # <<>>
        /\ Len(sw'[t].added) + Len(sw'[t].rest) <= Len(wait_fds_[t])
        /\ \A g : In(sw'[t].added, g) <=> In(sw[t].added, g) \/ g = f
        /\ \A g : In(sw'[t].rest, g) => In(sw[t].rest, g)
        /\ Once(sw'[t].rest) /\ ~In(sw'[t].rest, f)
    <3>1. /\ f \in Fd /\ In(sw[t].rest, f) /\ Len(sw'[t].rest) = lr - 1
          /\ \A g : In(sw'[t].rest, g) => In(sw[t].rest, g)
      BY <1>3, <2>1, <2>2, InTail, ZenonT(60) DEF lr
    <3>2. /\ sw'[t].added # <<>> /\ Len(sw'[t].added) = la + 1
          /\ \A g : In(sw'[t].added, g) <=> In(sw[t].added, g) \/ g = f
      <4>1. sw'[t].added = Append(sw[t].added, f)
        BY <2>2, ZenonT(60)
      <4>2. sw[t].added \in Seq(Fd) /\ f \in Fd
        BY <1>3, <3>1, ZenonT(60)
      <4>3. QED
        BY <4>1, <4>2, InAppend DEF la
    <3>3. Len(sw'[t].added) + Len(sw'[t].rest) <= lw
      BY <1>4, <3>1, <3>2, SMTT(60)
    <3>4. Once(sw'[t].rest) /\ ~In(sw'[t].rest, f)
      BY <1>3, <2>1, <2>2, OnceTail, ZenonT(60) DEF SwitchOK
    <3>5. QED
      BY <1>3, <3>1, <3>2, <3>3, <3>4, ZenonT(60) DEF SwitchOK, lw
  <2>4. SwitchOK(t)'
    BY <1>2, <1>3, <2>2, <2>3, ZenonT(60) DEF SwitchOK, Locked
  <2>5. KnownBegun' /\ KnownWaits' /\ TimerShape' /\ SwitchShape'
    BY <1>6, <2>2, <2>3, <2>4, ZenonT(60) DEF Begun
  <2>6. t \in wait_tasks_ \/ (wl.at = "clear" /\ wl.cur.tk = t /\ wl.left = wait_fds_[t])
    <3>1. sw[t].added # <<>> => Locked(t)
      <4>1. sw[t].added # <<>> => lw > 1
        BY <1>4, <2>2, SMTT(60)
      <4>2. QED
        BY <4>1, ZenonT(60) DEF Locked, lw
    <3>2. QED
      BY <1>3, <2>2, <3>1, Zenon DEF SwitchOK
  <2>7. RegisteredShape'
    <3>1. ASSUME NEW g \in Fd, g # f, epoll'[g] # NULL
          PROVE  /\ epoll'[g] = epoll[g] /\ epoll[g].tk \in Task
                 /\ epoll[g].tk = t => In(sw'[t].added, g)
      BY <1>1, <2>2, <2>3, <3>1, ZenonT(60) DEF EpollInv, RegisteredShape, RegisteredOK, WaitId
    <3>2. epoll'[f].tk = t /\ epoll'[f].id = io_block_id_[t]
      BY <1>1, <2>2, <2>3, ZenonT(60) DEF Wait
    <3>3. UNCHANGED <<io_block_id_, wait_fds_, wl, wait_tasks_>> /\ sw'[t].at = "add"
      BY <1>2, <2>2, ZenonT(60)
    <3>4. ASSUME NEW g \in Fd, g # f, epoll'[g] # NULL
          PROVE  RegisteredOK(g, epoll[g].tk)'
      <4>1. /\ epoll'[g] = epoll[g] /\ epoll[g].tk \in Task /\ epoll[g] # NULL
            /\ epoll[g].tk = t => In(sw'[t].added, g)
        BY <3>1, <3>4, ZenonT(60)
      <4>2. CASE epoll[g].tk = t
        BY <3>3, <4>1, <4>2, ZenonT(60) DEF EpollInv, RegisteredShape, RegisteredOK
      <4>3. CASE epoll[g].tk # t
        BY <1>2, <2>2, <4>1, <4>3, SMTT(60) DEF EpollInv, RegisteredShape, RegisteredOK
      <4>4. QED
        BY <4>2, <4>3, Zenon
    <3>5. RegisteredOK(f, t)'
      BY <2>3, <2>6, <3>2, <3>3, ZenonT(60) DEF RegisteredOK
    <3>6. QED
      BY <3>2, <3>4, <3>5, ZenonT(60) DEF RegisteredShape
  <2>8. QED
    BY <1>5, <2>5, <2>7, Zenon DEF EpollInv
<1>9. CASE SwitchAddFails(t)
  <2>1. /\ sw[t].at = "add" /\ sw'[t].at = "add" /\ sw[t].rest # <<>>
        /\ sw'[t].rest = Tail(sw[t].rest) /\ sw'[t].added = sw[t].added
        /\ UNCHANGED <<epoll, wait_tasks_, timer, place>>
    BY <1>1, <1>9, SwitchFields, Zenon DEF SwitchAddFails
  <2>2. /\ Len(sw'[t].added) + Len(sw'[t].rest) <= Len(wait_fds_[t])
        /\ \A g : In(sw'[t].rest, g) => In(sw[t].rest, g)
        /\ Once(sw'[t].rest)
    <3>1. /\ Len(sw'[t].rest) = lr - 1
          /\ \A g : In(sw'[t].rest, g) => In(sw[t].rest, g)
      BY <1>3, <2>1, InTail, Zenon DEF lr
    <3>2. Len(sw'[t].added) = la
      BY <2>1, ZenonT(60) DEF la
    <3>3. Len(sw'[t].added) + Len(sw'[t].rest) <= lw
      BY <1>4, <3>1, <3>2
    <3>4. Once(sw'[t].rest)
      BY <1>3, <2>1, OnceTail, ZenonT(60) DEF SwitchOK
    <3>5. QED
      BY <3>1, <3>3, <3>4, ZenonT(60) DEF lw
  <2>3. SwitchOK(t)'
    BY <1>2, <1>3, <2>1, <2>2, ZenonT(60) DEF SwitchOK, Locked
  <2>4. KnownBegun' /\ KnownWaits' /\ TimerShape' /\ SwitchShape'
    BY <1>6, <2>1, <2>3, ZenonT(60) DEF Begun
  <2>5. RegisteredShape'
    BY <1>1, <1>2, <2>1, ZenonT(60) DEF EpollInv, RegisteredShape, RegisteredOK, WaitId
  <2>6. QED
    BY <1>5, <2>4, <2>5, Zenon DEF EpollInv
<1>10. CASE SwitchExists(t)
  <2>1. /\ sw[t].at = "add" /\ sw'[t].at = "rollback" /\ sw[t].rest # <<>>
        /\ sw'[t].rest = sw[t].rest /\ sw'[t].added = sw[t].added
        /\ UNCHANGED <<epoll, wait_tasks_, timer, place>>
    BY <1>1, <1>10, SwitchFields, Zenon DEF SwitchExists
  <2>2. ASSUME sw[t].added # <<>> PROVE FALSE
    <3>1. PICK f \in Fd : /\ In(sw[t].rest, f) /\ epoll[f] # NULL
                          /\ In(wait_fds_[t], f)
      <4>1. Head(sw[t].rest) \in Fd /\ In(sw[t].rest, Head(sw[t].rest))
        BY <1>3, <2>1, InTail, ZenonT(60)
      <4>2. QED
        BY <1>3, <1>10, <4>1, ZenonT(60) DEF SwitchExists, SwitchOK
    <3>2. PICK u \in Task : u = epoll[f].tk /\ RegisteredOK(f, u)
      BY <1>1, <3>1, ZenonT(60) DEF EpollInv, RegisteredShape, WaitId
    <3>3. wait_fds_[t] \in Lists(t) /\ wait_fds_[u] \in Lists(u) /\ In(wait_fds_[u], f)
      BY <1>1, <3>1, <3>2, InEmpty, ZenonT(60) DEF IoTypeOK, RegisteredOK
    <3>4. Len(wait_fds_[t]) > 1
      <4>1. lw > 1
        BY <1>4, <2>1, <2>2
      <4>2. QED
        BY <4>1, Zenon DEF lw
    <3>5. u = t
      BY <3>1, <3>3, <3>4, ZenonT(60) DEF Unshared
    <3>6. QED
      BY <1>3, <2>1, <3>1, <3>2, <3>5, ZenonT(60) DEF SwitchOK, RegisteredOK
  <2>3. SwitchOK(t)'
    BY <1>2, <1>3, <2>1, <2>2, ZenonT(60) DEF SwitchOK
  <2>4. KnownBegun' /\ KnownWaits' /\ TimerShape' /\ SwitchShape'
    BY <1>2, <1>6, <2>1, <2>2, <2>3, ZenonT(60) DEF Begun
  <2>5. RegisteredShape'
    BY <1>1, <1>2, <2>1, ZenonT(60) DEF EpollInv, RegisteredShape, RegisteredOK, WaitId
  <2>6. QED
    BY <1>5, <2>4, <2>5, Zenon DEF EpollInv
<1>11. CASE SwitchRollback(t)
  BY <1>1, <1>3, <1>11, SwitchFields, ZenonT(60) DEF SwitchRollback, SwitchOK
<1>12. CASE SwitchFailed(t)
  <2>1. /\ sw[t].at \in {"add", "rollback"} /\ sw[t].added = <<>> /\ sw'[t].at = "none"
        /\ UNCHANGED <<epoll, timer>>
    BY <1>1, <1>12, SwitchFields, ZenonT(60) DEF SwitchFailed
  <2>2. \A f \in Fd : ~Has(t, f)
    BY <2>1, InEmpty, Zenon DEF EpollInv, RegisteredShape, RegisteredOK, Has
  <2>3. KnownBegun' /\ KnownWaits' /\ TimerShape' /\ SwitchShape'
    BY <1>6, <2>1, <2>2, ZenonT(60) DEF Begun
  <2>4. RegisteredShape'
    BY <1>1, <1>2, <2>1, <2>2, ZenonT(60) DEF EpollInv, RegisteredShape, RegisteredOK, WaitId,
       Has
  <2>5. QED
    BY <1>5, <2>3, <2>4, Zenon DEF EpollInv
<1>13. CASE SwitchDone(t)
  <2>1. /\ sw[t].at = "add" /\ sw[t].added # <<>> /\ sw'[t].at = "none"
        /\ UNCHANGED <<epoll, wait_tasks_>>
    BY <1>1, <1>13, SwitchFields, ZenonT(60) DEF SwitchDone
  <2>2. timer'[t] = timer[t] \/ timer'[t].id = io_block_id_[t]
    BY <1>1, <1>13, SMTT(60) DEF SwitchDone
  <2>3. KnownBegun' /\ KnownWaits' /\ TimerShape' /\ SwitchShape'
    BY <1>6, <2>1, <2>2, ZenonT(60) DEF Begun
  <2>4. RegisteredShape'
    BY <1>1, <1>2, <2>1, ZenonT(60) DEF EpollInv, RegisteredShape, RegisteredOK, WaitId
  <2>5. QED
    BY <1>5, <2>3, <2>4, Zenon DEF EpollInv
<1>14. QED
  BY <1>7, <1>8, <1>9, <1>10, <1>11, <1>12, <1>13, ZenonT(60) DEF SchedulerSwitch

\* The steps of WaitLoop.
LEMMA LoopEpollInv ==
  ASSUME WokenInv, EpollInv, WaitLoop
  PROVE  EpollInv'
<1>1. /\ IoTypeOK /\ WokenOnce /\ NotYetKnown
      /\ wl \in LoopState /\ Known \subseteq WaitId /\ timer \in [Task -> TimerState]
      /\ io_block_id_ \in [Task -> Nat] /\ wait_fds_ \in [Task -> Seq(Fd)]
      /\ epoll \in [Fd -> WaitId \cup {NULL}] /\ wait_tasks_ \subseteq Task
      /\ place \in [Task -> {"running", "blocked", "runnable", "done", "asleep"}]
      /\ wl.at \in {"erase", "clear", "fired"} => wl.cur.tk \in Task
  <2>1. IoTypeOK /\ WokenOnce /\ NotYetKnown
    BY ZenonT(60) DEF WokenInv
  <2>2. Known \subseteq WaitId
    BY <2>1 DEF IoTypeOK, Known, Notified, LoopState
  <2>3. QED
    BY <2>1, <2>2, ZenonT(60) DEF IoTypeOK, WaitId
<1>2. LoopShape /\ KnownBegun /\ KnownWaits /\ TimerShape /\ SwitchShape /\ RegisteredShape
  BY ZenonT(60) DEF EpollInv
<1>3. UNCHANGED <<io_block_id_, wait_fds_, sw>> /\ \A t \in Task : Begun(t) <=> Begun(t)'
  <2>1. UNCHANGED <<io_block_id_, wait_fds_, sw>>
    BY ZenonT(60) DEF WaitLoop, LoopFetch, LoopEvent, LoopCancel, CancelErase,
       LoopSwap, LoopSkipTimeout, LoopTimeout, CancelClear, CancelWake, TimeoutDone, LoopDelete, waitvars
  <2>2. QED
    BY <2>1, Zenon DEF Begun
\* Nothing is being cleared before or after the step.
<1>4. ASSUME wl.at # "clear", wl'.at # "clear", UNCHANGED <<epoll, wait_tasks_, place>>
      PROVE  SwitchShape' /\ RegisteredShape'
  <2>1. SwitchShape'
    <3>1. ASSUME NEW u \in Task, sw'[u].at # "none" PROVE SwitchOK(u)'
      <4>1. SwitchOK(u)
        BY <1>2, <1>3, <3>1, ZenonT(60) DEF SwitchShape
      <4>2. QED
        BY <1>3, <1>4, <4>1, ZenonT(60) DEF SwitchOK, Locked
    <3>2. QED
      BY <3>1, Zenon DEF SwitchShape
  <2>2. RegisteredShape'
    BY <1>2, <1>3, <1>4, Zenon DEF RegisteredShape, RegisteredOK
  <2>3. QED
    BY <2>1, <2>2, Zenon
<1>5. ASSUME Known' \subseteq Known PROVE KnownBegun'
  BY <1>1, <1>2, <1>3, <1>5, Zenon DEF KnownBegun, WaitId
<1>6. ASSUME wl.at # "clear", Notified' \subseteq Notified, wait_tasks_' = wait_tasks_
      PROVE  KnownWaits'
  BY <1>2, <1>6, Zenon DEF KnownWaits
<1>7. CASE LoopSwap \/ LoopSkipTimeout \/ LoopDelete
  <2>1. /\ UNCHANGED <<epoll, wait_tasks_, place, timer>>
        /\ wl.at \notin {"erase", "clear", "fired"} /\ wl'.at \notin {"erase", "clear", "fired"}
        /\ wl'.evs \subseteq wl.evs /\ wl'.tasks \subseteq wl.tasks
    BY <1>1, <1>7, LoopFields, ZenonT(60) DEF LoopSwap, LoopSkipTimeout, LoopDelete
  <2>2. LoopShape'
    BY <1>1, <1>2, <1>7, <2>1, LoopFields, ZenonT(60) DEF LoopShape
  <2>3. Notified' \subseteq Notified /\ Known' \subseteq Known
    BY <2>1, ZenonT(60) DEF Known, Notified
  <2>4. TimerShape'
    BY <1>2, <1>3, <2>1, ZenonT(60) DEF TimerShape
  <2>5. QED
    BY <1>4, <1>5, <1>6, <2>1, <2>2, <2>3, <2>4, ZenonT(60) DEF EpollInv
<1>8. CASE LoopFetch
  <2>1. PICK ready \in SUBSET {f \in Fd : epoll[f] # NULL} :
          /\ wl.at \in {"none", "events"} /\ wl'.at = "events" /\ wl'.tasks = wl.tasks
          /\ wl'.evs = {[st |-> epoll[f], fd |-> f] : f \in ready}
    BY <1>1, <1>8, LoopFields, ZenonT(60)
  <2>2. UNCHANGED <<epoll, wait_tasks_, place, timer>>
    BY <1>8, ZenonT(60) DEF LoopFetch
  <2>3. ASSUME NEW f \in ready
        PROVE  /\ epoll[f].tk \in Task /\ epoll[f].id = io_block_id_[epoll[f].tk]
               /\ Begun(epoll[f].tk) /\ epoll[f].tk \in wait_tasks_
    <3>1. PICK t \in Task : f \in Fd /\ t = epoll[f].tk /\ RegisteredOK(f, t)
      BY <1>1, <1>2, ZenonT(60) DEF RegisteredShape, WaitId
    <3>2. t \in wait_tasks_ /\ sw[t].at # "lock"
      BY <1>1, <2>1, <3>1, ZenonT(60) DEF RegisteredOK, NotYetKnown
    <3>3. sw[t].at \in {"add", "rollback"} => sw[t].added # <<>>
      BY <3>1, InEmpty, Zenon DEF RegisteredOK
    <3>4. sw[t].at # "rollback"
      BY <1>2, <3>3, ZenonT(60) DEF SwitchShape, SwitchOK
    <3>5. QED
      BY <3>1, <3>2, <3>3, <3>4, ZenonT(60) DEF Begun, RegisteredOK
  <2>4. Notified' \subseteq Notified \cup {epoll[f] : f \in ready} /\ Known' = Notified'
    BY <2>1, SMTT(60) DEF Known, Notified
  <2>5. ASSUME NEW s \in Notified'
        PROVE  /\ s.tk \in Task /\ s.id = io_block_id_[s.tk] /\ Begun(s.tk)
               /\ s.tk \in wait_tasks_
    <3>1. CASE s \in Notified
      BY <1>1, <1>2, <2>1, <3>1, ZenonT(60) DEF KnownBegun, KnownWaits, Known, WaitId
    <3>2. QED
      BY <2>3, <2>4, <2>5, <3>1, ZenonT(60)
  <2>6. KnownBegun' /\ KnownWaits'
    BY <1>3, <2>2, <2>4, <2>5, ZenonT(60) DEF KnownBegun, KnownWaits
  <2>7. LoopShape'
    BY <2>1, ZenonT(60) DEF LoopShape
  <2>8. TimerShape'
    BY <1>2, <1>3, <2>2, ZenonT(60) DEF TimerShape
  <2>9. QED
    BY <1>4, <2>1, <2>2, <2>6, <2>7, <2>8, Zenon DEF EpollInv
<1>9. CASE LoopEvent
  <2>1. PICK e \in wl.evs : /\ wl.at = "events" /\ wl'.at = "events"
                            /\ wl'.evs = wl.evs \ {e} /\ wl'.tasks \subseteq wl.tasks \cup {e.st}
    BY <1>1, <1>9, LoopFields, Zenon
  <2>2. UNCHANGED <<epoll, wait_tasks_, place, timer>>
    BY <1>9, ZenonT(60) DEF LoopEvent
  <2>3. Notified' \subseteq Notified /\ Known' \subseteq Known
    BY <2>1, ZenonT(60) DEF Known, Notified
  <2>4. LoopShape'
    BY <2>1, ZenonT(60) DEF LoopShape
  <2>5. TimerShape'
    BY <1>2, <1>3, <2>2, Zenon DEF TimerShape
  <2>6. QED
    BY <1>4, <1>5, <1>6, <2>1, <2>2, <2>3, <2>4, <2>5, ZenonT(60) DEF EpollInv
<1>10. CASE LoopCancel
  <2>1. PICK s \in wl.tasks :
          /\ wl.at = "events" /\ wl.evs = {} /\ wl'.evs = {}
          /\ \/ wl'.at = "events" /\ wl'.tasks = wl.tasks \ {s}
             \/ wl'.at = "erase" /\ wl'.tasks = wl.tasks /\ wl'.cur = s
    BY <1>1, <1>10, CancelFields, Zenon
  <2>2. UNCHANGED <<epoll, wait_tasks_, place, timer>>
    BY <1>10, ZenonT(60) DEF LoopCancel
  <2>3. Notified' \subseteq Notified /\ Known' \subseteq Known
    BY <2>1, ZenonT(60) DEF Known, Notified
  <2>4. LoopShape'
    BY <2>1, ZenonT(60) DEF LoopShape
  <2>5. TimerShape'
    BY <1>2, <1>3, <2>2, ZenonT(60) DEF TimerShape
  <2>6. QED
    BY <1>4, <1>5, <1>6, <2>1, <2>2, <2>3, <2>4, <2>5, ZenonT(60) DEF EpollInv
\* A change of the timer keeps its identity.
<1>11. ASSUME NEW t \in Task, NEW a \in {"fired", "firing"}, timer' = [timer EXCEPT ![t].at = a]
       PROVE  /\ timer'[t].at = a /\ timer'[t].id = timer[t].id
              /\ \A u \in Task \ {t} : timer'[u] = timer[u]
  <2>1. timer[t] \in TimerState /\ timer'[t] = [timer[t] EXCEPT !.at = a]
    BY <1>1, <1>11, Zenon
  <2>2. QED
    BY <1>1, <1>11, <2>1, Zenon DEF TimerState
<1>12. CASE LoopTimeout
  <2>1. PICK s \in wl.timeouts :
          /\ wl.at = "timeouts" /\ ~Inactive(s) /\ wl'.evs = wl.evs /\ wl'.tasks = wl.tasks
          /\ wl'.at \in {"fired", "erase"} /\ wl'.cur = s
          /\ timer' = [timer EXCEPT ![s.tk].at = "firing"]
    BY <1>1, <1>12, CancelFields, ZenonT(60)
  <2>2. UNCHANGED <<epoll, wait_tasks_, place>>
    BY <1>12, ZenonT(60) DEF LoopTimeout
  <2>3. s \in WaitId /\ s.tk \in Task
    BY <1>1, Zenon DEF LoopState, WaitId
  <2>4. timer[s.tk].at = "expired" /\ timer[s.tk].id = s.id
    BY <2>1, <2>3, SMTT(60) DEF Inactive
  <2>5. sw[s.tk].at = "none" /\ s.id = io_block_id_[s.tk] /\ Begun(s.tk)
    BY <1>2, <2>3, <2>4, ZenonT(60) DEF TimerShape, Begun
  <2>6. /\ timer'[s.tk].at = "firing" /\ timer'[s.tk].id = timer[s.tk].id
        /\ \A u \in Task \ {s.tk} : timer'[u] = timer[u]
    BY <1>11, <2>1, <2>3, Zenon
  <2>7. TimerShape'
    BY <1>2, <1>3, <2>2, <2>4, <2>6, SMTT(60) DEF TimerShape, Live
  <2>8. Notified' = Notified /\ Known' \subseteq Known \cup {s}
    BY <2>1, Zenon DEF Known, Notified
  <2>9. KnownBegun' /\ KnownWaits'
    <3>1. \A x \in Known : x.tk \in Task /\ x.id = io_block_id_[x.tk] /\ Begun(x.tk)
      BY <1>1, <1>2, ZenonT(60) DEF KnownBegun, WaitId
    <3>2. KnownBegun'
      BY <1>3, <2>3, <2>5, <2>8, <3>1, ZenonT(60) DEF KnownBegun
    <3>3. QED
      BY <1>6, <2>1, <2>2, <2>8, <3>2, ZenonT(60)
  <2>10. LoopShape'
    BY <1>2, <2>1, <2>6, ZenonT(60) DEF LoopShape
  <2>11. QED
    BY <1>4, <2>1, <2>2, <2>7, <2>9, <2>10, ZenonT(60) DEF EpollInv
\* Cancel returns without having woken anybody, or once nothing is left to clear.
<1>13. ASSUME Returned, wl'.evs = wl.evs, wl.at \in {"erase", "clear"},
              UNCHANGED <<epoll, wait_tasks_, timer>>
       PROVE  LoopShape' /\ KnownBegun' /\ KnownWaits'
  <2>1. Known' \subseteq Known /\ Notified' \subseteq Notified /\ wl'.at \in {"events", "fired"}
    BY <1>13, ZenonT(60) DEF Returned, Known, Notified
  <2>2. wl.cur \in wl.tasks => wl.cur \notin Notified'
    BY <1>2, <1>13, ZenonT(60) DEF Returned, Notified, LoopShape
  <2>3. KnownWaits'
    <3>1. ASSUME NEW s \in Notified' PROVE s.tk \in wait_tasks_
      <4>1. s # wl.cur
        BY <1>2, <1>13, <2>2, <3>1, ZenonT(60) DEF Returned, Notified, LoopShape
      <4>2. QED
        BY <1>2, <2>1, <3>1, <4>1, ZenonT(60) DEF KnownWaits
    <3>2. QED
      BY <1>13, <3>1, ZenonT(60) DEF KnownWaits
  <2>4. LoopShape'
    BY <1>2, <1>13, ZenonT(60) DEF LoopShape, Returned
  <2>5. QED
    BY <1>5, <2>1, <2>3, <2>4, ZenonT(60)
<1>14. CASE CancelErase
  <2>1. PICK t \in Task : t = wl.cur.tk
    BY <1>1, <1>14, Zenon DEF CancelErase
  <2>2. /\ wl.at = "erase" /\ wl'.evs = wl.evs
        /\ \/ /\ t \in wait_tasks_ /\ wl'.at = "clear" /\ wl'.tasks = wl.tasks
              /\ wl'.cur = wl.cur /\ wl'.left = wait_fds_[t]
           \/ t \notin wait_tasks_ /\ Returned
    BY <1>1, <1>14, <2>1, CancelFields, ZenonT(60)
  <2>3. UNCHANGED <<epoll, place, timer>> /\ wait_tasks_' = wait_tasks_ \ {t}
    BY <1>14, <2>1, ZenonT(60) DEF CancelErase
  <2>4. TimerShape'
    BY <1>2, <1>3, <2>3, ZenonT(60) DEF TimerShape
  <2>5. CASE t \notin wait_tasks_
    <3>1. wait_tasks_' = wait_tasks_ /\ Returned /\ wl'.at # "clear"
      BY <2>2, <2>3, <2>5, ZenonT(60) DEF Returned
    <3>2. QED
      BY <1>4, <1>13, <2>2, <2>3, <2>4, <3>1, ZenonT(60) DEF EpollInv
  <2>6. CASE t \in wait_tasks_
    <3>1. wl'.at = "clear" /\ wl'.tasks = wl.tasks /\ wl'.cur = wl.cur /\ wl'.left = wait_fds_[t]
      BY <2>2, <2>6, Zenon
    <3>2. Known' = Known /\ Notified' = Notified /\ wl.cur \in Known
      BY <2>2, <3>1, ZenonT(60) DEF Known, Notified
    <3>3. Begun(t)
      BY <1>2, <2>1, <3>2, ZenonT(60) DEF KnownBegun
    <3>4. ASSUME NEW s \in Notified, s.tk = t PROVE s = wl.cur
      <4>1. s \in Known
        BY Zenon DEF Known
      <4>2. s.id = io_block_id_[t] /\ wl.cur.id = io_block_id_[t]
        BY <1>2, <2>1, <3>2, <3>4, <4>1, Zenon DEF KnownBegun
      <4>3. s \in WaitId /\ wl.cur \in WaitId
        BY <1>1, <3>2, <4>1, Zenon
      <4>4. QED
        BY <2>1, <3>4, <4>2, <4>3, SMTT(60) DEF WaitId
    <3>5. KnownWaits'
      BY <1>2, <2>2, <2>3, <3>1, <3>2, <3>4, ZenonT(60) DEF KnownWaits
    <3>6. LoopShape'
      BY <1>2, <2>2, <2>3, <3>1, ZenonT(60) DEF LoopShape
    <3>7. SwitchShape'
      <4>1. ASSUME NEW u \in Task, sw'[u].at # "none" PROVE SwitchOK(u)'
        <5>1. SwitchOK(u)
          BY <1>2, <1>3, <4>1, Zenon DEF SwitchShape
        <5>2. CASE u = t
          BY <1>3, <2>1, <2>3, <3>1, <3>3, <5>1, <5>2, ZenonT(60) DEF SwitchOK, Locked, Begun
        <5>3. CASE u # t
          BY <1>3, <2>2, <2>3, <5>1, <5>3, ZenonT(60) DEF SwitchOK, Locked
        <5>4. QED
          BY <5>2, <5>3, ZenonT(60)
      <4>2. QED
        BY <4>1, Zenon DEF SwitchShape
    <3>8. RegisteredShape'
      BY <1>2, <1>3, <2>1, <2>2, <2>3, <3>1, ZenonT(60) DEF RegisteredShape, RegisteredOK
    <3>9. QED
      BY <1>5, <2>4, <3>2, <3>5, <3>6, <3>7, <3>8, ZenonT(60) DEF EpollInv
  <2>7. QED
    BY <2>5, <2>6, Zenon
<1>15. CASE CancelClear
  <2>1. PICK t \in Task, f \in Fd : t = wl.cur.tk /\ f = Head(wl.left)
    BY <1>1, <1>15, InTail, ZenonT(60) DEF CancelClear, LoopState
  <2>2. /\ wl.at = "clear" /\ wl'.at = "clear" /\ wl'.evs = wl.evs
        /\ wl'.tasks = wl.tasks /\ wl'.cur = wl.cur
        /\ \A g : In(wl.left, g) <=> g = f \/ In(wl'.left, g)
    <3>1. /\ wl.at = "clear" /\ wl'.at = "clear" /\ wl'.evs = wl.evs
          /\ wl'.tasks = wl.tasks /\ wl'.cur = wl.cur
          /\ wl.left # <<>> /\ wl'.left = Tail(wl.left)
      BY <1>1, <1>15, CancelFields, Zenon
    <3>2. wl.left \in Seq(Fd)
      BY <1>1, ZenonT(60) DEF LoopState
    <3>3. \A g : In(wl.left, g) <=> g = f \/ In(Tail(wl.left), g)
      BY <2>1, <3>1, <3>2, InTail, Zenon
    <3>4. QED
      BY <3>1, <3>3, Zenon
  <2>3. /\ Locked(t) => sw[t].at = "none"
        /\ DeleteFd(t, f) /\ UNCHANGED <<wait_tasks_, timer, place>>
    BY <1>15, <2>1, ZenonT(60) DEF CancelClear
  <2>4. \A g \in Fd : epoll'[g] # NULL => g # f /\ epoll'[g] = epoll[g]
    BY <1>1, <2>3, ZenonT(60) DEF DeleteFd
  <2>5. LoopShape'
    BY <1>2, <1>3, <2>2, <2>3, ZenonT(60) DEF LoopShape
  <2>6. KnownBegun' /\ KnownWaits'
    <3>1. Known' = Known /\ Notified' = Notified
      BY <2>2, ZenonT(60) DEF Known, Notified
    <3>2. QED
      BY <1>2, <1>5, <2>2, <2>3, <3>1, ZenonT(60) DEF KnownWaits
  <2>7. TimerShape'
    BY <1>2, <1>3, <2>3, Zenon DEF TimerShape
  <2>8. SwitchShape'
    <3>1. ASSUME NEW u \in Task, sw'[u].at # "none" PROVE SwitchOK(u)'
      <4>1. SwitchOK(u) /\ sw[u].at # "none"
        BY <1>2, <1>3, <3>1, ZenonT(60) DEF SwitchShape
      <4>2. ~(u = t /\ Locked(t))
        BY <2>3, <4>1, Zenon
      <4>3. QED
        BY <1>3, <2>1, <2>2, <2>3, <4>1, <4>2, ZenonT(60) DEF SwitchOK, Locked
    <3>2. QED
      BY <3>1, Zenon DEF SwitchShape
  <2>9. RegisteredShape'
    BY <1>2, <1>3, <2>2, <2>3, <2>4, ZenonT(60) DEF RegisteredShape, RegisteredOK
  <2>10. QED
    BY <2>5, <2>6, <2>7, <2>8, <2>9, Zenon DEF EpollInv
<1>16. CASE CancelWake
  <2>1. PICK t \in Task : t = wl.cur.tk
    BY <1>1, <1>16, Zenon DEF CancelWake
  <2>2. /\ wl.at = "clear" /\ wl.left = <<>> /\ wl'.evs = wl.evs
        /\ Returned /\ wl'.at # "clear"
    BY <1>1, <1>16, CancelFields, ZenonT(60) DEF Returned
  <2>3. UNCHANGED <<epoll, wait_tasks_, timer>> /\ place' = [place EXCEPT ![t] = "runnable"]
    BY <1>16, <2>1, ZenonT(60) DEF CancelWake
  <2>4. LoopShape' /\ KnownBegun' /\ KnownWaits'
    BY <1>13, <2>2, <2>3, ZenonT(60)
  <2>5. TimerShape'
    BY <1>1, <1>2, <1>3, <2>3, Zenon DEF TimerShape
  <2>6. SwitchShape'
    <3>1. ASSUME NEW u \in Task, sw'[u].at # "none" PROVE SwitchOK(u)'
      <4>1. SwitchOK(u) /\ sw[u].at # "none"
        BY <1>2, <1>3, <3>1, SMTT(60) DEF SwitchShape
      <4>2. Locked(u) => wait_fds_[u] # <<>>
        BY <1>1 DEF Locked
      <4>3. place'[u] \in {"blocked", "runnable"}
        BY <1>1, <2>3, <4>1, ZenonT(60) DEF SwitchOK
      <4>4. QED
        BY <1>3, <2>2, <2>3, <4>1, <4>2, <4>3, ZenonT(60) DEF SwitchOK, Locked
    <3>2. QED
      BY <3>1, ZenonT(60) DEF SwitchShape
  <2>7. RegisteredShape'
    BY <1>2, <1>3, <2>2, <2>3, InEmpty, ZenonT(60) DEF RegisteredShape, RegisteredOK
  <2>8. QED
    BY <2>4, <2>5, <2>6, <2>7, Zenon DEF EpollInv
<1>17. CASE TimeoutDone
  <2>1. PICK t \in Task : t = wl.cur.tk
    BY <1>1, <1>17, Zenon DEF TimeoutDone
  <2>2. wl.at = "fired" /\ wl'.at = "timeouts" /\ wl'.evs = wl.evs /\ wl'.tasks = wl.tasks
    BY <1>1, <1>17, CancelFields, Zenon
  <2>3. UNCHANGED <<epoll, wait_tasks_, place>> /\ timer' = [timer EXCEPT ![t].at = "fired"]
    BY <1>17, <2>1, Zenon DEF TimeoutDone
  <2>4. TimerShape'
    <3>1. /\ timer'[t].at = "fired" /\ timer'[t].id = timer[t].id /\ timer[t].at = "firing"
          /\ \A u \in Task \ {t} : timer'[u] = timer[u]
      BY <1>2, <1>11, <2>1, <2>2, <2>3, ZenonT(60) DEF LoopShape
    <3>2. QED
      BY <1>2, <1>3, <2>3, <3>1 DEF TimerShape, Live
  <2>5. KnownBegun' /\ KnownWaits'
    <3>1. Known' = Known /\ Notified' = Notified
      BY <2>2, ZenonT(60) DEF Known, Notified
    <3>2. QED
      BY <1>5, <1>6, <2>2, <2>3, <3>1, ZenonT(60)
  <2>6. LoopShape'
    BY <1>2, <2>2, ZenonT(60) DEF LoopShape
  <2>7. QED
    BY <1>4, <2>2, <2>3, <2>4, <2>5, <2>6, SMTT(60) DEF EpollInv
<1>18. QED
  BY <1>7, <1>8, <1>9, <1>10, <1>12, <1>14, <1>15, <1>16, <1>17, Zenon DEF WaitLoop

\* Every step of IoWait keeps the account of the epolls.
LEMMA StepEpollInv == Unshared /\ Distinct /\ WokenInv /\ EpollInv /\ IoStep => EpollInv'
<1> SUFFICES ASSUME Unshared, Distinct, WokenInv, EpollInv, IoStep PROVE EpollInv'
  BY Zenon
<1>1. IoTypeOK'
  BY IoStepTypes, Zenon DEF WokenInv
<1>2. CASE UNCHANGED iovars
  <2>1. LoopShape' /\ KnownBegun' /\ KnownWaits' /\ TimerShape'
    BY <1>2, ZenonT(60) DEF EpollInv, iovars, waitvars, LoopShape, KnownBegun, KnownWaits, Known,
       Notified, Begun, TimerShape
  <2>2. SwitchShape' /\ RegisteredShape'
    BY <1>2, ZenonT(60) DEF EpollInv, iovars, waitvars, SwitchShape, SwitchOK, Locked,
       RegisteredShape,
       RegisteredOK
  <2>3. QED
    BY <2>1, <2>2, ZenonT(60) DEF EpollInv
<1>3. QED
  BY <1>1, <1>2, TaskEpollInv, SwitchEpollInv, LoopEpollInv, Zenon DEF IoStep
=============================================================================
