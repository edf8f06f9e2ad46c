-------------------------------- MODULE IoWait --------------------------------
(***************************************************************************)
(* IoWait (linux/io_wait.h, linux/io_wait.cpp) with the reference count of *)
(* Task (task.h, task.cpp) and what every hooked system call does after    *)
(* the wait (linux_glibc_hook.cpp); the calls themselves are in Hook.tla.  *)
(*                                                                         *)
(* Three parties meet here.  A coroutine describes its wait (CoSwitch) and *)
(* yields; the thread that ran it registers the descriptors with epoll     *)
(* (SchedulerSwitch); the thread that holds epoll_lock_ collects events,   *)
(* wakes coroutines (Cancel), runs expired timers and deletes finished     *)
(* Tasks (WaitLoop).  Only one thread is in WaitLoop's locked part, and a  *)
(* coroutine does not run before SchedulerSwitch for it has returned: its  *)
(* Processer is in the hands of that thread until then.                    *)
(*                                                                         *)
(* place[t]:  running; blocked (from the yield on); runnable; done;        *)
(*            asleep (in SleepWait, see Hook.tla)                          *)
(* sw[t].at:  none; lock, add, rollback inside SchedulerSwitch             *)
(* wl.at:     none; events (of the epoll wl.type), timeouts, fired in      *)
(*            WaitLoop, and erase, clear inside Cancel                     *)
(*                                                                         *)
(* Cancel tests io_block_id_ and then takes the coroutine from wait_tasks_ *)
(* in a step of its own, and epoll keeps one registration per descriptor   *)
(* whoever asks.  strayed tells where this let something reach the wrong   *)
(* wait:                                                                   *)
(*   event   an event of an earlier wait was counted for the present one,  *)
(*           or one of the present wait while an earlier one was yet to be *)
(*           cancelled, so that it wakes nobody and is counted again       *)
(*   cancel  a Cancel for an earlier wait ended a later one                *)
(*   delete  a registration was deleted in the name of another coroutine   *)
(***************************************************************************)
EXTENDS Naturals, Sequences, FiniteSets

CONSTANTS
  Task,     \* coroutines
  Fd,       \* pairs of a descriptor and the epoll (read or write) it goes to
  EpollOf,  \* which of the two epolls, 0 for read or 1 for write
  Waits,    \* descriptor lists each coroutine may wait for
  AddFails, \* descriptors for which epoll_ctl may fail (not with EEXIST)
  MaxId,    \* bound: how many waits each coroutine makes
  MaxEvents,\* bound: a wait with so many events gets no further ones
  NULL

ASSUME IoWaitAssumption ==
  /\ IsFiniteSet(Task) /\ IsFiniteSet(Fd)
  /\ EpollOf \in [Fd -> 0..1]
  /\ \A t \in Task : Waits[t] \subseteq Seq(Fd)
  /\ AddFails \subseteq Fd
  /\ MaxId \in [Task -> Nat] /\ MaxEvents \in Nat
  /\ NULL \notin Task \cup Fd \cup [tk : Task, id : Nat]

VARIABLES
  epoll,            \* who registered each descriptor, and for which wait
  wait_tasks_,      \* IoWait::wait_tasks_
  io_block_id_,     \* of each Task
  wait_fds_,        \* of each Task
  revent,           \* descriptors of wait_fds_ that have a result event
  wait_successful_, \* of each Task
  strayed,          \* history of each Task, which no step looks at
  timed,            \* io_block_timeout_ # -1
  timer,            \* io_block_timer_ of each Task and what became of it
  ref_count_,       \* of each Task
  delete_list,      \* Task::s_delete_list
  deleted,          \* Tasks that have been deleted
  place, sw, wl

waitvars == <<io_block_id_, wait_fds_, timed>>
evvars == <<revent, wait_successful_, strayed>>
refvars == <<ref_count_, delete_list>>
iovars == <<epoll, wait_tasks_, waitvars, evvars, timer, refvars, deleted, place, sw, wl>>

Wait(t, i) == [tk |-> t, id |-> i]
NoTimer == [id |-> 0, at |-> "none"]
NoSwitch == [at |-> "none", rest |-> <<>>, added |-> <<>>]
NoLoop == [at |-> "none", type |-> 0, evs |-> {}, tasks |-> {}, timeouts |-> {},
           cur |-> NULL, left |-> <<>>]

IoInit ==
  /\ epoll = [f \in Fd |-> NULL]
  /\ wait_tasks_ = {}
  /\ io_block_id_ = [t \in Task |-> 0]
  /\ wait_fds_ = [t \in Task |-> <<>>]
  /\ revent = [t \in Task |-> {}]
  /\ wait_successful_ = [t \in Task |-> 0]
  /\ strayed = [t \in Task |-> {}]
  /\ timed = [t \in Task |-> FALSE]
  /\ timer = [t \in Task |-> NoTimer]
  /\ ref_count_ = [t \in Task |-> 1]
  /\ delete_list = {} /\ deleted = {}
  /\ place = [t \in Task |-> "running"]
  /\ sw = [t \in Task |-> NoSwitch]
  /\ wl = NoLoop

-----------------------------------------------------------------------------
(* The coroutine *)

\* DecrementRef: the Task whose count becomes zero goes to the delete list.
DecrementRef(t) ==
  /\ ref_count_' = [ref_count_ EXCEPT ![t] = @ - 1]
  /\ delete_list' = IF ref_count_[t] = 1 THEN delete_list \cup {t} ELSE delete_list

\* What strays is remembered for the coroutines ts.
Stray(ts, what) ==
  strayed' = [t \in Task |-> IF t \in ts THEN strayed[t] \cup {what} ELSE strayed[t]]

\* Mutant: the number of events of the previous wait stays.
CoSwitchKeepsCount(t, fds, with_timeout) ==
  /\ place[t] = "running" /\ io_block_id_[t] < MaxId[t]
  /\ io_block_id_' = [io_block_id_ EXCEPT ![t] = @ + 1]
  /\ wait_fds_' = [wait_fds_ EXCEPT ![t] = fds]
  /\ timed' = [timed EXCEPT ![t] = with_timeout]
  /\ revent' = [revent EXCEPT ![t] = {}]
  /\ strayed' = [strayed EXCEPT ![t] = @ \ {"event"}]
  /\ timer' = [timer EXCEPT ![t] = NoTimer]
  /\ place' = [place EXCEPT ![t] = "blocked"]
  /\ sw' = [sw EXCEPT ![t] = [at |-> "lock", rest |-> fds, added |-> <<>>]]
  /\ UNCHANGED <<epoll, wait_tasks_, wait_successful_, refvars, deleted, wl>>

\* CoSwitch, from a hooked call: describe the wait and yield.
CoSwitch(t, fds, with_timeout) ==
  /\ place[t] = "running" /\ io_block_id_[t] < MaxId[t]
  /\ io_block_id_' = [io_block_id_ EXCEPT ![t] = @ + 1]
  /\ wait_fds_' = [wait_fds_ EXCEPT ![t] = fds]
  /\ timed' = [timed EXCEPT ![t] = with_timeout]
  /\ revent' = [revent EXCEPT ![t] = {}]
  /\ wait_successful_' = [wait_successful_ EXCEPT ![t] = 0]
  /\ strayed' = [strayed EXCEPT ![t] = @ \ {"event"}]
  /\ timer' = [timer EXCEPT ![t] = NoTimer]
  /\ place' = [place EXCEPT ![t] = "blocked"]
  /\ sw' = [sw EXCEPT ![t] = [at |-> "lock", rest |-> fds, added |-> <<>>]]
  /\ UNCHANGED <<epoll, wait_tasks_, refvars, deleted, wl>>

\* The hooked call goes on: BlockCancelTimer waits for a callback that is
\* running; a timer it does cancel gives its reference back.
Resume(t) ==
  /\ place[t] = "runnable" /\ sw[t].at = "none"
  /\ timer[t].at # "firing"
  /\ place' = [place EXCEPT ![t] = "running"]
  /\ IF timer[t].at \in {"set", "expired"}
       THEN timer' = [timer EXCEPT ![t].at = "cancelled"] /\ DecrementRef(t)
       ELSE UNCHANGED <<timer, refvars>>
  /\ UNCHANGED <<epoll, wait_tasks_, waitvars, evvars, deleted, sw, wl>>

\* The coroutine ends: Processer::Run drops the first reference.
Finish(t) ==
  /\ place[t] = "running"
  /\ place' = [place EXCEPT ![t] = "done"]
  /\ DecrementRef(t)
  /\ UNCHANGED <<epoll, wait_tasks_, waitvars, evvars, timer, deleted, sw, wl>>

-----------------------------------------------------------------------------
(* SchedulerSwitch, by the thread the coroutine ran on *)

\* io_block_lock_ is only used for a wait on several descriptors.
Locked(t) == Len(wait_fds_[t]) > 1

\* Take the lock and enter wait_tasks_, before any descriptor is registered.
\* RefGuard's reference lies within the coroutine's own and is left out.
\* The lock is free: Cancel, its other holder, runs for a coroutine it found
\* in wait_tasks_.
SwitchLock(t) ==
  /\ sw[t].at = "lock"
  /\ wait_tasks_' = wait_tasks_ \cup {t}
  /\ sw' = [sw EXCEPT ![t].at = "add"]
  /\ UNCHANGED <<epoll, waitvars, evvars, timer, refvars, deleted, place, wl>>

\* IncrementRef and EPOLL_CTL_ADD of the next descriptor.
SwitchAdd(t) ==
  LET f == Head(sw[t].rest) IN
  /\ sw[t].at = "add" /\ sw[t].rest # <<>>
  /\ epoll[f] = NULL
  /\ epoll' = [epoll EXCEPT ![f] = Wait(t, io_block_id_[t])]
  /\ ref_count_' = [ref_count_ EXCEPT ![t] = @ + 1]
  /\ sw' = [sw EXCEPT ![t].rest = Tail(@), ![t].added = Append(@, f)]
  /\ UNCHANGED <<wait_tasks_, waitvars, evvars, timer, delete_list, deleted, place, wl>>

\* EPOLL_CTL_ADD failing for another reason than EEXIST is ignored.
SwitchAddFails(t) ==
  /\ sw[t].at = "add" /\ sw[t].rest # <<>>
  /\ Head(sw[t].rest) \in AddFails
  /\ sw' = [sw EXCEPT ![t].rest = Tail(@)]
  /\ UNCHANGED <<epoll, wait_tasks_, waitvars, evvars, timer, refvars, deleted, place, wl>>

\* EEXIST: somebody else waits for the descriptor.
SwitchExists(t) ==
  /\ sw[t].at = "add" /\ sw[t].rest # <<>>
  /\ epoll[Head(sw[t].rest)] # NULL
  /\ sw' = [sw EXCEPT ![t].at = "rollback"]
  /\ UNCHANGED <<epoll, wait_tasks_, waitvars, evvars, timer, refvars, deleted, place, wl>>

\* EPOLL_CTL_DEL of f; who deletes one drops a reference of t.
DeleteFd(t, f) ==
  IF epoll[f] # NULL
    THEN /\ epoll' = [epoll EXCEPT ![f] = NULL] /\ DecrementRef(t)
         /\ Stray(IF epoll[f].tk = t THEN {} ELSE {t, epoll[f].tk}, "delete")
    ELSE UNCHANGED <<epoll, refvars, strayed>>

SwitchRollback(t) ==
  /\ sw[t].at = "rollback" /\ sw[t].added # <<>>
  /\ DeleteFd(t, Head(sw[t].added))
  /\ sw' = [sw EXCEPT ![t].added = Tail(@)]
  /\ UNCHANGED <<wait_tasks_, waitvars, revent, wait_successful_, timer, deleted, place, wl>>

\* Nothing is registered (ok is false): leave wait_tasks_ unless Cancel has
\* taken the coroutine from there.
SwitchFailed(t) ==
  /\ \/ sw[t].at = "rollback" /\ sw[t].added = <<>>
     \/ sw[t].at = "add" /\ sw[t].rest = <<>> /\ sw[t].added = <<>>
  /\ wait_tasks_' = wait_tasks_ \ {t}
  /\ place' = IF t \in wait_tasks_ THEN [place EXCEPT ![t] = "runnable"] ELSE place
  /\ sw' = [sw EXCEPT ![t] = NoSwitch]
  /\ UNCHANGED <<epoll, waitvars, evvars, timer, refvars, deleted, wl>>

\* Mutant: the timer gets no reference.
SwitchDoneNoRef(t) ==
  /\ sw[t].at = "add" /\ sw[t].rest = <<>> /\ sw[t].added # <<>>
  /\ IF timed[t]
       THEN timer' = [timer EXCEPT ![t] = [id |-> io_block_id_[t], at |-> "set"]]
       ELSE UNCHANGED timer
  /\ sw' = [sw EXCEPT ![t] = NoSwitch]
  /\ UNCHANGED <<epoll, wait_tasks_, waitvars, evvars, refvars, deleted, place, wl>>

\* Mutant: no timer is set.
SwitchDoneNoTimer(t) ==
  /\ sw[t].at = "add" /\ sw[t].rest = <<>> /\ sw[t].added # <<>>
  /\ sw' = [sw EXCEPT ![t] = NoSwitch]
  /\ UNCHANGED <<epoll, wait_tasks_, waitvars, evvars, timer, refvars, deleted, place, wl>>

\* Registered: set the timer, which has a reference of its own, and return.
SwitchDone(t) ==
  /\ sw[t].at = "add" /\ sw[t].rest = <<>> /\ sw[t].added # <<>>
  /\ IF timed[t]
       THEN /\ timer' = [timer EXCEPT ![t] = [id |-> io_block_id_[t], at |-> "set"]]
            /\ ref_count_' = [ref_count_ EXCEPT ![t] = @ + 1]
       ELSE UNCHANGED <<timer, ref_count_>>
  /\ sw' = [sw EXCEPT ![t] = NoSwitch]
  /\ UNCHANGED <<epoll, wait_tasks_, waitvars, evvars, delete_list, deleted, place, wl>>

-----------------------------------------------------------------------------
(* WaitLoop *)

\* Any thread: an expired timer goes to timeout_list_.
Expire(t) ==
  /\ timer[t].at = "set"
  /\ timer' = [timer EXCEPT ![t].at = "expired"]
  /\ UNCHANGED <<epoll, wait_tasks_, waitvars, evvars, refvars, deleted, place, sw, wl>>

\* epoll_wait for readers, once try_lock of epoll_lock_ succeeds, and for
\* writers after the events of readers: any of the registered descriptors may
\* be ready.  An event points to the EpollPtr in wait_fds_ of the wait that
\* registered it.
LoopFetch ==
  LET type == IF wl.at = "none" THEN 0 ELSE 1 IN
  /\ \/ wl.at = "none"
     \/ wl.at = "events" /\ wl.type = 0 /\ wl.evs = {}
  /\ \E ready \in SUBSET {f \in Fd : /\ EpollOf[f] = type /\ epoll[f] # NULL
                                   /\ wait_successful_[epoll[f].tk] < MaxEvents} :
       wl' = [wl EXCEPT !.at = "events", !.type = type,
                        !.evs = {[st |-> epoll[f], fd |-> f] : f \in ready}]
  /\ UNCHANGED <<epoll, wait_tasks_, waitvars, evvars, timer, refvars, deleted, place, sw>>

\* One event.  An EpollPtr of an earlier wait is no longer in wait_fds_;
\* epollwait_tasks_ orders by Task only: the first insertion of one stays.
LoopEvent ==
  /\ wl.at = "events"
  /\ \E e \in wl.evs :
       LET t == e.st.tk IN
       /\ revent' = [revent EXCEPT ![t] = IF e.st.id = io_block_id_[t]
                                            THEN @ \cup {e.fd} ELSE @]
       /\ wait_successful_' = [wait_successful_ EXCEPT ![t] = @ + 1]
       /\ Stray(IF \A s \in wl.tasks \cup {e.st} : s.tk = t => s.id = io_block_id_[t]
                  THEN {} ELSE {t}, "event")
       /\ wl' = [wl EXCEPT !.evs = @ \ {e},
                           !.tasks = IF \E s \in @ : s.tk = t THEN @ ELSE @ \cup {e.st}]
  /\ UNCHANGED <<epoll, wait_tasks_, waitvars, timer, refvars, deleted, place, sw>>

\* The events of both epolls are handled: the coroutines of epollwait_tasks_
\* are next.
EventsDone == wl.at = "events" /\ wl.type = 1 /\ wl.evs = {}

\* The test of Cancel(tk, id): the wait is not the current one.
CancelMisses(s) == io_block_id_[s.tk] # s.id

\* Cancel for each entry of epollwait_tasks_, up to the test.
LoopCancel ==
  /\ EventsDone
  /\ \E s \in wl.tasks :
       wl' = IF CancelMisses(s) THEN [wl EXCEPT !.tasks = @ \ {s}]
                                ELSE [wl EXCEPT !.at = "erase", !.cur = s]
  /\ UNCHANGED <<epoll, wait_tasks_, waitvars, evvars, timer, refvars, deleted, place, sw>>

\* Cancel returns to the loop over epollwait_tasks_, or to the timer's callback.
CancelReturns ==
  wl' = IF wl.cur \in wl.tasks
          THEN [wl EXCEPT !.at = "events", !.tasks = @ \ {wl.cur}, !.cur = NULL]
          ELSE [wl EXCEPT !.at = "fired"]

\* Mutant: Cancel does not ask whether the coroutine was still in wait_tasks_.
CancelEraseAnyway ==
  LET t == wl.cur.tk IN
  /\ wl.at = "erase"
  /\ wait_tasks_' = wait_tasks_ \ {t}
  /\ Stray(IF CancelMisses(wl.cur) THEN {t} ELSE {}, "cancel")
  /\ wl' = [wl EXCEPT !.at = "clear", !.left = wait_fds_[t]]
  /\ UNCHANGED <<epoll, waitvars, revent, wait_successful_, timer, refvars, deleted, place, sw>>

\* Take the coroutine from wait_tasks_ if it is there, which may be for a
\* later wait by now: what is cleared are the descriptors of that one.
CancelErase ==
  LET t == wl.cur.tk IN
  /\ wl.at = "erase"
  /\ wait_tasks_' = wait_tasks_ \ {t}
  /\ IF t \in wait_tasks_
       THEN /\ wl' = [wl EXCEPT !.at = "clear", !.left = wait_fds_[t]]
            /\ Stray(IF CancelMisses(wl.cur) THEN {t} ELSE {}, "cancel")
       ELSE CancelReturns /\ UNCHANGED strayed
  /\ UNCHANGED <<epoll, waitvars, revent, wait_successful_, timer, refvars, deleted, place, sw>>

\* Swap timeout_list_.
LoopSwap ==
  /\ EventsDone /\ wl.tasks = {}
  /\ wl' = [wl EXCEPT !.at = "timeouts",
              !.timeouts = {Wait(t, timer[t].id) :
                              t \in {u \in Task : timer[u].at = "expired"}}]
  /\ UNCHANGED <<epoll, wait_tasks_, waitvars, evvars, timer, refvars, deleted, place, sw>>

Inactive(s) == timer[s.tk] # [id |-> s.id, at |-> "expired"]

\* operator() of a timer that has been cancelled meanwhile.
LoopSkipTimeout ==
  /\ wl.at = "timeouts"
  /\ \E s \in wl.timeouts : Inactive(s) /\ wl' = [wl EXCEPT !.timeouts = @ \ {s}]
  /\ UNCHANGED <<epoll, wait_tasks_, waitvars, evvars, timer, refvars, deleted, place, sw>>

\* operator() of another: the callback calls Cancel.
LoopTimeout ==
  /\ wl.at = "timeouts"
  /\ \E s \in wl.timeouts :
       /\ ~Inactive(s)
       /\ timer' = [timer EXCEPT ![s.tk].at = "firing"]
       /\ wl' = [wl EXCEPT !.at = IF CancelMisses(s) THEN "fired" ELSE "erase", !.cur = s]
  /\ UNCHANGED <<epoll, wait_tasks_, waitvars, evvars, refvars, deleted, place, sw>>

\* Mutant: Cancel does not take io_block_lock_.
CancelClearUnlocked ==
  /\ wl.at = "clear" /\ wl.left # <<>>
  /\ DeleteFd(wl.cur.tk, Head(wl.left))
  /\ wl' = [wl EXCEPT !.left = Tail(@)]
  /\ UNCHANGED <<wait_tasks_, waitvars, revent, wait_successful_, timer, deleted, place, sw>>

\* The locked part of Cancel: take the next descriptor out of the epoll.
CancelClear ==
  LET t == wl.cur.tk IN
  /\ wl.at = "clear" /\ wl.left # <<>>
  /\ Locked(t) => sw[t].at = "none"
  /\ DeleteFd(t, Head(wl.left))
  /\ wl' = [wl EXCEPT !.left = Tail(@)]
  /\ UNCHANGED <<wait_tasks_, waitvars, revent, wait_successful_, timer, deleted, place, sw>>

\* AddTaskRunnable at the end of Cancel.
CancelWake ==
  LET t == wl.cur.tk IN
  /\ wl.at = "clear" /\ wl.left = <<>>
  /\ place' = [place EXCEPT ![t] = "runnable"]
  /\ CancelReturns
  /\ UNCHANGED <<epoll, wait_tasks_, waitvars, evvars, timer, refvars, deleted, sw>>

\* The end of the timer's callback: it drops its reference.
TimeoutDone ==
  LET t == wl.cur.tk IN
  /\ wl.at = "fired"
  /\ timer' = [timer EXCEPT ![t].at = "fired"]
  /\ DecrementRef(t)
  /\ wl' = [wl EXCEPT !.at = "timeouts", !.timeouts = @ \ {wl.cur}, !.cur = NULL]
  /\ UNCHANGED <<epoll, wait_tasks_, waitvars, evvars, deleted, place, sw>>

\* Mutant: Tasks are deleted without epoll_lock_.
LoopDeleteUnlocked ==
  /\ deleted' = deleted \cup delete_list
  /\ delete_list' = {}
  /\ wl' = IF wl.at = "timeouts" /\ wl.timeouts = {} THEN NoLoop ELSE wl
  /\ UNCHANGED <<epoll, wait_tasks_, waitvars, evvars, timer, ref_count_, place, sw>>

\* Delete the Tasks of the delete list, still in epoll_lock_.
LoopDelete ==
  /\ wl.at = "timeouts" /\ wl.timeouts = {}
  /\ deleted' = deleted \cup delete_list
  /\ delete_list' = {}
  /\ wl' = NoLoop
  /\ UNCHANGED <<epoll, wait_tasks_, waitvars, evvars, timer, ref_count_, place, sw>>

-----------------------------------------------------------------------------

SchedulerSwitch(t) ==
  \/ SwitchLock(t) \/ SwitchAdd(t) \/ SwitchAddFails(t) \/ SwitchExists(t)
  \/ SwitchRollback(t) \/ SwitchFailed(t) \/ SwitchDone(t)

WaitLoop ==
  \/ LoopFetch \/ LoopEvent \/ LoopCancel \/ LoopSwap \/ LoopSkipTimeout \/ LoopTimeout
  \/ CancelErase \/ CancelClear \/ CancelWake \/ TimeoutDone \/ LoopDelete

IoNext ==
  \/ \E t \in Task :
       \/ \E fds \in Waits[t], b \in BOOLEAN : CoSwitch(t, fds, b)
       \/ Resume(t) \/ Finish(t) \/ SchedulerSwitch(t) \/ Expire(t)
  \/ WaitLoop

IoSafety == IoInit /\ [][IoNext]_iovars

-----------------------------------------------------------------------------

Registered(t) == {f \in Fd : epoll[f] # NULL /\ epoll[f].tk = t}

\* The reference count of a Task is exact: one for the coroutine itself, one
\* for each descriptor in an epoll, one for a timer that can still run.
RefCountExact(t) ==
  ref_count_[t] = (IF place[t] = "done" THEN 0 ELSE 1) + Cardinality(Registered(t))
                    + (IF timer[t].at \in {"set", "expired", "firing"} THEN 1 ELSE 0)

\* A deleted Task is out of reach: of the epolls, of events fetched and not
\* yet handled, of wait_tasks_ and of its timer.
DeletedUnreachable(t) ==
  t \in deleted =>
    /\ place[t] = "done" /\ Registered(t) = {} /\ t \notin wait_tasks_
    /\ timer[t].at \notin {"set", "expired", "firing"}
    /\ \A e \in wl.evs : e.st.tk # t
    /\ \A s \in wl.tasks : s.tk # t

\* The reference count of a Task is exact, and none that was deleted can be
\* reached (Task::IncrementRef, DecrementRef and the deletion at the end of
\* IoWait::WaitLoop), unless a registration was deleted in the name of a
\* coroutine that did not make it.
RefCountSafe ==
  \A t \in Task : "delete" \notin strayed[t] => RefCountExact(t) /\ DeletedUnreachable(t)

\* The epolls and wait_tasks_ agree.  When a coroutine runs again, none of its
\* descriptors is left in an epoll, although events arrive while others are
\* still being added, unless a Cancel for an earlier wait woke it; and a
\* coroutine that waits can be woken: one of its descriptors is registered, for
\* this very wait, unless the registration was deleted in another's name.
RegisteredWhileWaiting ==
  \A t \in Task :
    /\ "cancel" \notin strayed[t]
       /\ ((place[t] = "runnable" /\ sw[t].at = "none")
             \/ place[t] \in {"running", "asleep", "done"}) => Registered(t) = {}
    /\ "delete" \notin strayed[t] /\ t \in wait_tasks_ /\ sw[t].at = "none"
         => \E f \in Registered(t) : epoll[f].id = io_block_id_[t]

\* A coroutine is made runnable once for a wait: whoever takes it out of
\* wait_tasks_, Cancel or SchedulerSwitch, finds it blocked, even when it is a
\* Cancel for an earlier wait.
WokenOnce ==
  /\ \A t \in wait_tasks_ : place[t] = "blocked"
  /\ wl.at = "clear" => place[wl.cur.tk] = "blocked" /\ wl.cur.tk \notin wait_tasks_

\* The assertion in poll, when the coroutine runs again: wait_successful_ is
\* the number of descriptors with a result event.
PollAsserts(t) ==
  place[t] = "runnable" /\ sw[t].at = "none" /\ wait_successful_[t] > 0
    => wait_successful_[t] = Cardinality(revent[t])

\* The assertion in poll holds for every coroutine
\* (assert(n == (int)tk->GetIoWaitData().wait_successful_)).
PollCountExact == \A t \in Task : PollAsserts(t)

\* The assertion in poll can fail only in a wait to which an event strayed
\* (WaitLoop adds to wait_successful_ before it looks at the id), or after a
\* Cancel for an earlier wait has left a descriptor registered.
PollCountOfWait ==
  \A t \in Task : strayed[t] \cap {"event", "cancel"} = {} => PollAsserts(t)

\* Nothing reached the wrong wait.
NothingStrayed == strayed = [t \in Task |-> {}]
=============================================================================
