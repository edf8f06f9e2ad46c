------------------------------ MODULE Scheduler ------------------------------
(***************************************************************************)
(* Scheduler::Run and DoRunnable (scheduler.cpp) with Processer::Run       *)
(* (processer.cpp): threads take Processers from a shared list, hand new   *)
(* coroutines to them and run the coroutines of the one they hold.  What a *)
(* coroutine does on its turn is open: it yields, blocks, ends or throws.  *)
(* The structures it may block on (BlockObject, the user wait table,       *)
(* IoWait, SleepWait) are one set here: a coroutine enters it after the    *)
(* switch back to the thread, and anybody may wake it up from then on.     *)
(*                                                                         *)
(* A thread is at                                                          *)
(*   idle     between two calls of Scheduler::Run                          *)
(*   create   creating Processers, with proc_init_lock_ held               *)
(*   loop     at the head of the loop of DoRunnable                        *)
(*   picked   with a Processer, before it looks at run_tasks_              *)
(*   picking  in the cherry-pick loop                                      *)
(*   task     in the loop of Processer::Run                                *)
(*   blocked  back from the first coroutine of rest, which has blocked     *)
(*   end      after Processer::Run returned                                *)
(*   throw    in the catch block of DoRunnable                             *)
(***************************************************************************)
EXTENDS Naturals, Sequences, FiniteSets

LOCAL INSTANCE Functions

CONSTANTS
  Thread,          \* threads that call Scheduler::Run
  Task,            \* coroutines that may be created
  processer_count, \* CoroutineOptions::processer_count
  Failures,        \* which of getcontext and swapcontext may fail
  NULL

Proc == 1..processer_count

ASSUME SchedulerAssumption ==
  /\ IsFiniteSet(Thread) /\ IsFiniteSet(Task)
  /\ processer_count \in Nat \ {0}
  /\ Failures \subseteq {"getcontext", "swapcontext"}
  /\ NULL \notin Proc

VARIABLES
  run_proc_list_, \* Scheduler::run_proc_list_
  proc_count,     \* Scheduler::proc_count
  run_tasks_,     \* Scheduler::run_tasks_: coroutines without a Processer
  task_count_,    \* Scheduler::task_count_
  proc_tasks,     \* Processer::task_count_ of each Processer
  runnable_list_, \* Processer::runnable_list_ of each Processer
  proc_,          \* Task::proc_ of each coroutine
  life,           \* new, counted (in CreateTask), alive, done or fatal
  waiting,        \* coroutines in a structure they blocked on
  failed,         \* which of the Failures have happened
  thr             \* the state of each thread

schedvars == <<run_proc_list_, proc_count>>
taskvars == <<run_tasks_, task_count_, life>>
procvars == <<proc_tasks, runnable_list_, proc_>>
svars == <<schedvars, taskvars, procvars, waiting, failed, thr>>

\* i, proc_c and average are the locals of Run and DoRunnable; kept and rest
\* are the parts of Processer::Run's slist before the current coroutine and
\* from it on; done is done_count.
IdleThread == [at |-> "idle", proc |-> NULL, i |-> 0, proc_c |-> 0,
               average |-> 0, kept |-> <<>>, rest |-> <<>>, done |-> 0]

SchedInit ==
  /\ run_proc_list_ = <<>> /\ proc_count = 0
  /\ run_tasks_ = <<>> /\ task_count_ = 0
  /\ proc_tasks = [p \in Proc |-> 0]
  /\ runnable_list_ = [p \in Proc |-> <<>>]
  /\ proc_ = [t \in Task |-> NULL]
  /\ life = [t \in Task |-> "new"]
  /\ waiting = {} /\ failed = {}
  /\ thr = [h \in Thread |-> IdleThread]

-----------------------------------------------------------------------------
(* Creating a coroutine *)

\* CreateTask counts the coroutine before anybody can see it.
CreateCount(t) ==
  /\ life[t] = "new"
  /\ life' = [life EXCEPT ![t] = "counted"]
  /\ task_count_' = task_count_ + 1
  /\ UNCHANGED <<schedvars, run_tasks_, procvars, waiting, thr, failed>>

\* AddTaskRunnable of a coroutine without a Processer.
CreatePush(t) ==
  /\ life[t] = "counted"
  /\ life' = [life EXCEPT ![t] = "alive"]
  /\ run_tasks_' = Append(run_tasks_, t)
  /\ UNCHANGED <<schedvars, task_count_, procvars, waiting, thr, failed>>

-----------------------------------------------------------------------------
(* Scheduler::Run *)

ProcInitLocked == \E h \in Thread : thr[h].at = "create"

\* The try_lock of proc_init_lock_ succeeds and Processers are missing.
StartCreate(h) ==
  /\ thr[h].at = "idle"
  /\ proc_count < processer_count /\ ~ProcInitLocked
  /\ thr' = [thr EXCEPT ![h].at = "create", ![h].i = proc_count]
  /\ UNCHANGED <<schedvars, taskvars, procvars, waiting, failed>>

NewProcesser(h) ==
  /\ thr[h].at = "create" /\ thr[h].i < processer_count
  /\ run_proc_list_' = Append(run_proc_list_, thr[h].i + 1)
  /\ thr' = [thr EXCEPT ![h].i = @ + 1]
  /\ UNCHANGED <<proc_count, taskvars, procvars, waiting, failed>>

\* DoRunnable reads the number of Processers in the list once.
Looping(h) ==
  [thr EXCEPT ![h] = [IdleThread EXCEPT !.at = "loop",
                                        !.proc_c = Len(run_proc_list_)]]

EndCreate(h) ==
  /\ thr[h].at = "create" /\ thr[h].i = processer_count
  /\ proc_count' = thr[h].i
  /\ thr' = Looping(h)
  /\ UNCHANGED <<run_proc_list_, taskvars, procvars, waiting, failed>>

StartRunnable(h) ==
  /\ thr[h].at = "idle"
  /\ proc_count = processer_count \/ ProcInitLocked
  /\ thr' = Looping(h)
  /\ UNCHANGED <<schedvars, taskvars, procvars, waiting, failed>>

-----------------------------------------------------------------------------
(* Scheduler::DoRunnable *)

\* Mutant: the Processer stays in the list while a thread runs it.
PopProcPeek(h) ==
  /\ thr[h].at = "loop" /\ thr[h].i < thr[h].proc_c
  /\ run_proc_list_ # <<>>
  /\ thr' = [thr EXCEPT ![h].at = "picked", ![h].proc = Head(run_proc_list_)]
  /\ UNCHANGED <<schedvars, taskvars, procvars, waiting, failed>>

PopProc(h) ==
  /\ thr[h].at = "loop" /\ thr[h].i < thr[h].proc_c
  /\ run_proc_list_ # <<>>
  /\ run_proc_list_' = Tail(run_proc_list_)
  /\ thr' = [thr EXCEPT ![h].at = "picked", ![h].proc = Head(run_proc_list_)]
  /\ UNCHANGED <<proc_count, taskvars, procvars, waiting, failed>>

\* The loop is over, or other threads hold every Processer.
EndRunnable(h) ==
  /\ thr[h].at = "loop"
  /\ thr[h].i = thr[h].proc_c \/ run_proc_list_ = <<>>
  /\ thr' = [thr EXCEPT ![h] = IdleThread]
  /\ UNCHANGED <<schedvars, taskvars, procvars, waiting, failed>>

\* Mutant: the division rounds down.
CeilRoundsDown(a, b) == a \div b

Ceil(a, b) == a \div b + (IF a % b = 0 THEN 0 ELSE 1)

\* The share of the coroutines a Processer may hold, 0 when none is new.
Average(h) ==
  /\ thr[h].at = "picked"
  /\ thr' = [thr EXCEPT ![h].at = "picking",
                        ![h].average = IF run_tasks_ = <<>> THEN 0
                                       ELSE Ceil(task_count_, thr[h].proc_c)]
  /\ UNCHANGED <<schedvars, taskvars, procvars, waiting, failed>>

CanPick(h) ==
  /\ thr[h].at = "picking"
  /\ proc_tasks[thr[h].proc] < thr[h].average
  /\ run_tasks_ # <<>>

\* Processer::AddTaskRunnable of a coroutine in state init.
CherryPick(h) ==
  LET p == thr[h].proc
      t == Head(run_tasks_)
  IN
  /\ CanPick(h)
  /\ run_tasks_' = Tail(run_tasks_)
  /\ proc_' = [proc_ EXCEPT ![t] = p]
  /\ proc_tasks' = [proc_tasks EXCEPT ![p] = @ + 1]
  /\ runnable_list_' = [runnable_list_ EXCEPT ![p] = Append(@, t)]
  /\ UNCHANGED <<schedvars, task_count_, life, waiting, thr, failed>>

\* getcontext fails: the coroutine is deleted and the exception leaves
\* DoRunnable outside of its try block, with the Processer in nobody's hands.
CherryPickFails(h) ==
  /\ "getcontext" \in Failures
  /\ CanPick(h)
  /\ run_tasks_' = Tail(run_tasks_)
  /\ life' = [life EXCEPT ![Head(run_tasks_)] = "fatal"]
  /\ thr' = [thr EXCEPT ![h] = IdleThread]
  /\ failed' = failed \cup {"getcontext"}
  /\ UNCHANGED <<schedvars, task_count_, procvars, waiting>>

\* Processer::Run empties the list of runnable coroutines.
StartProc(h) ==
  LET p == thr[h].proc IN
  /\ thr[h].at = "picking" /\ ~CanPick(h)
  /\ runnable_list_' = [runnable_list_ EXCEPT ![p] = <<>>]
  /\ thr' = [thr EXCEPT ![h].at = "task", ![h].rest = runnable_list_[p],
                        ![h].average = 0]
  /\ UNCHANGED <<schedvars, taskvars, proc_tasks, proc_, waiting, failed>>

\* Mutant: the catch block does not subtract done_count.
EndProcKeepsCount(h) ==
  /\ thr[h].at \in {"end", "throw"}
  /\ task_count_' = task_count_ - (IF thr[h].at = "end" THEN thr[h].done ELSE 0)
  /\ run_proc_list_' = Append(run_proc_list_, thr[h].proc)
  /\ thr' = [thr EXCEPT ![h] =
               IF @.at = "throw" THEN IdleThread
               ELSE [IdleThread EXCEPT !.at = "loop", !.i = thr[h].i + 1,
                                       !.proc_c = thr[h].proc_c]]
  /\ UNCHANGED <<proc_count, run_tasks_, life, procvars, waiting, failed>>

\* Mutant: the catch block does not push the Processer back.
EndProcLosesProc(h) ==
  /\ thr[h].at \in {"end", "throw"}
  /\ task_count_' = task_count_ - thr[h].done
  /\ run_proc_list_' = IF thr[h].at = "throw" THEN run_proc_list_
                       ELSE Append(run_proc_list_, thr[h].proc)
  /\ thr' = [thr EXCEPT ![h] =
               IF @.at = "throw" THEN IdleThread
               ELSE [IdleThread EXCEPT !.at = "loop", !.i = thr[h].i + 1,
                                       !.proc_c = thr[h].proc_c]]
  /\ UNCHANGED <<proc_count, run_tasks_, life, procvars, waiting, failed>>

\* The coroutines that finished leave the count and the Processer returns to
\* the list; an exception then leaves Run.
EndProc(h) ==
  /\ thr[h].at \in {"end", "throw"}
  /\ task_count_' = task_count_ - thr[h].done
  /\ run_proc_list_' = Append(run_proc_list_, thr[h].proc)
  /\ thr' = [thr EXCEPT ![h] =
               IF @.at = "throw" THEN IdleThread
               ELSE [IdleThread EXCEPT !.at = "loop", !.i = thr[h].i + 1,
                                       !.proc_c = thr[h].proc_c]]
  /\ UNCHANGED <<proc_count, run_tasks_, life, procvars, waiting, failed>>

-----------------------------------------------------------------------------
(* Processer::Run: one step for each way a coroutine's turn can end *)

InTask(h) == thr[h].at = "task" /\ thr[h].rest # <<>>
Current(h) == Head(thr[h].rest)

\* CoYield in state runnable: the coroutine stays in slist.
TaskYields(h) ==
  /\ InTask(h)
  /\ thr' = [thr EXCEPT ![h].kept = Append(@, Current(h)), ![h].rest = Tail(@)]
  /\ UNCHANGED <<schedvars, taskvars, procvars, waiting, failed>>

\* CoYield in state io_block, sleep, sys_block or user_block.
TaskBlocks(h) ==
  /\ InTask(h)
  /\ thr' = [thr EXCEPT ![h].at = "blocked"]
  /\ UNCHANGED <<schedvars, taskvars, procvars, waiting, failed>>

\* The thread then moves it to what it waits for.
SwitchWaits(h) ==
  /\ thr[h].at = "blocked"
  /\ waiting' = waiting \cup {Current(h)}
  /\ thr' = [thr EXCEPT ![h].at = "task", ![h].rest = Tail(@)]
  /\ UNCHANGED <<schedvars, taskvars, procvars, failed>>

\* AddWaitTask refuses it, or all its epoll_ctl calls failed.
SwitchRefused(h) ==
  /\ thr[h].at = "blocked"
  /\ runnable_list_' =
       [runnable_list_ EXCEPT ![thr[h].proc] = Append(@, Current(h))]
  /\ thr' = [thr EXCEPT ![h].at = "task", ![h].rest = Tail(@)]
  /\ UNCHANGED <<schedvars, taskvars, proc_tasks, proc_, waiting, failed>>

\* A wakeup is stored in the user wait table: it stays in slist.
SwitchKeeps(h) ==
  /\ thr[h].at = "blocked"
  /\ thr' = [thr EXCEPT ![h].at = "task",
                        ![h].kept = Append(@, Current(h)), ![h].rest = Tail(@)]
  /\ UNCHANGED <<schedvars, taskvars, procvars, waiting, failed>>

Finish(h) ==
  /\ InTask(h)
  /\ life' = [life EXCEPT ![Current(h)] = "done"]
  /\ proc_tasks' = [proc_tasks EXCEPT ![thr[h].proc] = @ - 1]
  /\ UNCHANGED <<schedvars, run_tasks_, task_count_, proc_, waiting, failed>>

TaskDone(h) ==
  /\ Finish(h)
  /\ thr' = [thr EXCEPT ![h].rest = Tail(@), ![h].done = @ + 1]
  /\ UNCHANGED runnable_list_

\* Mutant: an exception leaves Run without the push of slist.
TaskThrowsDrops(h) ==
  /\ Finish(h)
  /\ thr' = [thr EXCEPT ![h].at = "throw", ![h].done = @ + 1,
                        ![h].kept = <<>>, ![h].rest = <<>>]
  /\ UNCHANGED runnable_list_

\* It ended by an exception to be rethrown here (eptr_): slist goes back to
\* the runnable list first.
TaskThrows(h) ==
  /\ Finish(h)
  /\ runnable_list_' = [runnable_list_ EXCEPT
                          ![thr[h].proc] = @ \o thr[h].kept \o Tail(thr[h].rest)]
  /\ thr' = [thr EXCEPT ![h].at = "throw", ![h].done = @ + 1,
                        ![h].kept = <<>>, ![h].rest = <<>>]

\* swapcontext fails: only the current coroutine goes back to the list.
SwapFails(h) ==
  /\ "swapcontext" \in Failures
  /\ InTask(h)
  /\ runnable_list_' =
       [runnable_list_ EXCEPT ![thr[h].proc] = Append(@, Current(h))]
  /\ thr' = [thr EXCEPT ![h].at = "throw", ![h].kept = <<>>, ![h].rest = <<>>]
  /\ failed' = failed \cup {"swapcontext"}
  /\ UNCHANGED <<schedvars, taskvars, proc_tasks, proc_, waiting>>

\* The end of slist.
EndTasks(h) ==
  /\ thr[h].at = "task" /\ thr[h].rest = <<>>
  /\ runnable_list_' = [runnable_list_ EXCEPT ![thr[h].proc] = @ \o thr[h].kept]
  /\ thr' = [thr EXCEPT ![h].at = "end", ![h].kept = <<>>]
  /\ UNCHANGED <<schedvars, taskvars, proc_tasks, proc_, waiting, failed>>

\* AddTaskRunnable of a coroutine that has a Processer, by whoever wakes it.
WakeTask(t) ==
  /\ t \in waiting
  /\ waiting' = waiting \ {t}
  /\ runnable_list_' = [runnable_list_ EXCEPT ![proc_[t]] = Append(@, t)]
  /\ UNCHANGED <<schedvars, taskvars, proc_tasks, proc_, thr, failed>>

-----------------------------------------------------------------------------

TaskTurn(h) ==
  TaskYields(h) \/ TaskBlocks(h) \/ TaskDone(h) \/ TaskThrows(h) \/ SwapFails(h)

Switch(h) == SwitchWaits(h) \/ SwitchRefused(h) \/ SwitchKeeps(h)

ThreadStep(h) ==
  \/ StartCreate(h) \/ NewProcesser(h) \/ EndCreate(h) \/ StartRunnable(h)
  \/ PopProc(h) \/ EndRunnable(h) \/ Average(h)
  \/ CherryPick(h) \/ CherryPickFails(h) \/ StartProc(h) \/ EndProc(h)
  \/ TaskTurn(h) \/ Switch(h) \/ EndTasks(h)

SchedNext ==
  \/ \E t \in Task : CreateCount(t) \/ CreatePush(t) \/ WakeTask(t)
  \/ \E h \in Thread : ThreadStep(h)

\* A thread keeps calling Run and every coroutine it enters comes back.
SchedFairness == \A h \in Thread : WF_svars(ThreadStep(h))

SchedSafety == SchedInit /\ [][SchedNext]_svars

SchedSpec == SchedSafety /\ SchedFairness

-----------------------------------------------------------------------------

Positions(s, e) == {j \in 1..Len(s) : s[j] = e}

\* The places that hold a coroutine: in the list of new ones, in the runnable
\* list of a Processer, in the slist of a thread, in what it waits for.
Places(t) ==
  {<<"new", NULL, j>> : j \in Positions(run_tasks_, t)}
    \cup (UNION {{<<"runnable", p, j>> : j \in Positions(runnable_list_[p], t)} : p \in Proc})
    \cup (UNION {{<<"kept", h, j>> : j \in Positions(thr[h].kept, t)} : h \in Thread})
    \cup (UNION {{<<"rest", h, j>> : j \in Positions(thr[h].rest, t)} : h \in Thread})
    \cup (IF t \in waiting THEN {<<"waiting", NULL, 1>>} ELSE {})

\* Every living coroutine is in exactly one place, and no other is in any:
\* the lists are intrusive (one hook per Task), and a coroutine in none of
\* them would never run again.  Yields, refused waits, wakeups by other
\* threads in the middle of a turn and the rethrow of an exception keep this;
\* a failing getcontext or swapcontext may lose coroutines, but doubles none.
TaskInOnePlace ==
  \A t \in Task :
    /\ Cardinality(Places(t)) <= 1
    /\ failed = {} => Cardinality(Places(t)) = IF life[t] = "alive" THEN 1 ELSE 0

\* How often a Processer is in the list or in the hands of a thread.
ProcPlaces(p) ==
  Cardinality(Positions(run_proc_list_, p))
    + Cardinality({h \in Thread : thr[h].proc = p})

\* A thread that runs a coroutine holds the Processer it belongs to, and no
\* other thread does: coroutines of a Processer share one stack, so two of
\* them may never run at once (processer.cpp SaveStack, RestoreStack).
StackNotShared ==
  /\ \A p \in Proc : ProcPlaces(p) <= 1
  /\ \A h \in Thread, t \in Task :
       Positions(thr[h].kept, t) \cup Positions(thr[h].rest, t) # {}
         => proc_[t] = thr[h].proc /\ thr[h].proc # NULL
  /\ \A p \in Proc, t \in Task : Positions(runnable_list_[p], t) # {} => proc_[t] = p

\* A Processer is lost to no path out of DoRunnable, exceptions included.
ProcNotLost ==
  proc_count = processer_count /\ "getcontext" \notin failed
    => \A p \in Proc : ProcPlaces(p) = 1

\* The coroutines that the threads have finished in their present turns, as
\* the thread and the number that done_count had reached.
DoneTurns == UNION {{h} \X (1..thr[h].done) : h \in Thread}

\* The scheduler's count covers every coroutine that is not done, so that
\* IsEmpty, on which RunUntilNoTask returns, is never true too early; and
\* nothing is counted for ever: it exceeds them only by what a thread will
\* subtract at the end of its turn.
TaskCountExact ==
  "getcontext" \notin failed =>
    /\ task_count_ = Cardinality({t \in Task : life[t] \in {"counted", "alive"}})
                       + Cardinality(DoneTurns)
    /\ \A p \in Proc :
         proc_tasks[p] = Cardinality({t \in Task : life[t] = "alive" /\ proc_[t] = p})

\* A new coroutine and one that is runnable get their turn: the last new one is
\* handed to a Processer although the share of each is rounded, and a list that
\* came back by an exception of another coroutine is not left behind.
TaskGetsTurn ==
  [](failed = {}) => \A t \in Task :
    t \in Range(run_tasks_) \/ (\E p \in Proc : t \in Range(runnable_list_[p]))
      ~> \E h \in Thread : InTask(h) /\ Current(h) = t

\* No Task and no Processer is lost or in two places, and task_count_ is the
\* number of Tasks (CreateTask, Run, DoRunnable and Processer::Run).
ScheduleExact == TaskInOnePlace /\ ProcNotLost /\ TaskCountExact
=============================================================================
