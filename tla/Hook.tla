-------------------------------- MODULE Hook --------------------------------
(***************************************************************************)
(* The hooked system calls (linux_glibc_hook.cpp) over IoWait.             *)
(*                                                                         *)
(* A call on a blocking socket makes the socket non-blocking for the time  *)
(* of the call: it reads the flags, sets O_NONBLOCK, tries, waits in epoll *)
(* when the call would block, tries again and clears the flag.  The flag   *)
(* belongs to the descriptor, which other coroutines use at the same time. *)
(*                                                                         *)
(* hook[t].at:  none    outside of a hooked call                           *)
(*              set     flags read, O_NONBLOCK not set yet                 *)
(*              call    before the first call of the original function     *)
(*              wait    from IOBlockSwitch on                              *)
(*              again   before the second call of the function             *)
(*              sleep   yielded in SleepSwitch                             *)
(*              timer   in wait_tasks_ of SleepWait                        *)
(*              restore about to clear O_NONBLOCK and return               *)
(*              unset   about to clear it and call the function once more  *)
(*              block   in that call, on a blocking socket                 *)
(***************************************************************************)
EXTENDS IoWait

CONSTANTS
  DescOf,    \* the descriptor of each member of Fd
  Calls,     \* members of Fd each coroutine reads from or writes to
  Connects,  \* members of Fd each coroutine connects
  Sleeper    \* coroutines that call sleep

ASSUME HookAssumption ==
  /\ \A t \in Task : Calls[t] \subseteq Fd /\ Connects[t] \subseteq Fd
  /\ Sleeper \subseteq Task

VARIABLES
  nonblock,  \* O_NONBLOCK of each descriptor
  hook,      \* the hooked call each coroutine is in
  sleepers   \* SleepWait::wait_tasks_

hookvars == <<nonblock, hook, sleepers>>
hvars == <<iovars, hookvars>>

Desc == {DescOf[f] : f \in Fd}
NoHook == [fn |-> "none", at |-> "none", f |-> NULL]

HookInit ==
  /\ IoInit
  /\ nonblock = [d \in Desc |-> FALSE]
  /\ hook = [t \in Task |-> NoHook]
  /\ sleepers = {}

At(t, fn, a) == place[t] = "running" /\ hook[t].fn \in fn /\ hook[t].at = a

Goto(t, a) == hook' = [hook EXCEPT ![t].at = a]

Return(t) == hook' = [hook EXCEPT ![t] = NoHook]

-----------------------------------------------------------------------------
(* read_write_mode, used by accept, read, ..., sendmsg, and connect *)

\* F_GETFL on a blocking socket.  On a non-blocking one, on another kind of
\* file, or outside of a coroutine, the original function is called and
\* nothing changes.
GetFlags(t, fn, f) ==
  /\ At(t, {"none"}, "none") /\ io_block_id_[t] < MaxId[t]
  /\ ~nonblock[DescOf[f]]
  /\ hook' = [hook EXCEPT ![t] = [fn |-> fn, at |-> "set", f |-> f]]
  /\ UNCHANGED <<iovars, nonblock, sleepers>>

\* accept, read, readv, recv, recvfrom, recvmsg wait for EPOLLIN, and write,
\* writev, send, sendto, sendmsg for EPOLLOUT.
ReadCall(t, f) == EpollOf[f] = 0 /\ GetFlags(t, "rw", f)

WriteCall(t, f) == EpollOf[f] = 1 /\ GetFlags(t, "rw", f)

Connect(t, f) == EpollOf[f] = 1 /\ GetFlags(t, "connect", f)

\* F_SETFL.
SetNonblock(t) ==
  /\ At(t, {"rw", "connect"}, "set")
  /\ nonblock' = [nonblock EXCEPT ![DescOf[hook[t].f]] = TRUE]
  /\ Goto(t, "call")
  /\ UNCHANGED <<iovars, sleepers>>

\* The function returns, with a result or an error.  It cannot be told from
\* the outside that another coroutine has made the socket blocking meanwhile:
\* then the call may hold up the thread.
CallCompletes(t) ==
  /\ At(t, {"rw", "connect"}, "call") \/ At(t, {"rw"}, "again")
  /\ Goto(t, "restore")
  /\ UNCHANGED <<iovars, nonblock, sleepers>>

\* EAGAIN or EINPROGRESS: wait for the descriptor, connect without a timeout.
CallWaits(t, with_timeout) ==
  /\ At(t, {"rw", "connect"}, "call")
  /\ nonblock[DescOf[hook[t].f]]
  /\ hook[t].fn = "connect" => ~with_timeout
  /\ CoSwitch(t, <<hook[t].f>>, with_timeout)
  /\ Goto(t, "wait")
  /\ UNCHANGED <<nonblock, sleepers>>

\* is_timeout: there was a timer and it could not be cancelled any more.
IsTimeout(t) == timer[t].at = "fired"

\* Mutant: a call that timed out returns with the socket as it is.
AfterWaitTimeoutReturns(t) ==
  /\ At(t, {"rw", "connect"}, "wait")
  /\ CASE hook[t].fn = "connect"     -> Goto(t, "restore")
       [] wait_successful_[t] > 0    -> Goto(t, "again")
       [] IsTimeout(t)               -> Return(t)
       [] OTHER                      -> Goto(t, "unset")
  /\ UNCHANGED <<iovars, nonblock, sleepers>>

\* After the wait.  connect asks for the error of the socket, or reports that
\* it could not wait.  A read or write calls the function again after an
\* event, gives up after a timeout, and if the wait was refused otherwise,
\* calls the function once the socket is blocking.
AfterWait(t) ==
  /\ At(t, {"rw", "connect"}, "wait")
  /\ Goto(t, CASE hook[t].fn = "connect"     -> "restore"
               [] wait_successful_[t] > 0    -> "again"
               [] IsTimeout(t)               -> "restore"
               [] OTHER                      -> "unset")
  /\ UNCHANGED <<iovars, nonblock, sleepers>>

\* Clear O_NONBLOCK, whoever set it, and return, or go on to the blocking call.
Restore(t) ==
  /\ At(t, {"rw", "connect"}, "restore") \/ At(t, {"rw"}, "unset")
  /\ nonblock' = [nonblock EXCEPT ![DescOf[hook[t].f]] = FALSE]
  /\ IF hook[t].at = "restore" THEN Return(t) ELSE Goto(t, "block")
  /\ UNCHANGED <<iovars, sleepers>>

\* The blocking call returns.
BlockingCall(t) ==
  /\ At(t, {"rw"}, "block")
  /\ Return(t)
  /\ UNCHANGED <<iovars, nonblock, sleepers>>

-----------------------------------------------------------------------------
(* SleepWait: a sleep is one timer, which nobody cancels, and which is     *)
(* called once (FiredOrCancelled and EveryTimerHandled of CoTimer).        *)

notsleep == <<epoll, wait_tasks_, waitvars, evvars, timer, refvars, deleted, sw, wl, nonblock>>

\* CoSwitch: the coroutine yields.
SleepSwitch(t, fn) ==
  /\ hook' = [hook EXCEPT ![t].fn = fn, ![t].at = "sleep"]
  /\ place' = [place EXCEPT ![t] = "asleep"]
  /\ UNCHANGED <<notsleep, sleepers>>

\* SchedulerSwitch: enter wait_tasks_, then set the timer.
SleepEnter(t) ==
  /\ place[t] = "asleep" /\ hook[t].at = "sleep"
  /\ sleepers' = sleepers \cup {t}
  /\ Goto(t, "timer")
  /\ UNCHANGED <<notsleep, place>>

\* The timer calls Wakeup, by way of WaitLoop.
SleepWakeup(t) ==
  /\ t \in sleepers
  /\ sleepers' = sleepers \ {t}
  /\ place' = [place EXCEPT ![t] = "running"]
  /\ Return(t)
  /\ UNCHANGED notsleep

\* sleep and nanosleep.
Sleep(t) ==
  /\ At(t, {"none"}, "none") /\ io_block_id_[t] < MaxId[t]
  /\ SleepSwitch(t, "sleep")

-----------------------------------------------------------------------------
(* poll and select.  With a timeout of zero they call the original         *)
(* function and change nothing; without descriptors they are a sleep.      *)

\* Both wait for the descriptors they are given: poll for each entry, select
\* for each descriptor in one of its sets.
WaitForMany(t, fn, fds, with_timeout) ==
  /\ At(t, {"none"}, "none")
  /\ CoSwitch(t, fds, with_timeout)
  /\ hook' = [hook EXCEPT ![t] = [NoHook EXCEPT !.fn = fn, !.at = "wait"]]
  /\ UNCHANGED <<nonblock, sleepers>>

Poll(t, fds, with_timeout) == WaitForMany(t, "poll", fds, with_timeout)

Select(t, fds, with_timeout) ==
  /\ \A i, j \in 1..Len(fds) : i # j => fds[i] # fds[j]
  /\ WaitForMany(t, "select", fds, with_timeout)

\* A refused wait with a timeout sleeps for the timeout before it looks at the
\* descriptors once.
SleepIfRefused(t) ==
  IF wait_successful_[t] = 0 /\ ~IsTimeout(t) /\ timed[t]
    THEN SleepSwitch(t, hook[t].fn)
    ELSE Return(t) /\ UNCHANGED <<iovars, nonblock, sleepers>>

\* Timeout: return 0.  Events: return their number, which poll asserts to be
\* wait_successful_ (PollCountExact).
AfterPoll(t) == At(t, {"poll"}, "wait") /\ SleepIfRefused(t)

AfterSelect(t) == At(t, {"select"}, "wait") /\ SleepIfRefused(t)

-----------------------------------------------------------------------------

\* What the coroutine does once it is in a hooked call.
Continue(t) ==
  \/ SetNonblock(t) \/ CallCompletes(t) \/ AfterWait(t) \/ Restore(t)
  \/ AfterPoll(t) \/ AfterSelect(t) \/ SleepEnter(t) \/ SleepWakeup(t)

HookNext ==
  \/ \E t \in Task :
       \/ \E f \in Calls[t] : ReadCall(t, f) \/ WriteCall(t, f)
       \/ \E f \in Connects[t] : Connect(t, f)
       \/ \E b \in BOOLEAN : CallWaits(t, b)
       \/ \E fds \in Waits[t], b \in BOOLEAN : Poll(t, fds, b) \/ Select(t, fds, b)
       \/ Continue(t) \/ BlockingCall(t)
       \/ t \in Sleeper /\ Sleep(t)
       \/ At(t, {"none"}, "none") /\ Finish(t) /\ UNCHANGED hookvars
       \/ (Resume(t) \/ SchedulerSwitch(t) \/ Expire(t)) /\ UNCHANGED hookvars
  \/ WaitLoop /\ UNCHANGED hookvars

\* The coroutine is about to call the function on a blocking socket.
MayBlock(t) ==
  \/ hook[t].at = "block"
  \/ hook[t].at \in {"call", "again"} /\ ~nonblock[DescOf[hook[t].f]]

\* As in IoWait; a coroutine that runs goes on with its call, except that a
\* call on a blocking socket may take for ever.
HookFairness ==
  /\ \A t \in Task :
       /\ WF_hvars(SchedulerSwitch(t) /\ UNCHANGED hookvars)
       /\ WF_hvars(Resume(t) /\ UNCHANGED hookvars)
       /\ WF_hvars(Expire(t) /\ UNCHANGED hookvars)
       /\ WF_hvars(Continue(t) /\ ~MayBlock(t))
  /\ WF_hvars(WaitLoop /\ UNCHANGED hookvars)

HookSpec == HookInit /\ [][HookNext]_hvars /\ HookFairness

-----------------------------------------------------------------------------

\* The hooks leave a socket as the user made it: O_NONBLOCK is set only while
\* a coroutine is in a call that is going to clear it, although the coroutines
\* of one socket set and clear the flag without regard to each other.
FlagRestored ==
  \A d \in Desc :
    nonblock[d] => \E t \in Task :
      /\ hook[t].at \in {"call", "wait", "again", "restore", "unset"}
      /\ hook[t].f \in Fd /\ DescOf[hook[t].f] = d

\* A hooked call with a timeout ends, unless it comes to call the original
\* function on a blocking socket.
TimedCallEnds ==
  \A t \in Task :
    hook[t].at = "wait" /\ timed[t] ~> hook[t].at = "none" \/ MayBlock(t)
=============================================================================
