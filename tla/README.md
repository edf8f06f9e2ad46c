# Verification of the coroutine and network libraries

TLA+ models of `coroutine/` (a stackful coroutine library for C++11: scheduler,
blocking objects, channels, timers, hooked system calls, a thread pool), of
`network/`, which is built on it (tcp, udp and their options), and of the parsers
in `http/`. The models are checked with TLC on small instances. The scheduler,
the blocking objects, the timers, the intrusive lists, the hooked system calls over
epoll and the tcp and udp endpoints are also proved with TLAPS, for any number of
coroutines, threads, Processers, queues, descriptors and sessions.

`PROJECT.json` lists the components, the runs, the lines of code each definition
stands for, the hazards and which property covers each of them, and the
theorems.

## The system

A **Scheduler** owns a list of **Processers**. Threads call `Scheduler::Run`;
each takes a Processer, hands it some of the new coroutines (**Tasks**), and runs
the coroutines in its runnable list on the Processer's stack. A coroutine gives
up the thread by yielding, by ending, by throwing, or by blocking. When it
blocks it only notes what it waits for and switches back; the *thread* then
enters it in the structure it waits on, while anybody may already be waking it
up. This two-step blocking is the source of most of what can go wrong, and it
occurs four times:

| blocking on | entered by | woken by |
|---|---|---|
| a `BlockObject` (under `CoMutex`, `CoRWMutex`, `Channel`) | `AddWaitTask` | `Wakeup` |
| an entry of `user_wait_tasks_` (`co_wait`) | `TryBlockWait` | `BlockWakeup` |
| descriptors in epoll (hooked `read`, `poll`, ...) | `IoWait::SchedulerSwitch` | `IoWait::WaitLoop`, `Cancel` |
| a sleep | `SleepWait::SchedulerSwitch` | a timer |

All lists of coroutines, Processers and pool elements are **TSQueues**: doubly
linked lists through a hook in the element. `pop_all` and `pop(n)` cut an
**SList** off a queue, which its owner walks, shortens and pushes back.

**Timers** are called by the threads in `Run`. `co_await` hands a function to a
**ThreadPool** and waits on a channel of its own for the result. A **TcpSession** runs a receiving
and a sending coroutine over one socket, fed by a channel; a **TcpServer** keeps
the table of its sessions under a `CoMutex`, and a **Client** replaces its
`TcpClient`, which has at most one session, with every `Connect`. With udp, a
Server or Client owns a **UdpPoint** in the same way; its receiving coroutine and
every session id share it and may outlive the owner. **Options** are copied from
the owner down a list of links.

The **HTTP head** parser stands by itself: a graph of nodes that consumes one
character at a time, and `to_string`, which writes what was parsed. So do the
**url** of `http/` and the **endpoint** of `network/`, two readers of addresses by
regular expressions, each with a `to_string`.

## Modules

| module | models | state and actions |
|---|---|---|
| `Semaphore` | what a blocking object promises | permits and pending callers; no code |
| `BlockObject` | `block_object.cpp`, the `sys_block` case of `Processer::Run` | `wakeup_`, `wait_queue_`, `block_`; one step is one critical section of `lock_`. `CoBlockWait` is split at the yield, and `AddWaitTask` is a step of the thread |
| `CoMutex` | `co_mutex.cpp` | extends `BlockObject` with one permit; coroutines block, plain threads poll |
| `CoRWMutex` | `co_rwmutex.cpp` | extends `CoMutex`; `readers_c_` and a program counter per caller, one atomic access per step |
| `Channel` | `channel.h`, both templates | extends `BlockObject` with the three objects of a channel; one call on one of them per step |
| `ThreadPool` | `thread_pool.h`, `thread_pool.cpp`, `co_await` in `coroutine.h`, `BlockTryPop` | extends `Channel`; `elem_list_`, the place of each worker and of each awaiting coroutine. An element is named after its channel |
| `TSQueue` | `ts_queue.h` | `prev`, `next`, `check_` of each hook, `tail_` and `count_` of each queue, the SList and iterator of each owner; one action per operation, `pop(n)` turn by turn under the lock. The sequences the pointers should stand for are history variables |
| `UserWait` | the user wait table in `scheduler.cpp` | the table, the runnable lists and the list a Processer runs, with the links `BlockWakeup` follows |
| `CoTimer` | `timer.cpp`, `Scheduler::DoTimer` | the two tables of the manager, `fn_lock_` and `active_` of each timer, batches in the hands of threads, callbacks that throw |
| `Scheduler` | `Run`, `DoRunnable`, `Processer::Run` | every list a Processer or a Task can be in; what a coroutine does on its turn is open |
| `IoWait` | `linux/io_wait.cpp`, reference counts of `Task` | epoll registrations, `wait_tasks_`, timers, fetched events, reference counts, and a history of what strayed to another wait; `SchedulerSwitch` and `WaitLoop` step by step |
| `Hook` | `linux_glibc_hook.cpp`, `sleep_wait.cpp` | extends `IoWait` with `O_NONBLOCK` of each descriptor and the place of each coroutine in its hooked call |
| `TcpSession` | `TcpSession` in `tcp_detail.cpp` | two coroutines, callers of `Send` and `Shutdown`, the queues, the bytes on the wire |
| `TcpServer` | `TcpServerImpl` in `tcp_detail.cpp` | extends `TcpSession` with `Accept`, `Shutdown`, `sessions_` |
| `TcpClient` | `Client` in `network.cpp`, `TcpClient` and `TcpClientImpl` in `tcp_detail.cpp` | extends `TcpSession` with `Connect`, `Shutdown`, `connect_mtx_`, `impl_` (here `tcp_impl_`) and `sess_` |
| `Udp` | `udp_detail.cpp`, `udp.cpp`, `option.h`, the udp side of `network.cpp` | the points with their flags, sockets and receiving coroutines, session ids, options and links, the buffer and the one the present receive took; a call is one step up to where it waits or calls back |
| `HttpHead` | `http_head.cpp` | node, two buffers and head of one object; `consume`, `clear`, `set_content_length` and `set_host` are actions, `parse` and `to_string` operators |
| `Url` | `url.cpp`, `endpoint` in `abstract.cpp` | extends `HttpHead`; the text assigned last and the url object; `parse`, `from_string` and the two `to_string` are operators |
| `WaitQueues`, `Network` | | put `UserWait` beside `TSQueue`, and `TcpServer` beside `Udp`: see Composition |
| `*Proofs`, `SchedulerLemmas` | | theorems and proofs |
| `MC*` | | values of the constants for TLC |

Composition: `CoMutex`, `CoRWMutex` and `Channel` extend `BlockObject` and are
checked with its two-step blocking, not with an abstract semaphore. `TcpServer`
and `TcpClient` extend `TcpSession`, `Hook` extends `IoWait` and `ThreadPool`
extends `Channel` in the same way. `Scheduler` abstracts the four structures
a coroutine may block on to one set which it enters after the switch and which
anybody may take it from; `TcpSession` uses a queue for the channel and
`TcpServer` a one-step lock for the mutex, which is what the runs `channel` and
`co_mutex` justify. Every module takes lists for sequences, which `ListsLinked`
and its theorem justify; `UserWait`, where the code breaks the discipline that
theorem needs, has the links instead.

Four pairs of parts share no state and are explored by one run each, which of the
two being fixed in the initial state: a channel used directly or by the pool
(`part` in `ThreadPool`), the wait table or the lists (`model` in `WaitQueues`), a
tcp or a udp server (`protocol_` in `Network`), a head or an address (`object` in
`Url`). Within a run the two are a disjoint union, not a product.

A definition whose comment begins with "Mutant" is a deliberately wrong version
of the one after it. It is not part of any specification; it is there to see
that the property named in `PROJECT.json` notices.

### What is kept and what is abstracted

- Every critical section of a spin lock (`LFLock`) and every atomic access is one
  step; code that touches nothing shared is merged into the step before it.
- Coroutines, descriptors, timers, messages and sessions are model values. The
  contents of messages, stacks and addresses are left out; bytes are counted and
  carry the name of their message.
- Memory is sequentially consistent: the code shares data through spin locks and
  default `std::atomic` operations. The exceptions (plain counters written by
  several threads) are listed as hazards.
- In `Url` the name of a protocol, a host or ip address and `://` are one symbol
  each; a regular expression is modelled by what it matches first, each part taking
  as much as it can.
- In `HttpHead` a symbol is a character, or one of the words the graph spells out
  (a method, `STATUS`, `HTTP/`, and the field name `Content-Length`). Two methods
  stand for eight.
- External code is modelled from its use: epoll hands out a registration as an
  event at any time until it is removed; a socket read or write may fail at any
  time and certainly fails after `shutdown`; `accept` fails once the acceptor is
  shut down. A coroutine's body, a callback and a user are nondeterministic.

## Runs

| run | instance | checks |
|---|---|---|
| `co_mutex` | 2 mutexes, 3 coroutines, 1 thread | `NoIdleWakeup` (no coroutine waits beside a stored wakeup), `QueuedOnce`, `MutualExclusion`, `NoOvertaking` (handover in order of arrival), `LockGranted` |
| `co_rwmutex` | 3 coroutines, 1 thread; on one and on several scheduler threads | `RWExclusion`, `ReadersCounted` (the assertion in `r_unlock`), `WriterGranted` on one thread |
| `channel` | a channel of capacity 1 used by 2 coroutines and 1 thread, with and without a message queue; or 2 awaiting coroutines with 1 or 2 pool threads | `ChannelBalanced` (permits, messages and callers add up), that its three objects implement `Semaphore`, liveness included, `WriterMeetsReader`, `TryPopReturns`; `AwaitExact` (the function is run once before `co_await` returns, and skipped only for one that gave up), `AwaitReturns` |
| `user_wait` | 2 keys, 3 coroutines on 2 Processers, 1 waker, count 1, on one thread and on several; or 4 elements, 2 queues, 2 owners of SLists | `WaitTableExact` (entries mean something, a coroutine is in one place, the front is woken; on one thread, `WakesFront`: and nobody else); `ListsLinked` (the pointers say what sequences say) |
| `user_wait_many` | the same with counts 1 and 2, on one thread | `WakesFront` is **violated** (first finding) |
| `co_timer` | 2 timers, 2 threads, 2 cancellers, a clock of 3 values, callbacks that throw | `TimerExact` (the tables agree; a timer lost behind a throwing callback stays lost), `CancelExact` (fired or cancelled, never both; nothing runs after `BlockCancel`), `EveryTimerHandled` |
| `scheduler` | 2 threads, 2 Processers, 2 coroutines, failing `getcontext` and `swapcontext` | `ScheduleExact` (every Task and every Processer in one place, `task_count_` exact), `StackNotShared`, `TaskGetsTurn` |
| `hook` | 2 coroutines, 2 sockets, a descriptor that epoll may refuse, one named twice, one used by both | `WokenOnce`, `FlagRestored`, `TimedCallEnds`; and, for whatever nothing strayed to, `RefCountSafe` (counts exact, no deleted Task reachable), `RegisteredWhileWaiting`, `PollCountOfWait` |
| `io_wait_shared` | two coroutines that wait for one descriptor | `PollCountExact` is **violated** (second finding) |
| `tcp_client` | 2 sessions, 2 callers of `Connect`, 2 messages, one of two bytes | `MessageInOnePlace` (a message is in one place; in a closed session it was answered once, unless it was between the test of `Send` and its push when `OnClose` drained the channel), `StreamExact`, `ClosedOnce`, `OwnsEstablished` |
| `tcp_server` | 2 sessions, 2 messages, one of them empty; or 1 udp server and 1 udp client that make 2 endpoints, 2 buffer sizes | `ShutdownLeavesOne`, `SessionCloses`; `ReceiverExact` (no receiver without an owner but the one a late `Send` starts; after `Shutdown` one more callback at most), `OptionsReach` (options reach the endpoint, and the buffer of its next receive), `ReceiverEnds` |
| `http_head` | paths, names, values and numbers of up to 2 symbols, 2 fields; addresses of up to 8 symbols | `ReusedIsFresh` (a cleared parser reads what a new one reads), `RoundTrip` (`parse` of `to_string` gives the head back, exactly when a text can carry it), `AddressRoundTrip` (the same for url and endpoint) |

Some of these are conjunctions of parts that are named in the module
(`WaitTableExact` of `EntriesExact`, `OnePlace`, `FrontWoken` and `WakesFront`, for
instance). Such a property has several mutants in `PROJECT.json`.

### Bounds

- Three coroutines on an object give one that holds, one in the window before
  `AddWaitTask` and one queued. Two objects show that nothing leaks between them.
- `Limit` and `MaxQueue` of the channel are above what the callers can post, so
  that no permit is refused in this run; refused wakeups happen in `co_mutex`.
- Two timers with equal and different time points and two cancellers cover the
  races on one timer and the shared entry of the multimap. `Batch` is 2 for 128.
- Two threads and two Processers allow every overlap of creating, taking,
  running and returning a Processer; with two coroutines the rounded share of
  new coroutines is 1 or 2. Safety was also explored with three coroutines.
- On several threads the loop of `BlockWakeup` may come to a coroutine it did not
  pop, which is in a list already. To push it there would corrupt both lists;
  `UserWait` stops the waker before that, so that `user_wait` shows what is true up
  to then. Coroutines of `UserWait` do not end; one that ended would leave the loop
  a link in freed memory.
- In `hook` the first coroutine waits twice, so that an event or a `Cancel` of the
  first wait meets the second: it polls or selects two descriptors of which one may
  fail, or polls the same one twice, so that the wait is rolled back, or reads or
  writes. The second connects the socket the first one also uses, or sleeps. Only
  waits of the first have a timeout. An event points into the descriptors of the
  wait that registered it; if they are gone they are taken to hold their values
  still. `MaxEvents` = 2: a wait that has had two events gets no more.
- `c_multi` is 2 for 1024 in `tcp_client`, so that one write takes parts of two
  messages; in `tcp_server` each session has one message and the value does not
  matter. No session has more messages than `c_multi`. `ChanCapacity` is 1 for
  2^64 - 1, which two messages reach. `max_pack_size_` is 1 in `tcp_client`:
  the receive buffer is empty or full. In `tcp_server` it is 0, so that a receive
  fails, as it may at any time anyway: what is left in the buffer is between the
  session and its callback and does not matter to the server. The callers of
  `Connect` are alike, which `SYMMETRY` uses; that run checks no liveness.
- Two pool threads and two awaiting coroutines: one thread may be lost in a write
  to a channel nobody reads while the other serves. `First` says that at least one
  thread exists.
- Four elements in two queues give an SList with a first, a middle and a last hook
  beside a queue that is not empty. `PopMax` holds 0, a count below and one that may
  be above the length. The theorem covers every size.
- Two udp endpoints are enough for a restart or a reconnect while the old receiving
  coroutine still runs. `SetMaxPackSize` is called on the client only (`Resizers`):
  the links of a server and of a client are alike. The theorems cover any number of
  servers, clients and endpoints.
- In `http_head` two fields have equal, equivalent (upper and lower case) and
  different names of different lengths, `Content-Length` among them; numbers have
  leading zeros; a version may lack its first number; each node is also offered
  symbols it does not link. Repeated blanks need no bound. An `int` has `IntMod` = 22
  values for 2^32 and a `long` ends at `LongMax` = 87 for 2^63 - 1, so that `atoi` of
  two digits fits, wraps to a negative number, or stops at the greatest `long`. Ports
  are taken modulo `PortMod` = 11 for 2^16. `set_host` is given a text, an empty one
  and one that starts with a blank. The head was also explored with three symbols.

Deadlock is not checked where the system may really stop: `channel` (everybody
may be blocked by choice of operations), `co_timer` (the clock ends),
`tcp_client` and `tcp_server` (all sessions closed, all endpoints used up); nor in
`user_wait`, where the model stops a waker whose loop strayed.

### Fairness

- A thread in `Run` goes on, and a runnable coroutine is run: `Run` is called in a
  loop (`RunLoop`, `RunUntilNoTask`) and serves its lists in order. This gives
  weak fairness of `AddWaitTask`, `Resume`, of the steps of threads in
  `Scheduler`, `CoTimer`, and of `SchedulerSwitch`, `WaitLoop` in `IoWait`.
- A holder of a mutex unlocks it (`CoMutex`), and readers and writers end
  (`CoRWMutex`): users are assumed to. Strong fairness in `CoRWMutex` says that a
  coroutine that polls is not always run at the same unlucky moment; it is used
  only for `WriterGranted` on one thread, where the scheduler goes through its
  list round after round.
- Time passes (`Tick`, `Expire`).
- After a callback has thrown out of `Run`, the user calls `Run` again.
- A pool thread goes on (`RunLoop` is a loop without end) and an awaiting coroutine
  goes on with what it can do. Strong fairness of `AwaitTimeout` says that
  `BlockTryPop`, whose time is finite, does not go on trying for ever.
- In `Udp` a `recvfrom` on a socket that was shut down returns, and callbacks return
  (`ReceiverLeaves`). No packet is ever obliged to arrive.
- In `TcpSession` reading and writing on a live socket may take for ever; only
  their failure on a socket that was shut down is fair. In `TcpServer` whoever
  waits for `sessions_mutex_` gets it even if it is taken in between: `CoMutex`
  hands over in order (`NoOvertaking`, `LockGranted`).
- Nobody is ever obliged to start an operation, to cancel, to send or to connect.
- In `Hook` a coroutine goes on with its call, except that a call of the original
  function on a socket that is blocking at that moment may take for ever;
  `TimedCallEnds` leaves such calls out, as the code does not prevent them.
- `TaskGetsTurn` is stated for behaviours in which neither `getcontext` nor `swapcontext` fails.

## Findings

1. `UserBlockWakeup` (`scheduler.cpp:352`). The loop that makes the popped coroutines
   runnable reads the link of a coroutine after it has been pushed on a runnable list.
   The push has reset it, so with a count above one the loop ends after the first:
   the others are in no list any more. `scheduler.h:158` promises that up to
   `wakeup_count` coroutines are woken. With several scheduler threads `WakesFront`
   fails for a count of one as well (TLC finds it in `MCUserWait` with
   `OneThread = {FALSE}`): before the loop reads the link, another coroutine is pushed
   behind the woken one, or the woken one runs, waits again and another waits behind
   it; the loop goes on to that one and pushes it a second time. The comment at
   `scheduler.cpp:346` and the test `Wait_t.nthread_multi` (8 threads, count one) use
   the table in this way.
2. `poll` over a descriptor that is registered already, by another coroutine or
   because the call names it twice (`io_wait.cpp:187`). The wait is rolled back, an
   event already fetched for it is counted for the next wait of the coroutine, and the
   assertion at `linux_glibc_hook.cpp:354` fails. Such a rolled-back wait also lets a
   `Cancel` that has tested `io_block_id_` (line 127) and not yet erased (line 130)
   end the next wait of the coroutine while that one is being registered, so that a
   descriptor stays registered while the coroutine runs. The history `strayed` in
   `IoWait` says what has strayed where, and the properties of `hook` except exactly
   that. Without sharing and without repetition nothing strays: this is proved.

Other behaviour a reader may not expect, listed among the hazards: a failing
`getcontext` loses the Processer in hand, a failing `swapcontext` the coroutines
behind the failing one; a message given to `Send` while the session closes may
stay in the channel unanswered; a connection `Accept` has in hand survives
`Shutdown`, and so does a session whose `Connect` a `Client::Shutdown` overtakes;
`Client::Send` before the first `Connect` goes through a null pointer; a hooked
call on a socket that another coroutine is using may fail with `EAGAIN` or hold up
its thread; `http_head::clear` leaves old characters in the second buffer, which
`ReusedIsFresh` shows to be harmless; `http_head::set_host` writes the field
`Content-Length`; writers may starve in `CoRWMutex` on several threads.

- Timers: a callback that throws leaves `DoTimer` with the rest of the batch, whose
  timers are in no table any more and are lost.
- Thread pool: a `BlockTryPop` that times out between the test of `Unique()` and the
  write leaves the thread writing to a channel nobody reads, for good; `AwaitReturns`
  excepts the case that all threads are lost in this way. In `Run` the counter `c`
  is never incremented, so `sleep_ms_` is never reset. A function that throws leaves
  `Run` uncaught.
- Udp: the receive callback may follow the disconnect callback once. `Link` copies
  `max_pack_size_` but does not resize `recv_buf_`. A receive that waits while
  `SetMaxPackSize` resizes the buffer keeps the address and size it took: the old
  size, and freed memory if the buffer grew. A `Send` through a session id
  starts an endpoint whose owner is gone. After a failed `Connect` only `Shutdown`
  allows another, since `IsEstab` is always true. Setters go through links that
  dangle after a restart. `init_` and `shutdown_` are tested and then set, which on
  several threads is a race.
- Addresses: a port is cut to 16 bits and zero is not written; without a path a `?`
  falls into the domain; a later `://` is taken into an unknown protocol. Two kinds
  of urls other than http are not written as they were read: a path `/` is dropped
  (`tcp://a/`), and a query behind a port of zero goes to the domain (`tcp://a:0?x`).
- Heads: a status or version too large for an `int` becomes another number, which is
  written as a text the parser refuses when it is negative. So is a value that
  `set_host` was given empty or with a blank behind its first character; one with a
  blank in front is read without it.
  `abstract.h:66` shows an address with several hosts, which the expression at
  `abstract.cpp:111` does not match.
- Lists: `pop_all` and `pop(n)` leave `check_` set on the hooks of the SList, so that
  `erase` on the same queue would unlink such a hook and count it off the queue. No
  queue of the system is used both ways.

## Proofs

The proof modules hold theorems about the specifications without fairness
(`Safety`, `MSafety`, `RWSafety`, `TSafety`, `SchedSafety`, `QSpec`, `ClSpec`,
`SrvSafety`; `UdpSpec` and `HookSpec`, whose fairness the proofs do not use), for every value of the
constants that satisfies the assumptions of the modules: `BlockObjectAssumption`
(limits are natural numbers, the initial count is not above the limit),
`CoMutexAssumption` (both are 1), `CoRWMutexAssumption` (one mutex, finitely many
callers), `IoWaitAssumption` and `HookAssumption` (finitely many coroutines and
descriptors, the descriptors each coroutine names), `SchedulerAssumption` (finitely
many threads and coroutines, at least one Processer), `CoTimerAssumption`,
`TcpSessionAssumption`, `TcpClientAssumption`, `UdpAssumption` and `TSQueueAssumption`
(sets that are disjoint, a null that is none of their members, bounds that are
natural numbers).

- `SyncProofs`, about `BlockObject`: `TypeCorrect`, `NoIdleWakeupHolds`,
  `QueuedOnceHolds`. The inductive invariant is the conjunction of the three.
  `NoIdleWakeup` needs `QueuedOnce`, because `Wakeup` pops a coroutine that must not
  occur again, and both need the types. Lemmas about appending to and popping from
  a queue without repetitions carry the argument. `RefinesSemaphore` shows that
  every step is a step of `Semaphore` or changes neither permits nor pending
  callers, where a coroutine is pending from its yield to the wakeup; the window
  before `AddWaitTask` is a pending caller that may still take a permit itself.
- `SyncProofs`, about `CoMutex`: `MutexExcludes`, `MutexIsLockExact`,
  `MutexNoOvertaking`. Mutual exclusion is not inductive: it needs that a stored
  permit means that nobody holds the mutex (`IsLockExact`) and that a coroutine in
  the window or in the queue is one that asked for this mutex (`Asked`), on top of
  the invariant of `BlockObject`, which is inherited because every step of a mutex
  is a step of its block object (`MNextIsNext`).
- `SyncProofs`, about `CoRWMutex`: `RWMutexExcludes`, `RWMutexReadersCounted`. The
  invariant adds that whoever is past the write lock holds the mutex (`Engaged`) and
  that `readers_c_` counts exactly the readers between their announcement and their
  undo or unlock: the check a reader or a writer makes is then decisive.
- `CoTimerProofs`: `CancelKeepsPromise` (`CancelExact`), `SettledNeverFires`,
  `TimersStayExact` (`TimerExact`). That
  nobody is in the callback of a timer after `BlockCancel` needs that whoever is in
  it holds `fn_lock_` (`LockHeld`), that a timer is spent by one of firing and
  cancelling (`SpentOnce`), and that a settled timer is not active: `CancelInv`.
  That the tables agree needs that `deadlines_` repeats no timer and is sorted
  (`DeadlinesExact`), and that a timer is in `deadlines_`, in one batch, or in none
  (`TimerInOnePlace`); that a dropped timer never runs needs that one that fired is in
  neither (`CalledIsGone`): `TableInv`. The lemmas on lists say what inserting at a
  position, cutting in two and taking an entry out preserve.
- `SchedulerLemmas`, `SchedulerProofs`: `StackNeverShared`, `ScheduleStaysExact`
  (`StackNotShared`, `ScheduleExact`). `SchedInv` has three parts. `ProcInv` says where
  each Processer is: at most one thread is creating one, the list repeats none, what a
  thread holds is not in the list and in no other hands, and a thread between two
  Processers holds no coroutines. `TaskInv` says where each coroutine is: no list
  repeats one, a coroutine in the runnable list of a Processer, or in the hands of the
  thread that holds it, belongs to it and does not wait, and without a failure a
  living coroutine is somewhere. It needs `ProcInv`, because that a coroutine is in the
  hands of one thread only follows from its Processer being in the hands of one.
  `CountInv` is `TaskCountExact`, with `done_count` of each thread taken for a set of
  turns so that a step adds or removes single elements. That the two properties, which
  count places, follow is a step of its own (`OneOfFive`, `TaskInOnePlaceHolds`).
- `HookProofs`: `FlagIsRestored`, `WaitEndsOnce`. `FlagInv` adds to `FlagRestored` where
  a coroutine is in `IoWait` while it is at a given place of its hooked call
  (`HookShape`). `WokenInv` adds to `WokenOnce` that a coroutine that has not been
  entered in `wait_tasks_` yet is blocked and that no `Cancel` is waking it
  (`NotYetKnown`); a `Cancel` that is late may then wake it, but once. Every
  step of the hooks is, to `IoWait`, one of its own steps or going to sleep or waking
  up (`HookStep`).
- `HookProofs`, `RefCountProofs`: `ReferencesCounted`, `WaitersRegistered`. `EpollInv`
  says what each stage of `SchedulerSwitch`, `Cancel`, `WaitLoop` and a timer knows: a
  registered descriptor belongs to the current wait of a coroutine in `wait_tasks_`,
  or of the one `Cancel` is clearing. `RefInv` adds the exact count, that a descriptor
  stays registered until its coroutine is woken, and that nothing refers to a Task
  about to be deleted. The count is a sum over the registrations, the timer and
  the coroutine itself; each step that adds or removes one of them changes the count
  with it. The hypothesis `Unshared` says that the
  descriptors of a wait on several are used by one coroutine only: `EPOLL_CTL_DEL`
  does not ask who registered the descriptor, and the second finding is what happens
  otherwise. Waits on a single descriptor may share it. `Distinct` says that no wait
  names a descriptor twice, so that no wait with a registration is rolled back: a
  `Cancel` then finds the wait it was meant for. Both theorems also state
  `NothingStrayed`: the exceptions in the two properties never apply.
- `NetworkProofs`, about the sessions of tcp: `SessionClosedOnce`,
  `ServerSessionClosedOnce`, `ClientOwnsSession`, `OneSessionLeft`. `SessInv` relates
  `shutdown_ref_` to the places of the two coroutines, so that exactly the later one
  comes to `OnClose`. `ClInv` adds who is past `try_lock` and that the session being
  connected is that of the client or one a `Shutdown` overtook (`ConnectShape`).
  `SrvInv` says that while `ShutdownAll` runs, what is up is still to be visited, and
  that the acceptor is closed first.
- `NetworkProofs`, about udp: `ReceiverIsExact`, `OptionsDoReach`. `UdpInv` adds that a
  point not made yet is untouched, that a started point that is not shut down has an
  owner or was started late, that a late callback is the last thing its coroutine
  does, and that no point is linked with two owners. `TurnInv` adds that a coroutine
  has a buffer exactly while it is inside `DoRecv`.
- `TSQueueProofs`: `ListsStayLinked`. `QInv` adds to `ListsLinked` that
  an element is in one list at one place (`Once`), that an owner without an SList has
  no elements (`PieceOwned`), and that the loop of `pop(n)` is at element `c` of a
  queue nobody else is in (`LoopExact`). `pop` and both `erase` are one argument, a
  hook leaving a list (`UnlinkFacts`); `pop_all` and `pop(n)` are another, a prefix cut
  off (`CutInv`); `push(SList)` joins two lists.

The proofs about the reference counts and about the scheduler are spread over two
modules each, because the prover slows down with the length of a module. It slows
down with the number of leaves given to SMT before, too: leaves without arithmetic
are given to Zenon. Most of the invariants were checked with TLC before they were
proved.

Only model-checked:

- all liveness (`LockGranted`, `TimedCallEnds`, `SessionCloses`, the fairness part of
  `ImplementsSemaphore`, ...), which is outside of what the prover handles;
- what recursive definitions compute: `StreamExact` and `MessageInOnePlace` (the
  bytes of a list of messages), `RoundTrip`, `ReusedIsFresh` and `AddressRoundTrip`
  (parsers that go through a text), which need induction over sequences;
- `PollCountOfWait`; `PollCountExact` itself is false (second finding);
- everything about `Channel`, `ThreadPool` and `UserWait`.

## Not modelled

- Error codes and texts, debug output and `multi_ret` (templates without state).
  `pipeline/pipeline.h` is an empty file.
- The Windows layer: fibers and detours behind the same interface.
- The tests, samples and benchmarks, and the copy of Google Test under
  `coroutine/unit_test/gtest_unit/gtest/`. That copy is most of the lines of the
  source tree; it is no part of the system, and the models stand for a small share
  of the tree because of it.
- Of the modelled parts: destructors (of blocking objects, queues and the pool),
  closing of descriptors during a wait, sleeping of idle threads, functions of the
  pool that throw, the look-up of the original system calls, options of tcp
  endpoints, conversions to the types of boost, setters of the HTTP head that are
  single assignments.
- Undefined behaviour: setters through dangling links, `Client::Send` before
  `Connect`, several threads inside the first `Send` of a udp endpoint.

## Plan

1. Lifetimes: destruction of a blocking object while a coroutine is between its
   yield and `AddWaitTask`; the destructor of `ThreadPool`.
2. Descriptors shared by several coroutines in `IoWait`, as far as the code means to
   allow them, and closing a descriptor during a wait.
3. Proofs: `ChannelBalanced` of `Channel`.
