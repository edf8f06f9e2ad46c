----------------------------- MODULE ThreadPool -----------------------------
(***************************************************************************)
(* ThreadPool (thread_pool.h, thread_pool.cpp) and co_await (coroutine.h)  *)
(* over Channel.  A coroutine pushes an element, with a channel of         *)
(* capacity 0 and a function, on elem_list_ and reads from the channel;    *)
(* plain threads inside RunLoop pop elements, run the function and write   *)
(* to the channel.  The channel is shared by the coroutine and the         *)
(* element: Unique() tells the thread that the coroutine has let it go.    *)
(*                                                                         *)
(* A coroutine awaits by co_await, which blocks, or by AsyncWait and a     *)
(* BlockTryPop that may time out.  A worker is at                          *)
(*   run     in Run, before elem_list_.pop()                               *)
(*   do      in Do, before the test of Unique()                            *)
(*   fn      before the return of the function                             *)
(*   write   before or in the write to the channel                         *)
(*   delete  before delete elem                                            *)
(*                                                                         *)
(* The sleep between two turns of Run is left out: it only delays.         *)
(***************************************************************************)
EXTENDS Channel

CONSTANTS
  shared, \* a channel that callers use directly
  User,   \* its callers
  Worker, \* threads the user may have created to call ThreadPool::RunLoop
  First   \* those of them that are there in any case

\* The channels of the elements, one for each call of AsyncWait.
Await == Chan \ {shared}

ASSUME ThreadPoolAssumption ==
  /\ shared \in Chan
  /\ User \subseteq Caller
  /\ Worker \subseteq Thread
  /\ First \subseteq Worker
  /\ \A a \in Await : Capacity(a) = 0

VARIABLES
  elem_list_, \* ThreadPool::elem_list_; an element is named after its channel
  worker,     \* where each worker is, and with which element
  await,      \* how each coroutine awaits, and on which channel
  unused,     \* the channels that have not been constructed yet
  ran,        \* history: how often the function of each element was run
  skipped,    \* history: the elements whose function was not run
  returned,   \* history: the channels whose message was read
  part        \* what is explored: direct use of a channel, or the pool

poolvars == <<elem_list_, worker, await, unused, ran, skipped, returned>>
poolcvars == <<cvars, poolvars>>
pvars == <<poolcvars, part>>

NoAwait == [how |-> "none", a |-> NULL]
Free == [at |-> "run", a |-> NULL]
NotCreated == [at |-> "none", a |-> NULL]

PInit ==
  /\ part \in {"channel", "pool"}
  /\ CInit
  /\ elem_list_ = <<>>
  /\ \E ws \in IF part = "pool" THEN {First, Worker} ELSE {{}} :
       worker = [w \in Worker |-> IF w \in ws THEN Free ELSE NotCreated]
  /\ await = [t \in Task |-> NoAwait]
  /\ unused = Await
  /\ ran = [a \in Await |-> 0]
  /\ skipped = {}
  /\ returned = {}

-----------------------------------------------------------------------------
(* Coroutines                                                              *)

\* AsyncWait with a new channel: the element, with a copy of it, is pushed.
AsyncWait(t, how) ==
  LET a == CHOOSE a \in unused : TRUE IN
  /\ Active(t) /\ pc[t] = "idle"
  /\ await[t] = NoAwait
  /\ unused # {}
  /\ unused' = unused \ {a}
  /\ elem_list_' = Append(elem_list_, a)
  /\ await' = [await EXCEPT ![t] = [how |-> how, a |-> a]]
  /\ UNCHANGED <<cvars, worker, ran, skipped, returned>>

\* co_await: ch_ >> result_.
AwaitRead(t) ==
  /\ await[t].how = "co_await"
  /\ PostWrite(t, await[t].a, "wait_read")
  /\ await' = [await EXCEPT ![t].how = "reading"]
  /\ UNCHANGED <<elem_list_, worker, ran, skipped, unused, returned>>

\* BlockTryPop: one more TryPop.
AwaitTry(t) ==
  /\ await[t].how = "timed"
  /\ PostWrite(t, await[t].a, "try_read")
  /\ await' = [await EXCEPT ![t].how = "trying"]
  /\ UNCHANGED <<elem_list_, worker, ran, skipped, unused, returned>>

\* The read returns and the coroutine's copy of the channel goes.
AwaitReturn(t) ==
  /\ Active(t) /\ pc[t] = "idle"
  /\ await[t].how = "reading"
  /\ await' = [await EXCEPT ![t] = NoAwait]
  /\ returned' = returned \cup {await[t].a}
  /\ UNCHANGED <<cvars, elem_list_, worker, unused, ran, skipped>>

\* A step inside the read or the TryPop.  TryPop returns false from take_back,
\* and BlockTryPop may try again or time out.
AwaitStep(t) ==
  /\ await[t].how \in {"reading", "trying"}
  /\ Proceed(t, await[t].a)
  /\ await' = [await EXCEPT ![t].how =
                 CASE @ = "trying" /\ pc[t] = "take_back" /\ pc'[t] = "idle" -> "timed"
                   [] @ = "trying" /\ pc[t] # "take_back" /\ pc'[t] = "idle" -> "reading"
                   [] OTHER -> @]
  /\ UNCHANGED <<elem_list_, worker, ran, skipped, unused, returned>>

\* BlockTryPop times out and the coroutine drops its copy of the channel.
AwaitTimeout(t) ==
  /\ Active(t) /\ pc[t] = "idle"
  /\ await[t].how = "timed"
  /\ await' = [await EXCEPT ![t] = NoAwait]
  /\ UNCHANGED <<cvars, elem_list_, worker, ran, skipped, unused, returned>>

-----------------------------------------------------------------------------
(* Workers                                                                 *)

\* Unique(): nobody but the element has the channel.
Unique(a) == \A t \in Task : await[t].a # a

At(w, from, to) ==
  /\ worker[w].at = from
  /\ worker' = [worker EXCEPT ![w].at = to]

\* Mutant: the element stays in the list.
PopElemPeek(w) ==
  /\ worker[w] = Free
  /\ elem_list_ # <<>>
  /\ worker' = [worker EXCEPT ![w] = [at |-> "do", a |-> Head(elem_list_)]]
  /\ UNCHANGED <<cvars, elem_list_, await, ran, skipped, unused, returned>>

\* elem_list_.pop().
PopElem(w) ==
  /\ worker[w] = Free
  /\ elem_list_ # <<>>
  /\ worker' = [worker EXCEPT ![w] = [at |-> "do", a |-> Head(elem_list_)]]
  /\ elem_list_' = Tail(elem_list_)
  /\ UNCHANGED <<cvars, await, ran, skipped, unused, returned>>

\* Mutant: Do skips every element.
DoTestInverted(w) ==
  /\ IF Unique(worker[w].a) THEN At(w, "do", "fn") /\ UNCHANGED skipped
     ELSE At(w, "do", "delete") /\ skipped' = skipped \cup {worker[w].a}
  /\ UNCHANGED <<cvars, elem_list_, await, ran, unused, returned>>

\* if (ch_.Unique()) return.
DoTest(w) ==
  /\ IF ~Unique(worker[w].a) THEN At(w, "do", "fn") /\ UNCHANGED skipped
     ELSE At(w, "do", "delete") /\ skipped' = skipped \cup {worker[w].a}
  /\ UNCHANGED <<cvars, elem_list_, await, ran, unused, returned>>

\* fn_() returns.
RunFn(w) ==
  /\ At(w, "fn", "write")
  /\ ran' = [ran EXCEPT ![worker[w].a] = @ + 1]
  /\ UNCHANGED <<cvars, elem_list_, await, skipped, unused, returned>>

\* ch_ << fn_(): until the end of operator<<, then out of Do.
WriteResult(w) ==
  /\ worker[w].at = "write"
  /\ \/ Write(w, worker[w].a)
     \/ Proceed(w, worker[w].a)
  /\ worker' = [worker EXCEPT ![w].at = IF pc'[w] = "idle" THEN "delete" ELSE @]
  /\ UNCHANGED <<elem_list_, await, ran, skipped, unused, returned>>

\* delete elem.
DeleteElem(w) ==
  /\ worker[w].at = "delete"
  /\ worker' = [worker EXCEPT ![w] = Free]
  /\ UNCHANGED <<cvars, elem_list_, await, ran, skipped, unused, returned>>

WorkerStep(w) ==
  PopElem(w) \/ DoTest(w) \/ RunFn(w) \/ WriteResult(w) \/ DeleteElem(w)

AwaiterStep(t) == AwaitRead(t) \/ AwaitStep(t) \/ AwaitReturn(t)

Pool ==
  \/ \E t \in Task :
       \/ \E how \in {"co_await", "timed"} : AsyncWait(t, how)
       \/ AwaitTry(t) \/ AwaitTimeout(t) \/ AwaiterStep(t)
       \/ Background(t) /\ UNCHANGED poolvars
  \/ \E w \in Worker : WorkerStep(w)

PNext ==
  /\ \/ part = "channel" /\ CNext(User, {shared}) /\ UNCHANGED poolvars
     \/ part = "pool" /\ Pool
  /\ UNCHANGED part

\* Workers go on with what they have begun and take what there is; so does a
\* coroutine inside a read.  BlockTryPop does not fail for ever: its timeout,
\* which it tests after every TryPop that failed, passes.
PFairness ==
  /\ \A w \in Worker : WF_poolcvars(WorkerStep(w))
  /\ \A t \in Task : WF_poolcvars(AwaiterStep(t)) /\ SF_poolcvars(AwaitTimeout(t))

PSpec == PInit /\ [][PNext]_pvars /\ CFairness /\ PFairness

-----------------------------------------------------------------------------

\* co_await, or a BlockTryPop that succeeds, returns after the function was run
\* to its end, once; the function is left out only for one that has given up.
AwaitExact ==
  /\ \A a \in Await : ran[a] <= 1
  /\ \A a \in returned : ran[a] = 1
  /\ \A a \in skipped : ran[a] = 0 /\ Unique(a)

\* The worker waits to write to a channel whose reader gave up after the test
\* of Unique(): no other reader will come.
Stuck(w) == worker[w].at = "write" /\ Unique(worker[w].a)

\* co_await returns as long as a worker is left: each BlockTryPop that times
\* out between the test of Unique() and the write takes one away for good.
AwaitReturns ==
  \A t \in Task :
    await[t].how \in {"co_await", "reading"} ~>
      await[t] = NoAwait \/ \A w \in Worker : worker[w] = NotCreated \/ Stuck(w)
=============================================================================
