------------------------------ MODULE UserWait ------------------------------
(***************************************************************************)
(* co_wait and co_wakeup: the table user_wait_tasks_ of the Scheduler      *)
(* (scheduler.cpp) with the user_block case of Processer::Run.  An entry   *)
(* of the table is a count of early wakeups and a queue of coroutines;     *)
(* every access to it is one critical section of user_wait_lock_.          *)
(*                                                                         *)
(* BlockWakeup pops coroutines inside the lock and makes them runnable     *)
(* outside it, walking the popped list through the link of each coroutine  *)
(* (SList::iterator).  The link is the one the runnable list uses too: it  *)
(* is read after the coroutine has been pushed there.                      *)
(***************************************************************************)
EXTENDS Naturals, Sequences, FiniteSets

LOCAL INSTANCE SequencesExt

CONSTANTS
  Key,         \* pairs of a wait type and a wait id
  Task,        \* coroutines
  Proc,        \* Processers
  ProcOf,      \* Task::proc_ of each coroutine
  Waker,       \* threads or coroutines that call UserBlockWakeup
  WakeupCount, \* values given for wakeup_count
  OneThread,   \* TRUE: the scheduler and the wakers may share one thread;
               \* FALSE: every Processer and waker may have its own
  MaxFirst,    \* bound: no wakeup of an entry that stores this many
  NULL         \* the null pointer

ASSUME UserWaitAssumption ==
  /\ ProcOf \in [Task -> Proc]
  /\ WakeupCount \subseteq Nat
  /\ OneThread \subseteq BOOLEAN
  /\ MaxFirst \in Nat
  /\ NULL \notin Task

VARIABLES
  entries,  \* the keys that have an entry in user_wait_tasks_
  first,    \* wait_pair.first of each entry: stored wakeups
  second,   \* wait_pair.second of each entry: waiting coroutines
  runnable, \* runnable_list_ of each Processer
  slist,    \* the list a Processer is running, from its current coroutine on
  passed,   \* the part of that list it has already run and kept
  one_thread, \* which of OneThread is the case
  cursor,   \* the coroutine each waker's loop is at, or NULL
  popped,   \* coroutines each waker popped in its last call
  woken     \* coroutines each waker made runnable in its last call

wvars == <<entries, first, second>>
pvars == <<runnable, slist, passed>>
kvars == <<cursor, popped, woken>>
uvars == <<wvars, pvars, kvars, one_thread>>

UInit ==
  /\ entries = {}
  /\ first = [k \in Key |-> 0]
  /\ second = [k \in Key |-> <<>>]
  /\ runnable = [p \in Proc |-> SetToSeq({t \in Task : ProcOf[t] = p})]
  /\ slist = [p \in Proc |-> <<>>]
  /\ passed = [p \in Proc |-> <<>>]
  /\ one_thread \in OneThread
  /\ cursor = [w \in Waker |-> NULL]
  /\ popped = [w \in Waker |-> {}]
  /\ woken = [w \in Waker |-> {}]

-----------------------------------------------------------------------------

\* On one thread nothing else happens while a waker is in its loop, and one
\* Processer finishes its Run before another starts.
Alone == one_thread => \A w \in Waker : cursor[w] = NULL
InRun(p) == slist[p] # <<>> \/ passed[p] # <<>>

\* Mutant: an entry is cleared although coroutines wait in it.
ClearWaitPairEarly(k) ==
  entries' = IF first'[k] = 0 THEN entries \ {k} ELSE entries \cup {k}

\* The entry of k exists and is neither empty nor idle: what
\* ClearWaitPairWithoutLock leaves of it.
ClearWaitPair(k) ==
  entries' = IF second'[k] = <<>> /\ first'[k] = 0 THEN entries \ {k}
                                                   ELSE entries \cup {k}

\* Processer::Run: runnable_list_.pop_all().
PopAll(p) ==
  /\ Alone
  /\ ~InRun(p) /\ (one_thread => \A q \in Proc : ~InRun(q))
  /\ runnable[p] # <<>>
  /\ slist' = [slist EXCEPT ![p] = runnable[p]]
  /\ runnable' = [runnable EXCEPT ![p] = <<>>]
  /\ UNCHANGED <<wvars, kvars, passed>>

Keep(p) ==
  /\ passed' = [passed EXCEPT ![p] = Append(@, Head(slist[p]))]
  /\ slist' = [slist EXCEPT ![p] = Tail(@)]

\* The current coroutine runs and yields in state runnable.
Yield(p) ==
  /\ Alone
  /\ slist[p] # <<>>
  /\ Keep(p)
  /\ UNCHANGED <<wvars, kvars, runnable>>

\* The current coroutine calls UserBlockWait and yields; then the user_block
\* case takes a stored wakeup or queues the coroutine.
BlockWait(p, k) ==
  /\ Alone
  /\ slist[p] # <<>>
  /\ \/ /\ first[k] > 0
        /\ first' = [first EXCEPT ![k] = @ - 1]
        /\ Keep(p)
        /\ UNCHANGED second
     \/ /\ first[k] = 0
        /\ second' = [second EXCEPT ![k] = Append(@, Head(slist[p]))]
        /\ slist' = [slist EXCEPT ![p] = Tail(@)]
        /\ UNCHANGED <<first, passed>>
  /\ ClearWaitPair(k)
  /\ UNCHANGED <<kvars, runnable>>

\* Processer::Run: runnable_list_.push(slist) at the end.
PushBack(p) ==
  /\ Alone
  /\ slist[p] = <<>> /\ passed[p] # <<>>
  /\ runnable' = [runnable EXCEPT ![p] = @ \o passed[p]]
  /\ passed' = [passed EXCEPT ![p] = <<>>]
  /\ UNCHANGED <<wvars, kvars, slist>>

\* Scheduler::TryBlockWait returning true, by anybody.
TryBlockWait(k) ==
  /\ Alone
  /\ k \in entries /\ first[k] > 0
  /\ first' = [first EXCEPT ![k] = @ - 1]
  /\ UNCHANGED second
  /\ ClearWaitPair(k)
  /\ UNCHANGED <<pvars, kvars>>

\* Mutant: pop(n) starts to count at 0.
PopCountOffByOne(q, n) ==
  IF q = <<>> THEN 0 ELSE IF n + 1 < Len(q) THEN n + 1 ELSE Len(q)

\* TSQueue::pop(n): the first n elements, and the first one even for n = 0.
PopCount(q, n) ==
  IF q = <<>> THEN 0 ELSE IF n = 0 THEN 1 ELSE IF n < Len(q) THEN n ELSE Len(q)

\* Mutant: the coroutines to wake up stay in the queue.
WakeupPeek(w, k, n) ==
  LET q == second[k]
      c == PopCount(q, n)
  IN
  /\ Alone
  /\ cursor[w] = NULL
  /\ first[k] < MaxFirst
  /\ first' = [first EXCEPT ![k] = IF c < n THEN @ + (n - c) ELSE @]
  /\ UNCHANGED second
  /\ ClearWaitPair(k)
  /\ cursor' = [cursor EXCEPT ![w] = IF c > 0 THEN q[1] ELSE NULL]
  /\ popped' = [popped EXCEPT ![w] = {q[i] : i \in 1..c}]
  /\ woken' = [woken EXCEPT ![w] = {}]
  /\ UNCHANGED pvars

\* BlockWakeup up to the unlock: pop, store what is left over, clear.
WakeupPop(w, k, n) ==
  LET q == second[k]
      c == PopCount(q, n)
  IN
  /\ Alone
  /\ cursor[w] = NULL
  /\ first[k] < MaxFirst
  /\ second' = [second EXCEPT ![k] = SubSeq(q, c + 1, Len(q))]
  /\ first' = [first EXCEPT ![k] = IF c < n THEN @ + (n - c) ELSE @]
  /\ ClearWaitPair(k)
  /\ cursor' = [cursor EXCEPT ![w] = IF c > 0 THEN q[1] ELSE NULL]
  /\ popped' = [popped EXCEPT ![w] = {q[i] : i \in 1..c}]
  /\ woken' = [woken EXCEPT ![w] = {}]
  /\ UNCHANGED pvars

\* The lists in which coroutines are linked.
Lists ==
  {runnable[p] : p \in Proc} \cup {passed[p] \o slist[p] : p \in Proc}
    \cup {second[k] : k \in Key}

Linked(t) == \E q \in Lists : \E i \in 1..Len(q) : q[i] = t

\* tk->next: the coroutine after t in the list t is in now.
NextOf(t) ==
  LET succ == UNION {{q[i + 1] : i \in {j \in 1..(Len(q) - 1) : q[j] = t}} : q \in Lists}
  IN  IF succ = {} THEN NULL ELSE CHOOSE u \in succ : TRUE

\* AddTaskRunnable(tk) in the loop of BlockWakeup.  To push a coroutine that is
\* in a list already would corrupt both lists; the model stops before that.
WakeupAdd(w) ==
  /\ cursor[w] # NULL /\ cursor[w] \notin woken[w]
  /\ ~Linked(cursor[w])
  /\ runnable' = [runnable EXCEPT ![ProcOf[cursor[w]]] = Append(@, cursor[w])]
  /\ woken' = [woken EXCEPT ![w] = @ \cup {cursor[w]}]
  /\ UNCHANGED <<wvars, slist, passed, cursor, popped>>

\* ++it in the loop of BlockWakeup.
WakeupNext(w) ==
  /\ cursor[w] # NULL /\ cursor[w] \in woken[w]
  /\ cursor' = [cursor EXCEPT ![w] = NextOf(cursor[w])]
  /\ UNCHANGED <<wvars, pvars, popped, woken>>

UNext ==
  /\ \/ \E p \in Proc :
          \/ PopAll(p) \/ Yield(p) \/ PushBack(p)
          \/ \E k \in Key : BlockWait(p, k)
     \/ \E k \in Key :
          \/ TryBlockWait(k)
          \/ \E w \in Waker, n \in WakeupCount : WakeupPop(w, k, n)
     \/ \E w \in Waker : WakeupAdd(w) \/ WakeupNext(w)
  /\ UNCHANGED one_thread

USpec == UInit /\ [][UNext]_uvars

-----------------------------------------------------------------------------

\* A wakeup given before the wait is never left stored beside a coroutine that
\* waits for it, and the table keeps an entry exactly as long as it says
\* something (ClearWaitPairWithoutLock in every operation).
EntriesExact ==
  \A k \in Key :
    /\ second[k] # <<>> => first[k] = 0
    /\ k \in entries <=> second[k] # <<>> \/ first[k] > 0

\* Every coroutine is in one list, once, or between WakeupPop and WakeupAdd of
\* one waker: co_wait and co_wakeup neither lose nor duplicate a coroutine.
OnePlace ==
  \A t \in Task :
    LET at(q) == Cardinality({i \in 1..Len(q) : q[i] = t})
        held == {w \in Waker : t \in popped[w] \ woken[w]}
    IN  IF \E q \in Lists : at(q) > 0
          THEN held = {} /\ Cardinality({q \in Lists : at(q) > 0}) = 1
                         /\ \A q \in Lists : at(q) <= 1
          ELSE Cardinality(held) = 1

\* The loop of BlockWakeup is at a coroutine it did not pop.
Strayed(w) == cursor[w] # NULL /\ cursor[w] \notin popped[w]

\* When UserBlockWakeup returns, the coroutines it made runnable are those it
\* took from the front of the queue, and while it runs it is at one of them.
WakesFront ==
  \A w \in Waker : ~Strayed(w) /\ (cursor[w] = NULL => woken[w] = popped[w])

\* The coroutines UserBlockWakeup took from the front are runnable when it
\* returns, and also when its loop strays.
FrontWoken ==
  \A w \in Waker : cursor[w] = NULL \/ Strayed(w) => popped[w] \subseteq woken[w]

\* For a wakeup_count of one: the wait table has exactly the entries that mean
\* something, a coroutine is in one place, and a wakeup reaches the first that
\* waits (UserBlockWait and UserBlockWakeup).  On one thread it reaches no other.
\* On several threads that does not hold: between AddTaskRunnable and ++it the
\* link of the coroutine changes when another is pushed behind it, and the loop
\* goes on to that one.
WaitTableExact ==
  EntriesExact /\ OnePlace /\ FrontWoken /\ (one_thread => WakesFront)
=============================================================================
