------------------------------ MODULE TSQueue ------------------------------
(***************************************************************************)
(* TSQueue and SList (ts_queue.h): intrusive doubly linked lists of hooks. *)
(* Every list of coroutines, Processers and pool elements is one, and the  *)
(* other modules take them for sequences; here are the pointers.           *)
(*                                                                         *)
(* A hook is in at most one list and has one pair of links.  A queue owns  *)
(* a dummy hook, its head_, which is named after the queue.  pop_all and   *)
(* pop(n) cut a piece off, an SList, that its owner walks with an iterator *)
(* and may push back; the hooks in it keep their check_.  Every operation  *)
(* is one critical section of the queue's lck.  pop(n) is a step for each  *)
(* turn of its loop, with the lock held.                                   *)
(*                                                                         *)
(* The owner of an SList works as Processer::Run does: it erases a hook    *)
(* from the piece before the hook goes elsewhere.  UserBlockWakeup does    *)
(* not: see UserWait.  ~TSQueue is left out.                               *)
(***************************************************************************)
EXTENDS Naturals, Sequences

CONSTANTS
  Elem,   \* what may be put in a queue
  Queue,  \* queues, and their dummy hooks
  Owner,  \* who may hold an SList
  PopMax, \* values given for n in pop(n)
  null    \* the null pointer NULL

ASSUME TSQueueAssumption ==
  /\ Elem \cap Queue = {} /\ Queue \cap Owner = {}
  /\ null \notin Elem \cup Queue
  /\ PopMax \subseteq Nat

Hook == Elem \cup Queue
Holder == Queue \cup Owner

VARIABLES
  prev, next, \* TSQueueHook::prev and next of each hook
  check_,     \* TSQueueHook::check_ of each element
  tail_,      \* TSQueue::tail_ of each queue
  count_,     \* TSQueue::count_ of each queue
  piece,      \* the SList of each owner
  it,         \* its iterator
  loop,       \* the locals of pop(n) of each owner
  list,       \* history: the elements of each queue and SList, in order
  pos         \* history: the position of it in the SList

links == <<prev, next>>
queues == <<tail_, count_>>
pieces == <<piece, it, pos>>
qvars == <<links, check_, queues, pieces, loop, list>>

\* SList(): what pop_all and pop(n) return of an empty queue.
NoPiece == [head_ |-> null, tail_ |-> null, count_ |-> 0, check_ |-> null]
NoLoop == [q |-> null, n |-> 0, c |-> 0, last |-> null]

QInit ==
  /\ prev = [x \in Hook |-> null] /\ next = [x \in Hook |-> null]
  /\ check_ = [e \in Elem |-> null]
  /\ tail_ = [q \in Queue |-> q] /\ count_ = [q \in Queue |-> 0]
  /\ piece = [o \in Owner |-> NoPiece] /\ it = [o \in Owner |-> null]
  /\ loop = [o \in Owner |-> NoLoop]
  /\ list = [x \in Holder |-> <<>>]
  /\ pos = [o \in Owner |-> 1]

-----------------------------------------------------------------------------

Locked(q) == \E o \in Owner : loop[o].q = q

In(e, s) == \E i \in 1..Len(s) : s[i] = e

\* The element is in no list, so its owner may push it.
Unlinked(e) == \A x \in Holder : ~In(e, list[x])

\* s without its element number i.
Without(s, i) == [j \in 1..(Len(s) - 1) |-> IF j < i THEN s[j] ELSE s[j + 1]]

\* f with the value v at x, unless x is null.
Put(f, x, v) == IF x = null THEN f ELSE [f EXCEPT ![x] = v]

-----------------------------------------------------------------------------
(* TSQueue *)

push(q, e) ==
  /\ ~Locked(q) /\ Unlinked(e)
  /\ next' = [next EXCEPT ![tail_[q]] = e, ![e] = null]
  /\ prev' = [prev EXCEPT ![e] = tail_[q]]
  /\ check_' = [check_ EXCEPT ![e] = q]
  /\ tail_' = [tail_ EXCEPT ![q] = e]
  /\ count_' = [count_ EXCEPT ![q] = @ + 1]
  /\ list' = [list EXCEPT ![q] = Append(@, e)]
  /\ UNCHANGED <<pieces, loop>>

\* pop() of a queue that is not empty.
pop(q) ==
  LET ptr == next[q] IN
  /\ ~Locked(q) /\ tail_[q] # q
  /\ next' = [next EXCEPT ![q] = next[ptr], ![ptr] = null]
  /\ prev' = [Put(prev, next[ptr], q) EXCEPT ![ptr] = null]
  /\ check_' = [check_ EXCEPT ![ptr] = null]
  /\ tail_' = [tail_ EXCEPT ![q] = IF ptr = @ THEN q ELSE @]
  /\ count_' = [count_ EXCEPT ![q] = @ - 1]
  /\ list' = [list EXCEPT ![q] = Tail(@)]
  /\ UNCHANGED <<pieces, loop>>

\* An SList of c hooks, from first to last, for o.
Take(o, q, first, last, c) ==
  /\ piece' = [piece EXCEPT ![o] = [head_ |-> first, tail_ |-> last,
                                    count_ |-> c, check_ |-> q]]
  /\ it' = [it EXCEPT ![o] = first]
  /\ pos' = [pos EXCEPT ![o] = 1]

pop_all(q, o) ==
  LET first == next[q]
      last == tail_[q]
  IN
  /\ ~Locked(q) /\ tail_[q] # q
  /\ piece[o] = NoPiece /\ loop[o] = NoLoop
  /\ tail_' = [tail_ EXCEPT ![q] = q]
  /\ next' = [next EXCEPT ![q] = null, ![last] = null]
  /\ prev' = [prev EXCEPT ![first] = null]
  /\ count_' = [count_ EXCEPT ![q] = 0]
  /\ Take(o, q, first, last, count_[q])
  /\ list' = [list EXCEPT ![q] = <<>>, ![o] = list[q]]
  /\ UNCHANGED <<check_, loop>>

\* pop(n) up to its loop.
pop_n(q, o, n) ==
  /\ ~Locked(q) /\ tail_[q] # q
  /\ piece[o] = NoPiece /\ loop[o] = NoLoop
  /\ loop' = [loop EXCEPT ![o] = [q |-> q, n |-> n, c |-> 1, last |-> next[q]]]
  /\ UNCHANGED <<links, check_, queues, pieces, list>>

More(o) == loop[o].c < loop[o].n /\ next[loop[o].last] # null

\* A turn of the loop of pop(n).
pop_n_loop(o) ==
  /\ loop[o].q # null /\ More(o)
  /\ loop' = [loop EXCEPT ![o].last = next[@], ![o].c = @ + 1]
  /\ UNCHANGED <<links, check_, queues, pieces, list>>

\* Mutant: tail_ stays when the last hook is cut off.
pop_n_cut_keeps_tail(o) ==
  LET q == loop[o].q
      first == next[q]
      last == loop[o].last
      c == loop[o].c
  IN
  /\ loop[o].q # null /\ ~More(o)
  /\ next' = [next EXCEPT ![q] = next[last], ![last] = null]
  /\ prev' = [Put(prev, next[last], q) EXCEPT ![first] = null]
  /\ count_' = [count_ EXCEPT ![q] = @ - c]
  /\ Take(o, q, first, last, c)
  /\ list' = [list EXCEPT ![q] = SubSeq(@, c + 1, Len(@)),
                          ![o] = SubSeq(list[q], 1, c)]
  /\ loop' = [loop EXCEPT ![o] = NoLoop]
  /\ UNCHANGED <<check_, tail_>>

\* The rest of pop(n).
pop_n_cut(o) ==
  LET q == loop[o].q
      first == next[q]
      last == loop[o].last
      c == loop[o].c
  IN
  /\ loop[o].q # null /\ ~More(o)
  /\ tail_' = [tail_ EXCEPT ![q] = IF last = @ THEN q ELSE @]
  /\ next' = [next EXCEPT ![q] = next[last], ![last] = null]
  /\ prev' = [Put(prev, next[last], q) EXCEPT ![first] = null]
  /\ count_' = [count_ EXCEPT ![q] = @ - c]
  /\ Take(o, q, first, last, c)
  /\ list' = [list EXCEPT ![q] = SubSeq(@, c + 1, Len(@)),
                          ![o] = SubSeq(list[q], 1, c)]
  /\ loop' = [loop EXCEPT ![o] = NoLoop]
  /\ UNCHANGED check_

\* push(SList), after which the owner's copy is dead.  The queue is the one the
\* assertion names.  An SList that has become empty is not pushed.
push_list(o) ==
  LET q == piece[o].check_ IN
  /\ q # null /\ ~Locked(q)
  /\ list' = [list EXCEPT ![q] = @ \o list[o], ![o] = <<>>]
  /\ IF piece[o].head_ = null THEN UNCHANGED <<links, queues>>
     ELSE
       /\ count_' = [count_ EXCEPT ![q] = @ + piece[o].count_]
       /\ next' = [next EXCEPT ![tail_[q]] = piece[o].head_, ![piece[o].tail_] = null]
       /\ prev' = [prev EXCEPT ![piece[o].head_] = tail_[q]]
       /\ tail_' = [tail_ EXCEPT ![q] = piece[o].tail_]
  /\ piece' = [piece EXCEPT ![o] = NoPiece]
  /\ it' = [it EXCEPT ![o] = null]
  /\ pos' = [pos EXCEPT ![o] = 1]
  /\ UNCHANGED <<check_, loop>>

\* Mutant: check_ stays.
erase_keeps_check(q, e) ==
  /\ ~Locked(q)
  /\ \A o \in Owner : piece[o].check_ = q => ~In(e, list[o])
  /\ check_[e] = q
  /\ next' = [Put(next, prev[e], next[e]) EXCEPT ![e] = null]
  /\ prev' = [Put(prev, next[e], prev[e]) EXCEPT ![e] = null]
  /\ tail_' = [tail_ EXCEPT ![q] =
                 IF next[e] = null /\ e = @ THEN prev[e] ELSE @]
  /\ count_' = [count_ EXCEPT ![q] = @ - 1]
  /\ \E i \in 1..Len(list[q]) :
       list[q][i] = e /\ list' = [list EXCEPT ![q] = Without(@, i)]
  /\ UNCHANGED <<check_, pieces, loop>>

\* erase(hook) returning true, for an element in no SList of q: only queues
\* that pop no SList are erased from (wait_tasks_ of IoWait and SleepWait).
\* It returns false, and does nothing, when check_ is another queue.
erase(q, e) ==
  /\ ~Locked(q)
  /\ \A o \in Owner : piece[o].check_ = q => ~In(e, list[o])
  /\ check_[e] = q
  /\ next' = [Put(next, prev[e], next[e]) EXCEPT ![e] = null]
  /\ prev' = [Put(prev, next[e], prev[e]) EXCEPT ![e] = null]
  /\ tail_' = [tail_ EXCEPT ![q] =
                 IF next[e] = null /\ e = @ THEN prev[e] ELSE @]
  /\ check_' = [check_ EXCEPT ![e] = null]
  /\ count_' = [count_ EXCEPT ![q] = @ - 1]
  /\ \E i \in 1..Len(list[q]) :
       list[q][i] = e /\ list' = [list EXCEPT ![q] = Without(@, i)]
  /\ UNCHANGED <<pieces, loop>>

-----------------------------------------------------------------------------
(* SList *)

\* ++it
advance(o) ==
  /\ it[o] # null
  /\ it' = [it EXCEPT ![o] = next[@]]
  /\ pos' = [pos EXCEPT ![o] = @ + 1]
  /\ UNCHANGED <<links, check_, queues, piece, loop, list>>

\* it = slist.erase(it)
slist_erase(o) ==
  LET e == it[o] IN
  /\ e # null
  /\ it' = [it EXCEPT ![o] = next[e]]
  /\ next' = [Put(next, prev[e], next[e]) EXCEPT ![e] = null]
  /\ prev' = [Put(prev, next[e], prev[e]) EXCEPT ![e] = null]
  /\ check_' = [check_ EXCEPT ![e] = null]
  /\ piece' = [piece EXCEPT
                 ![o].head_ = IF prev[e] = null THEN next[@] ELSE @,
                 ![o].tail_ = IF next[e] = null THEN prev[@] ELSE @,
                 ![o].count_ = @ - 1]
  /\ list' = [list EXCEPT ![o] = Without(@, pos[o])]
  /\ UNCHANGED <<queues, pos, loop>>

QNext ==
  \/ \E q \in Queue :
       \/ pop(q)
       \/ \E e \in Elem : push(q, e) \/ erase(q, e)
       \/ \E o \in Owner :
            \/ pop_all(q, o)
            \/ \E n \in PopMax : pop_n(q, o, n)
  \/ \E o \in Owner :
       \/ pop_n_loop(o) \/ pop_n_cut(o) \/ push_list(o)
       \/ advance(o) \/ slist_erase(o)

QSpec == QInit /\ [][QNext]_qvars

-----------------------------------------------------------------------------

\* The links of the hooks of s, in order; before is what the first links back to.
Links(s, before) ==
  \A i \in 1..Len(s) :
    /\ prev[s[i]] = IF i = 1 THEN before ELSE s[i - 1]
    /\ next[s[i]] = IF i = Len(s) THEN null ELSE s[i + 1]

\* The links, tail_ and count_ of a queue say what its sequence says.
QueueLinked(q) ==
  /\ Links(list[q], q)
  /\ next[q] = IF list[q] = <<>> THEN null ELSE list[q][1]
  /\ tail_[q] = IF list[q] = <<>> THEN q ELSE list[q][Len(list[q])]
  /\ count_[q] = Len(list[q])

\* So do those of an SList, and its iterator.
PieceLinked(o) ==
  /\ Links(list[o], null)
  /\ piece[o].head_ = IF list[o] = <<>> THEN null ELSE list[o][1]
  /\ piece[o].tail_ = IF list[o] = <<>> THEN null ELSE list[o][Len(list[o])]
  /\ piece[o].count_ = Len(list[o])
  /\ it[o] = IF pos[o] <= Len(list[o]) THEN list[o][pos[o]] ELSE null

\* check_ names the queue an element is in, or was in when it was cut off with
\* the SList it is in; with it erase knows who was first (io_wait.cpp Cancel
\* and WaitLoop).
CheckExact ==
  \A e \in Elem, q \in Queue :
    check_[e] = q <=>
      In(e, list[q]) \/ \E o \in Owner : piece[o].check_ = q /\ In(e, list[o])

\* The pointers of every queue and of every SList say what a sequence of
\* elements says under push, pop, pop_all, pop(n), push(SList) and the two
\* erase in any order: every other module relies on it.
ListsLinked ==
  /\ \A q \in Queue : QueueLinked(q)
  /\ \A o \in Owner : PieceLinked(o)
  /\ CheckExact
=============================================================================
