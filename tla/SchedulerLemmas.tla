--------------------------- MODULE SchedulerLemmas ---------------------------
(***************************************************************************)
(* The inductive invariants of Scheduler but for the counts: where a       *)
(* Processer is and who uses it (ProcInv), where a coroutine is and who    *)
(* runs it (TaskInv), and that every step of Run, DoRunnable and           *)
(* Processer::Run preserves them.  SchedulerProofs builds on it.           *)
(***************************************************************************)
EXTENDS Scheduler, Integers, TLAPS

In(q, m) == \E i \in 1..Len(q) : q[i] = m
NoRepeat(q) == \A i, j \in 1..Len(q) : q[i] = q[j] => i = j

\* The empty list has no element and no repeat.
LEMMA EmptyFacts == NoRepeat(<<>>) /\ \A u : ~In(<<>>, u)
BY DEF NoRepeat, In

\* What push, pop and the push of a whole list do to a list.
LEMMA PushFacts ==
  ASSUME NEW T, NEW q \in Seq(T), NEW e \in T
  PROVE  /\ Append(q, e) \in Seq(T)
         /\ \A u : In(Append(q, e), u) <=> In(q, u) \/ u = e
         /\ NoRepeat(q) /\ ~In(q, e) => NoRepeat(Append(q, e))
<1> PICK r : r = Append(q, e)
  BY ZenonT(60)
<1>1. /\ r \in Seq(T) /\ Len(r) = Len(q) + 1 /\ Len(q) \in Nat
      /\ \A i \in 1..Len(q) : r[i] = q[i]
      /\ r[Len(q) + 1] = e
  OBVIOUS
<1> PICK n : n = Len(q)
  BY Zenon
<1>2. \A i : i \in 1..Len(r) <=> i \in 1..n \/ i = n + 1
  BY <1>1
<1>3. \A u : In(r, u) <=> In(q, u) \/ u = e
  BY <1>1, <1>2, ZenonT(60) DEF In
<1>4. ASSUME NoRepeat(q), ~In(q, e) PROVE NoRepeat(r)
  BY <1>1, <1>2, <1>4 DEF NoRepeat, In
<1>5. QED
  BY <1>1, <1>3, <1>4, Zenon

\* What popping the head of a list leaves.
LEMMA PopFacts ==
  ASSUME NEW T, NEW q \in Seq(T), q # <<>>
  PROVE  /\ Head(q) \in T /\ Tail(q) \in Seq(T)
         /\ \A u : In(q, u) <=> u = Head(q) \/ In(Tail(q), u)
         /\ NoRepeat(q) => NoRepeat(Tail(q)) /\ ~In(Tail(q), Head(q))
<1> PICK r : r = Tail(q)
  BY ZenonT(60)
<1> PICK n : n = Len(q)
  BY Zenon
<1>1. /\ n \in Nat \ {0} /\ Head(q) = q[1] /\ q[1] \in T /\ Len(r) = n - 1 /\ r \in Seq(T)
      /\ \A j \in 1..(n - 1) : r[j] = q[j + 1]
  OBVIOUS
<1>2. \A j \in 1..(n - 1) : j + 1 \in 1..n /\ j + 1 # 1
  BY <1>1
<1>3. \A j \in 1..n : j = 1 \/ (j - 1 \in 1..(n - 1) /\ (j - 1) + 1 = j)
  BY <1>1
<1>4. 1 \in 1..n
  BY <1>1
<1>5. \A u : In(q, u) <=> u = Head(q) \/ In(r, u)
  <2>1. ASSUME NEW u, In(q, u) PROVE u = Head(q) \/ In(r, u)
    <3>1. PICK j \in 1..n : q[j] = u
      BY <2>1, Zenon DEF In
    <3>2. CASE j = 1
      BY <1>1, <3>1, <3>2, ZenonT(60)
    <3>3. CASE j # 1
      <4>1. j - 1 \in 1..(n - 1) /\ r[j - 1] = u
        BY <1>1, <1>3, <3>1, <3>3, Zenon
      <4>2. QED
        BY <1>1, <4>1, Zenon DEF In
    <3>4. QED
      BY <3>2, <3>3, Zenon
  <2>2. In(q, Head(q)) /\ \A u : In(r, u) => In(q, u)
    BY <1>1, <1>2, <1>4, Zenon DEF In
  <2>3. QED
    BY <2>1, <2>2, ZenonT(60)
<1>6. ASSUME NoRepeat(q) PROVE NoRepeat(r) /\ ~In(r, Head(q))
  <2>1. \A i, j \in 1..(n - 1) : i + 1 = j + 1 => i = j
    BY <1>1
  <2>2. NoRepeat(r)
    BY <1>1, <1>2, <1>6, <2>1 DEF NoRepeat
  <2>3. ~In(r, Head(q))
    BY <1>1, <1>2, <1>4, <1>6 DEF NoRepeat, In
  <2>4. QED
    BY <2>2, <2>3, Zenon
<1>7. QED
  BY <1>1, <1>5, <1>6, Zenon

\* What two lists hold when one is put behind the other.
LEMMA JoinFacts ==
  ASSUME NEW T, NEW q \in Seq(T), NEW r \in Seq(T)
  PROVE  /\ q \o r \in Seq(T)
         /\ \A u : In(q \o r, u) <=> In(q, u) \/ In(r, u)
         /\ NoRepeat(q) /\ NoRepeat(r) /\ (\A u : ~(In(q, u) /\ In(r, u))) => NoRepeat(q \o r)
<1> PICK s : s = q \o r
  BY ZenonT(60)
<1> PICK n, k : n = Len(q) /\ k = Len(r)
  BY ZenonT(60)
<1>1. /\ s \in Seq(T) /\ n \in Nat /\ k \in Nat /\ Len(s) = n + k
      /\ \A i \in 1..n : s[i] = q[i]
      /\ \A i \in 1..k : s[n + i] = r[i]
  OBVIOUS
<1>2. /\ \A i \in 1..n : i \in 1..(n + k)
      /\ \A i \in 1..k : n + i \in 1..(n + k)
      /\ \A i \in 1..(n + k) : i \in 1..n \/ (i - n \in 1..k /\ n + (i - n) = i)
  BY <1>1
<1>3. \A i \in 1..(n + k) : (i \in 1..n /\ s[i] = q[i]) \/ (i - n \in 1..k /\ s[i] = r[i - n])
  BY <1>1, <1>2, Zenon
<1>4. \A u : In(s, u) <=> In(q, u) \/ In(r, u)
  <2>1. \A u : In(q, u) => In(s, u)
    BY <1>1, <1>2, Zenon DEF In
  <2>2. ASSUME NEW u, In(r, u) PROVE In(s, u)
    <3>1. PICK j \in 1..k : r[j] = u
      BY <2>2, Zenon DEF In
    <3>2. n + j \in 1..(n + k) /\ s[n + j] = u
      BY <1>1, <1>2, <3>1, Zenon
    <3>3. QED
      BY <1>1, <3>2, ZenonT(60) DEF In
  <2>3. \A u : In(s, u) => In(q, u) \/ In(r, u)
    BY <1>1, <1>3 DEF In
  <2>4. QED
    BY <2>1, <2>2, <2>3, ZenonT(60)
<1>5. ASSUME NoRepeat(q), NoRepeat(r), \A u : ~(In(q, u) /\ In(r, u)) PROVE NoRepeat(s)
  <2> SUFFICES ASSUME NEW i \in 1..(n + k), NEW j \in 1..(n + k), s[i] = s[j]
               PROVE  i = j
    BY <1>1 DEF NoRepeat
  <2>1. \A a \in 1..n, b \in 1..k : q[a] # r[b]
    BY <1>5, ZenonT(60) DEF In
  <2>2. CASE i \in 1..n /\ s[i] = q[i] /\ j \in 1..n /\ s[j] = q[j]
    BY <1>5, <2>2, ZenonT(60) DEF NoRepeat
  <2>3. CASE i - n \in 1..k /\ s[i] = r[i - n] /\ j - n \in 1..k /\ s[j] = r[j - n]
    <3>1. i - n = j - n
      BY <1>5, <2>3, ZenonT(60) DEF NoRepeat
    <3>2. QED
      BY <1>1, <3>1
  <2>4. QED
    BY <1>3, <2>1, <2>2, <2>3, ZenonT(60)
<1>6. QED
  BY <1>1, <1>4, <1>5, Zenon

-----------------------------------------------------------------------------
(* The Processers *)

Holding == {"picked", "picking", "task", "blocked", "end", "throw"}

ThreadState ==
  [at : {"idle", "create", "loop"} \cup Holding, proc : Proc \cup {NULL},
   i : Nat, proc_c : Nat, average : Int,
   kept : Seq(Task), rest : Seq(Task), done : Nat]

SchedTypeOK ==
  /\ run_proc_list_ \in Seq(Proc)
  /\ proc_count \in {0, processer_count}
  /\ run_tasks_ \in Seq(Task)
  /\ task_count_ \in Int
  /\ proc_tasks \in [Proc -> Int]
  /\ runnable_list_ \in [Proc -> Seq(Task)]
  /\ proc_ \in [Task -> Proc \cup {NULL}]
  /\ life \in [Task -> {"new", "counted", "alive", "done", "fatal"}]
  /\ waiting \subseteq Task
  /\ thr \in [Thread -> ThreadState]

\* Where a thread is tells what it holds.
ThreadOK(h) ==
  /\ thr[h].proc \in Proc <=> thr[h].at \in Holding
  /\ thr[h].at \notin {"task", "blocked"} => thr[h].kept = <<>> /\ thr[h].rest = <<>>
  /\ thr[h].at = "blocked" => thr[h].rest # <<>>
  /\ thr[h].done > 0 => thr[h].at \in {"task", "blocked", "end", "throw"}
  /\ thr[h].at \in {"picked", "picking"} => thr[h].proc_c > 0

\* proc_init_lock_ lets one thread create, and only while none are counted.
OneCreates ==
  \A g \in Thread : thr[g].at = "create" =>
    /\ proc_count = 0 /\ thr[g].i <= processer_count
    /\ \A h \in Thread : thr[h].at = "create" => h = g

\* The Processers that exist.
Made(p) ==
  proc_count = processer_count \/ \E h \in Thread : thr[h].at = "create" /\ p <= thr[h].i

\* A Processer is in the list or in the hands of one thread.
ProcOK(p) ==
  /\ In(run_proc_list_, p) => Made(p)
  /\ \A h \in Thread : thr[h].proc = p =>
       Made(p) /\ ~In(run_proc_list_, p) /\ \A g \in Thread : thr[g].proc = p => g = h
  /\ "getcontext" \notin failed /\ Made(p) =>
       In(run_proc_list_, p) \/ \E h \in Thread : thr[h].proc = p

ProcInv ==
  /\ SchedTypeOK /\ OneCreates /\ NoRepeat(run_proc_list_)
  /\ \A h \in Thread : ThreadOK(h)
  /\ \A p \in Proc : ProcOK(p)

-----------------------------------------------------------------------------
(* The coroutines *)

\* The lists of thread h and of the Processer it holds.
InHands(h, t) == In(thr[h].kept, t) \/ In(thr[h].rest, t)
InProc(p, t) == In(runnable_list_[p], t)

TaskOK(t) ==
  /\ In(run_tasks_, t) => proc_[t] = NULL /\ life[t] = "alive"
  /\ life[t] \in {"new", "counted"} => proc_[t] = NULL
  /\ t \in waiting => proc_[t] \in Proc /\ life[t] = "alive"
  /\ \A p \in Proc : InProc(p, t) => proc_[t] = p /\ life[t] = "alive" /\ t \notin waiting
  /\ \A h \in Thread : InHands(h, t) =>
       /\ proc_[t] \in Proc /\ thr[h].proc = proc_[t] /\ life[t] = "alive"
       /\ t \notin waiting /\ ~InProc(proc_[t], t)
       /\ ~(In(thr[h].kept, t) /\ In(thr[h].rest, t))
  /\ failed = {} /\ life[t] = "alive" =>
       \/ In(run_tasks_, t) \/ t \in waiting
       \/ \E p \in Proc : InProc(p, t)
       \/ \E h \in Thread : InHands(h, t)

TaskInv ==
  /\ NoRepeat(run_tasks_)
  /\ \A p \in Proc : NoRepeat(runnable_list_[p])
  /\ \A h \in Thread : NoRepeat(thr[h].kept) /\ NoRepeat(thr[h].rest)
  /\ \A t \in Task : TaskOK(t)


USE SchedulerAssumption

-----------------------------------------------------------------------------
(* Processers are not lost or shared *)

\* The fields of a thread's state.
LEMMA ThreadFields ==
  ASSUME SchedTypeOK, NEW h \in Thread
  PROVE  /\ thr[h] \in ThreadState
         /\ thr[h].at \in {"idle", "create", "loop"} \cup Holding
         /\ thr[h].proc \in Proc \cup {NULL} /\ thr[h].i \in Nat /\ thr[h].proc_c \in Nat
         /\ thr[h].average \in Int /\ thr[h].done \in Nat
         /\ thr[h].kept \in Seq(Task) /\ thr[h].rest \in Seq(Task)
<1>1. thr[h] \in ThreadState
  BY Zenon DEF SchedTypeOK
<1>2. QED
  BY <1>1, Zenon DEF ThreadState

\* A step that changes the state of one thread.
LEMMA OneThread ==
  ASSUME SchedTypeOK, NEW h \in Thread, NEW r \in ThreadState, thr' = [thr EXCEPT ![h] = r]
  PROVE  /\ thr' \in [Thread -> ThreadState] /\ thr'[h] = r
         /\ \A g \in Thread \ {h} : thr'[g] = thr[g]
BY Zenon DEF SchedTypeOK

Goes(h, at, proc, kept, rest, done) ==
  /\ thr' \in [Thread -> ThreadState]
  /\ \A g \in Thread \ {h} : thr'[g] = thr[g]
  /\ thr'[h].at = at /\ thr'[h].proc = proc
  /\ thr'[h].kept = kept /\ thr'[h].rest = rest /\ thr'[h].done = done

\* What the steps of DoRunnable do to the thread.
LEMMA StartCreateGoes ==
  ASSUME ProcInv, NEW h \in Thread, StartCreate(h)
  PROVE  Goes(h, "create", NULL, <<>>, <<>>, 0) /\ thr'[h].i = 0
<1>1. SchedTypeOK /\ ThreadOK(h) /\ thr[h] \in ThreadState
  BY ThreadFields, Zenon DEF ProcInv
<1>2. PICK r : r = [thr[h] EXCEPT !.at = "create", !.i = proc_count]
  BY Zenon
<1>3. thr' = [thr EXCEPT ![h] = r]
  BY <1>1, <1>2, ZenonT(60) DEF StartCreate, SchedTypeOK
<1>4. proc_count \in Nat
  BY <1>1, ThreadFields DEF StartCreate, SchedTypeOK
<1>5. r \in ThreadState
  <2>1. thr[h] \in ThreadState
    BY <1>1, Zenon
  <2>2. QED
    BY <2>1, <1>2, <1>4, ZenonT(60) DEF ThreadState, Holding
<1>6. /\ r.at = "create" /\ r.proc = NULL /\ r.i = 0
      /\ r.kept = <<>> /\ r.rest = <<>> /\ r.done = 0
  BY <1>1, <1>2, ThreadFields DEF StartCreate, ThreadOK, ThreadState, Holding, SchedTypeOK
<1>7. QED
  BY <1>1, <1>3, <1>5, <1>6, OneThread, ZenonT(60) DEF Goes

\* The creation of a Processer moves the thread to its next one.
LEMMA NewProcesserGoes ==
  ASSUME ProcInv, NEW h \in Thread, NewProcesser(h)
  PROVE  Goes(h, "create", NULL, <<>>, <<>>, 0) /\ thr'[h].i = thr[h].i + 1
<1>1. SchedTypeOK /\ ThreadOK(h) /\ thr[h] \in ThreadState
  BY ThreadFields, Zenon DEF ProcInv
<1>2. PICK r : r = [thr[h] EXCEPT !.i = thr[h].i + 1]
  BY ZenonT(60)
<1>3. thr' = [thr EXCEPT ![h] = r]
  BY <1>1, <1>2, Zenon DEF NewProcesser, SchedTypeOK
<1>4. thr[h].i + 1 \in Nat
  BY <1>1, ThreadFields DEF NewProcesser
<1>5. r \in ThreadState
  <2>1. thr[h] \in ThreadState
    BY <1>1, Zenon
  <2>2. QED
    BY <2>1, <1>2, <1>4, ZenonT(60) DEF ThreadState, Holding
<1>6. /\ r.at = "create" /\ r.proc = NULL /\ r.i = thr[h].i + 1
      /\ r.kept = <<>> /\ r.rest = <<>> /\ r.done = 0
  BY <1>1, <1>2, ThreadFields DEF NewProcesser, ThreadOK, ThreadState, Holding
<1>7. QED
  BY <1>1, <1>3, <1>5, <1>6, OneThread, ZenonT(60) DEF Goes

\* A thread that pops a Processer holds the first of the list.
LEMMA PopProcGoes ==
  ASSUME ProcInv, NEW h \in Thread, PopProc(h)
  PROVE  Goes(h, "picked", Head(run_proc_list_), <<>>, <<>>, 0) /\ thr'[h].proc_c > 0
<1>1. SchedTypeOK /\ ThreadOK(h) /\ thr[h] \in ThreadState
  BY ThreadFields, Zenon DEF ProcInv
<1>2. PICK r : r = [thr[h] EXCEPT !.at = "picked", !.proc = Head(run_proc_list_)]
  BY Zenon
<1>3. thr' = [thr EXCEPT ![h] = r]
  BY <1>1, <1>2, ZenonT(60) DEF PopProc, SchedTypeOK
<1>4. Head(run_proc_list_) \in Proc
  BY <1>1, ThreadFields, PopFacts, Zenon DEF PopProc, ThreadOK, SchedTypeOK
<1>5. r \in ThreadState
  <2>1. thr[h] \in ThreadState
    BY <1>1, Zenon
  <2>2. QED
    BY <2>1, <1>2, <1>4, ZenonT(60) DEF ThreadState, Holding
<1>6. /\ r.at = "picked" /\ r.proc = Head(run_proc_list_) /\ r.proc_c > 0
      /\ r.kept = <<>> /\ r.rest = <<>> /\ r.done = 0
  BY <1>1, <1>2, ThreadFields DEF PopProc, ThreadOK, ThreadState, Holding
<1>7. QED
  BY <1>1, <1>3, <1>5, <1>6, OneThread, ZenonT(60) DEF Goes

\* A thread that has computed its share goes on to pick tasks.
LEMMA AverageGoes ==
  ASSUME ProcInv, NEW h \in Thread, Average(h)
  PROVE  Goes(h, "picking", thr[h].proc, <<>>, <<>>, 0) /\ thr'[h].proc_c > 0
<1>1. SchedTypeOK /\ ThreadOK(h) /\ thr[h] \in ThreadState
  BY ThreadFields, Zenon DEF ProcInv
<1>2. PICK r : r = [thr[h] EXCEPT !.at = "picking", !.average = IF run_tasks_ = <<>> THEN 0 ELSE Ceil(task_count_, thr[h].proc_c)]
  BY Zenon
<1>3. thr' = [thr EXCEPT ![h] = r]
  BY <1>1, <1>2, ZenonT(60) DEF Average, SchedTypeOK
<1>4. (IF run_tasks_ = <<>> THEN 0 ELSE Ceil(task_count_, thr[h].proc_c)) \in Int
  BY <1>1, ThreadFields DEF Average, SchedTypeOK, ThreadOK, Ceil
<1>5. r \in ThreadState
  <2>1. thr[h] \in ThreadState
    BY <1>1, Zenon
  <2>2. QED
    BY <2>1, <1>2, <1>4, ZenonT(60) DEF ThreadState, Holding
<1>6. /\ r.at = "picking" /\ r.proc = thr[h].proc /\ r.proc_c > 0
      /\ r.kept = <<>> /\ r.rest = <<>> /\ r.done = 0
  BY <1>1, <1>2, ThreadFields DEF Average, ThreadOK, ThreadState, Holding
<1>7. QED
  BY <1>1, <1>3, <1>5, <1>6, OneThread, ZenonT(60) DEF Goes

\* A Processer's run starts with its whole runnable list before it.
LEMMA StartProcGoes ==
  ASSUME ProcInv, NEW h \in Thread, StartProc(h)
  PROVE  Goes(h, "task", thr[h].proc, <<>>, runnable_list_[thr[h].proc], 0)
<1>1. SchedTypeOK /\ ThreadOK(h) /\ thr[h] \in ThreadState
  BY ThreadFields, Zenon DEF ProcInv
<1>2. PICK r : r = [thr[h] EXCEPT !.at = "task", !.rest = runnable_list_[thr[h].proc], !.average = 0]
  BY Zenon
<1>3. thr' = [thr EXCEPT ![h] = r]
  BY <1>1, <1>2, ZenonT(60) DEF StartProc, SchedTypeOK
<1>4. runnable_list_[thr[h].proc] \in Seq(Task) /\ 0 \in Int
  BY <1>1, ThreadFields DEF StartProc, SchedTypeOK, ThreadOK, Holding
<1>5. r \in ThreadState
  <2>1. thr[h] \in ThreadState
    BY <1>1, Zenon
  <2>2. QED
    BY <2>1, <1>2, <1>4, ZenonT(60) DEF ThreadState, Holding
<1>6. /\ r.at = "task" /\ r.proc = thr[h].proc
      /\ r.kept = <<>> /\ r.rest = runnable_list_[thr[h].proc] /\ r.done = 0
  BY <1>1, <1>2, ThreadFields DEF StartProc, ThreadOK, ThreadState, Holding
<1>7. QED
  BY <1>1, <1>3, <1>5, <1>6, OneThread, ZenonT(60) DEF Goes

\* A task that yields moves behind those the thread has run.
LEMMA TaskYieldsGoes ==
  ASSUME ProcInv, NEW h \in Thread, TaskYields(h)
  PROVE  Goes(h, "task", thr[h].proc, Append(thr[h].kept, Current(h)), Tail(thr[h].rest), thr[h].done)
<1>1. SchedTypeOK /\ ThreadOK(h) /\ thr[h] \in ThreadState
  BY ThreadFields, Zenon DEF ProcInv
<1>2. PICK r : r = [thr[h] EXCEPT !.kept = Append(thr[h].kept, Current(h)), !.rest = Tail(thr[h].rest)]
  BY Zenon
<1>3. thr' = [thr EXCEPT ![h] = r]
  BY <1>1, <1>2, ZenonT(60) DEF TaskYields, InTask, SchedTypeOK
<1>4. Current(h) \in Task /\ Append(thr[h].kept, Current(h)) \in Seq(Task) /\ Tail(thr[h].rest) \in Seq(Task)
  BY <1>1, ThreadFields, PopFacts DEF TaskYields, InTask, ThreadOK, Current
<1>5. r \in ThreadState
  <2>1. thr[h] \in ThreadState
    BY <1>1, Zenon
  <2>2. QED
    BY <2>1, <1>2, <1>4, ZenonT(60) DEF ThreadState, Holding
<1>6. /\ r.at = "task" /\ r.proc = thr[h].proc
      /\ r.kept = Append(thr[h].kept, Current(h)) /\ r.rest = Tail(thr[h].rest) /\ r.done = thr[h].done
  BY <1>1, <1>2, ThreadFields, Zenon DEF TaskYields, InTask, ThreadOK, ThreadState, Holding
<1>7. QED
  BY <1>1, <1>3, <1>5, <1>6, OneThread, ZenonT(60) DEF Goes

\* A task that blocks stays where it is until its wait is decided.
LEMMA TaskBlocksGoes ==
  ASSUME ProcInv, NEW h \in Thread, TaskBlocks(h)
  PROVE  Goes(h, "blocked", thr[h].proc, thr[h].kept, thr[h].rest, thr[h].done)
<1>1. SchedTypeOK /\ ThreadOK(h) /\ thr[h] \in ThreadState
  BY ThreadFields, Zenon DEF ProcInv
<1>2. PICK r : r = [thr[h] EXCEPT !.at = "blocked"]
  BY ZenonT(60)
<1>3. thr' = [thr EXCEPT ![h] = r]
  BY <1>1, <1>2, Zenon DEF TaskBlocks, InTask, SchedTypeOK
<1>4. r \in ThreadState
  <2>1. thr[h] \in ThreadState
    BY <1>1, Zenon
  <2>2. QED
    BY <2>1, <1>2, SMTT(60) DEF ThreadState, Holding
<1>5. /\ r.at = "blocked" /\ r.proc = thr[h].proc
      /\ r.kept = thr[h].kept /\ r.rest = thr[h].rest /\ r.done = thr[h].done
  BY <1>1, <1>2, ThreadFields, Zenon DEF TaskBlocks, InTask, ThreadOK, ThreadState, Holding
<1>6. QED
  BY <1>1, <1>3, <1>4, <1>5, OneThread, ZenonT(60) DEF Goes

\* A task that waits leaves the Processer.
LEMMA SwitchWaitsGoes ==
  ASSUME ProcInv, NEW h \in Thread, SwitchWaits(h)
  PROVE  Goes(h, "task", thr[h].proc, thr[h].kept, Tail(thr[h].rest), thr[h].done)
<1>1. SchedTypeOK /\ ThreadOK(h) /\ thr[h] \in ThreadState
  BY ThreadFields, Zenon DEF ProcInv
<1>2. PICK r : r = [thr[h] EXCEPT !.at = "task", !.rest = Tail(thr[h].rest)]
  BY Zenon
<1>3. thr' = [thr EXCEPT ![h] = r]
  BY <1>1, <1>2, ZenonT(60) DEF SwitchWaits, SchedTypeOK
<1>4. Tail(thr[h].rest) \in Seq(Task)
  BY <1>1, ThreadFields, PopFacts, Zenon DEF SwitchWaits, ThreadOK
<1>5. r \in ThreadState
  <2>1. thr[h] \in ThreadState
    BY <1>1, Zenon
  <2>2. QED
    BY <2>1, <1>2, <1>4, ZenonT(60) DEF ThreadState, Holding
<1>6. /\ r.at = "task" /\ r.proc = thr[h].proc
      /\ r.kept = thr[h].kept /\ r.rest = Tail(thr[h].rest) /\ r.done = thr[h].done
  BY <1>1, <1>2, ThreadFields, Zenon DEF SwitchWaits, ThreadOK, ThreadState, Holding
<1>7. QED
  BY <1>1, <1>3, <1>5, <1>6, OneThread, ZenonT(60) DEF Goes

\* A task whose wait is refused leaves the run, for the runnable list.
LEMMA SwitchRefusedGoes ==
  ASSUME ProcInv, NEW h \in Thread, SwitchRefused(h)
  PROVE  Goes(h, "task", thr[h].proc, thr[h].kept, Tail(thr[h].rest), thr[h].done)
<1>1. SchedTypeOK /\ ThreadOK(h) /\ thr[h] \in ThreadState
  BY ThreadFields, Zenon DEF ProcInv
<1>2. PICK r : r = [thr[h] EXCEPT !.at = "task", !.rest = Tail(thr[h].rest)]
  BY Zenon
<1>3. thr' = [thr EXCEPT ![h] = r]
  BY <1>1, <1>2, ZenonT(60) DEF SwitchRefused, SchedTypeOK
<1>4. Tail(thr[h].rest) \in Seq(Task)
  BY <1>1, ThreadFields, PopFacts, Zenon DEF SwitchRefused, ThreadOK
<1>5. r \in ThreadState
  <2>1. thr[h] \in ThreadState
    BY <1>1, Zenon
  <2>2. QED
    BY <2>1, <1>2, <1>4, ZenonT(60) DEF ThreadState, Holding
<1>6. /\ r.at = "task" /\ r.proc = thr[h].proc
      /\ r.kept = thr[h].kept /\ r.rest = Tail(thr[h].rest) /\ r.done = thr[h].done
  BY <1>1, <1>2, ThreadFields, Zenon DEF SwitchRefused, ThreadOK, ThreadState, Holding
<1>7. QED
  BY <1>1, <1>3, <1>5, <1>6, OneThread, ZenonT(60) DEF Goes

\* A task that need not wait moves behind those the thread has run.
LEMMA SwitchKeepsGoes ==
  ASSUME ProcInv, NEW h \in Thread, SwitchKeeps(h)
  PROVE  Goes(h, "task", thr[h].proc, Append(thr[h].kept, Current(h)), Tail(thr[h].rest), thr[h].done)
<1>1. SchedTypeOK /\ ThreadOK(h) /\ thr[h] \in ThreadState
  BY ThreadFields, Zenon DEF ProcInv
<1>2. PICK r : r = [thr[h] EXCEPT !.at = "task", !.kept = Append(thr[h].kept, Current(h)), !.rest = Tail(thr[h].rest)]
  BY Zenon
<1>3. thr' = [thr EXCEPT ![h] = r]
  BY <1>1, <1>2, ZenonT(60) DEF SwitchKeeps, SchedTypeOK
<1>4. Current(h) \in Task /\ Append(thr[h].kept, Current(h)) \in Seq(Task) /\ Tail(thr[h].rest) \in Seq(Task)
  BY <1>1, ThreadFields, PopFacts DEF SwitchKeeps, ThreadOK, Current
<1>5. r \in ThreadState
  <2>1. thr[h] \in ThreadState
    BY <1>1, Zenon
  <2>2. QED
    BY <2>1, <1>2, <1>4, ZenonT(60) DEF ThreadState, Holding
<1>6. /\ r.at = "task" /\ r.proc = thr[h].proc
      /\ r.kept = Append(thr[h].kept, Current(h)) /\ r.rest = Tail(thr[h].rest) /\ r.done = thr[h].done
  BY <1>1, <1>2, ThreadFields, ZenonT(60) DEF SwitchKeeps, ThreadOK, ThreadState, Holding
<1>7. QED
  BY <1>1, <1>3, <1>5, <1>6, OneThread, ZenonT(60) DEF Goes

\* A task that ends leaves the Processer and is counted.
LEMMA TaskDoneGoes ==
  ASSUME ProcInv, NEW h \in Thread, TaskDone(h)
  PROVE  Goes(h, "task", thr[h].proc, thr[h].kept, Tail(thr[h].rest), thr[h].done + 1)
<1>1. SchedTypeOK /\ ThreadOK(h) /\ thr[h] \in ThreadState
  BY ThreadFields, Zenon DEF ProcInv
<1>2. PICK r : r = [thr[h] EXCEPT !.rest = Tail(thr[h].rest), !.done = thr[h].done + 1]
  BY Zenon
<1>3. thr' = [thr EXCEPT ![h] = r]
  BY <1>1, <1>2, ZenonT(60) DEF TaskDone, Finish, InTask, SchedTypeOK
<1>4. Tail(thr[h].rest) \in Seq(Task) /\ thr[h].done + 1 \in Nat
  BY <1>1, ThreadFields, PopFacts DEF TaskDone, Finish, InTask, ThreadOK
<1>5. r \in ThreadState
  <2>1. thr[h] \in ThreadState
    BY <1>1, Zenon
  <2>2. QED
    BY <2>1, <1>2, <1>4, ZenonT(60) DEF ThreadState, Holding
<1>6. /\ r.at = "task" /\ r.proc = thr[h].proc
      /\ r.kept = thr[h].kept /\ r.rest = Tail(thr[h].rest) /\ r.done = thr[h].done + 1
  BY <1>1, <1>2, ThreadFields, Zenon DEF TaskDone, Finish, InTask, ThreadOK, ThreadState,
     Holding
<1>7. QED
  BY <1>1, <1>3, <1>5, <1>6, OneThread, ZenonT(60) DEF Goes

\* A task that throws is counted, and the run ends there.
LEMMA TaskThrowsGoes ==
  ASSUME ProcInv, NEW h \in Thread, TaskThrows(h)
  PROVE  Goes(h, "throw", thr[h].proc, <<>>, <<>>, thr[h].done + 1)
<1>1. SchedTypeOK /\ ThreadOK(h) /\ thr[h] \in ThreadState
  BY ThreadFields, Zenon DEF ProcInv
<1>2. PICK r : r = [thr[h] EXCEPT !.at = "throw", !.done = thr[h].done + 1, !.kept = <<>>, !.rest = <<>>]
  BY Zenon
<1>3. thr' = [thr EXCEPT ![h] = r]
  BY <1>1, <1>2, ZenonT(60) DEF TaskThrows, Finish, InTask, SchedTypeOK
<1>4. thr[h].done + 1 \in Nat /\ <<>> \in Seq(Task)
  BY <1>1, ThreadFields DEF TaskThrows, Finish, InTask
<1>5. r \in ThreadState
  <2>1. thr[h] \in ThreadState
    BY <1>1, Zenon
  <2>2. QED
    BY <2>1, <1>2, <1>4, ZenonT(60) DEF ThreadState, Holding
<1>6. /\ r.at = "throw" /\ r.proc = thr[h].proc
      /\ r.kept = <<>> /\ r.rest = <<>> /\ r.done = thr[h].done + 1
  BY <1>1, <1>2, ThreadFields, Zenon DEF TaskThrows, Finish, InTask, ThreadOK, ThreadState,
     Holding
<1>7. QED
  BY <1>1, <1>3, <1>5, <1>6, OneThread, ZenonT(60) DEF Goes

\* A swap that fails ends the run without a count.
LEMMA SwapFailsGoes ==
  ASSUME ProcInv, NEW h \in Thread, SwapFails(h)
  PROVE  Goes(h, "throw", thr[h].proc, <<>>, <<>>, thr[h].done)
<1>1. SchedTypeOK /\ ThreadOK(h) /\ thr[h] \in ThreadState
  BY ThreadFields, Zenon DEF ProcInv
<1>2. PICK r : r = [thr[h] EXCEPT !.at = "throw", !.kept = <<>>, !.rest = <<>>]
  BY Zenon
<1>3. thr' = [thr EXCEPT ![h] = r]
  BY <1>1, <1>2, ZenonT(60) DEF SwapFails, InTask, SchedTypeOK
<1>4. <<>> \in Seq(Task)
  BY <1>1, ThreadFields DEF SwapFails, InTask
<1>5. r \in ThreadState
  <2>1. thr[h] \in ThreadState
    BY <1>1, Zenon
  <2>2. QED
    BY <2>1, <1>2, <1>4, ZenonT(60) DEF ThreadState, Holding
<1>6. /\ r.at = "throw" /\ r.proc = thr[h].proc
      /\ r.kept = <<>> /\ r.rest = <<>> /\ r.done = thr[h].done
  BY <1>1, <1>2, ThreadFields, Zenon DEF SwapFails, InTask, ThreadOK, ThreadState, Holding
<1>7. QED
  BY <1>1, <1>3, <1>5, <1>6, OneThread, ZenonT(60) DEF Goes

\* A run that has gone through its tasks ends.
LEMMA EndTasksGoes ==
  ASSUME ProcInv, NEW h \in Thread, EndTasks(h)
  PROVE  Goes(h, "end", thr[h].proc, <<>>, <<>>, thr[h].done)
<1>1. SchedTypeOK /\ ThreadOK(h) /\ thr[h] \in ThreadState
  BY ThreadFields, Zenon DEF ProcInv
<1>2. PICK r : r = [thr[h] EXCEPT !.at = "end", !.kept = <<>>]
  BY Zenon
<1>3. thr' = [thr EXCEPT ![h] = r]
  BY <1>1, <1>2, ZenonT(60) DEF EndTasks, SchedTypeOK
<1>4. <<>> \in Seq(Task)
  BY <1>1, ThreadFields, Zenon DEF EndTasks
<1>5. r \in ThreadState
  <2>1. thr[h] \in ThreadState
    BY <1>1, Zenon
  <2>2. QED
    BY <2>1, <1>2, <1>4, ZenonT(60) DEF ThreadState, Holding
<1>6. /\ r.at = "end" /\ r.proc = thr[h].proc
      /\ r.kept = <<>> /\ r.rest = <<>> /\ r.done = thr[h].done
  BY <1>1, <1>2, ThreadFields, Zenon DEF EndTasks, ThreadOK, ThreadState, Holding
<1>7. QED
  BY <1>1, <1>3, <1>5, <1>6, OneThread, ZenonT(60) DEF Goes

\* The record that the thread starts its loop with, and the one between two calls.
LEMMA FreshThread ==
  ASSUME ProcInv, NEW h \in Thread, NEW n \in Nat, NEW c \in Nat, NEW a \in {"idle", "loop"},
         NEW r, r = [at |-> a, proc |-> NULL, i |-> n, proc_c |-> c, average |-> 0,
                     kept |-> <<>>, rest |-> <<>>, done |-> 0],
         thr' = [thr EXCEPT ![h] = r]
  PROVE  Goes(h, a, NULL, <<>>, <<>>, 0)
<1>1. SchedTypeOK
  BY Zenon DEF ProcInv
<1>2. r \in ThreadState
  BY DEF ThreadState
<1>3. /\ r.at = a /\ r.proc = NULL /\ r.kept = <<>> /\ r.rest = <<>> /\ r.done = 0
  BY Zenon
<1>4. QED
  BY <1>1, <1>2, <1>3, OneThread, ZenonT(60) DEF Goes

\* A thread that goes on looping holds nothing.
LEMMA LoopingGoes ==
  ASSUME ProcInv, NEW h \in Thread, thr' = Looping(h)
  PROVE  Goes(h, "loop", NULL, <<>>, <<>>, 0)
<1>1. Len(run_proc_list_) \in Nat
  BY DEF ProcInv, SchedTypeOK
<1>2. PICK r : r = [IdleThread EXCEPT !.at = "loop", !.proc_c = Len(run_proc_list_)]
  BY Zenon
<1>3. r = [at |-> "loop", proc |-> NULL, i |-> 0, proc_c |-> Len(run_proc_list_), average |-> 0,
           kept |-> <<>>, rest |-> <<>>, done |-> 0]
  BY <1>2, ZenonT(60) DEF IdleThread
<1>4. thr' = [thr EXCEPT ![h] = r]
  BY <1>2, Zenon DEF Looping
<1>5. QED
  BY <1>1, <1>3, <1>4, FreshThread, ZenonT(60)

\* A thread that leaves Run holds nothing.
LEMMA IdleGoes ==
  ASSUME ProcInv, NEW h \in Thread, thr' = [thr EXCEPT ![h] = IdleThread]
  PROVE  Goes(h, "idle", NULL, <<>>, <<>>, 0)
BY FreshThread, ZenonT(60) DEF IdleThread

\* A thread that puts its Processer back holds nothing.
LEMMA EndProcGoes ==
  ASSUME ProcInv, NEW h \in Thread, EndProc(h)
  PROVE  \E a \in {"idle", "loop"} : Goes(h, a, NULL, <<>>, <<>>, 0)
<1>1. SchedTypeOK /\ thr[h].i \in Nat /\ thr[h].proc_c \in Nat
  BY ThreadFields, Zenon DEF ProcInv
<1>2. CASE thr[h].at = "throw"
  <2>1. thr' = [thr EXCEPT ![h] = IdleThread]
    BY <1>2, Zenon DEF EndProc
  <2>2. QED
    BY <2>1, IdleGoes, ZenonT(60)
<1>3. CASE thr[h].at # "throw"
  <2>1. PICK r : r = [IdleThread EXCEPT !.at = "loop", !.i = thr[h].i + 1, !.proc_c = thr[h].proc_c]
    BY Zenon
  <2>2. r = [at |-> "loop", proc |-> NULL, i |-> thr[h].i + 1, proc_c |-> thr[h].proc_c,
             average |-> 0, kept |-> <<>>, rest |-> <<>>, done |-> 0]
    BY <2>1, ZenonT(60) DEF IdleThread
  <2>3. thr' = [thr EXCEPT ![h] = r] /\ thr[h].i + 1 \in Nat
    BY <1>1, <1>3, <2>1 DEF EndProc
  <2>4. QED
    BY <1>1, <2>2, <2>3, FreshThread, ZenonT(60)
<1>4. QED
  BY <1>2, <1>3, Zenon

\* Steps that leave the Processers where they are.
LEMMA ProcStays ==
  ASSUME ProcInv, SchedTypeOK', UNCHANGED schedvars, failed \subseteq failed',
         NEW h \in Thread, ThreadOK(h)',
         \A g \in Thread \ {h} : thr'[g] = thr[g],
         thr'[h].proc = thr[h].proc,
         thr[h].at # "create", thr'[h].at # "create"
  PROVE  ProcInv'
<1>1. \A g \in Thread : ThreadOK(g)'
  BY DEF ProcInv, ThreadOK
<1>2. OneCreates'
  BY Zenon DEF ProcInv, OneCreates, schedvars
<1>3. \A p \in Proc : Made(p)' <=> Made(p)
  BY Zenon DEF Made, schedvars
<1>4. \A g \in Thread : thr'[g].proc = thr[g].proc
  BY Zenon
<1>5. ASSUME NEW p \in Proc PROVE ProcOK(p)'
  <2>1. run_proc_list_' = run_proc_list_ /\ ("getcontext" \notin failed' => "getcontext" \notin failed)
    BY Zenon DEF schedvars
  <2>2. ProcOK(p)
    BY Zenon DEF ProcInv
  <2>3. QED
    BY <1>3, <1>4, <2>1, <2>2, Zenon DEF ProcOK
<1>6. QED
  BY <1>1, <1>2, <1>5, Zenon DEF ProcInv, schedvars

\* A step that changes the runnable list of one Processer.
LEMMA OneList ==
  ASSUME SchedTypeOK, NEW p \in Proc, NEW q \in Seq(Task),
         runnable_list_' = [runnable_list_ EXCEPT ![p] = q]
  PROVE  /\ runnable_list_' \in [Proc -> Seq(Task)] /\ runnable_list_'[p] = q
         /\ \A o \in Proc \ {p} : runnable_list_'[o] = runnable_list_[o]
BY Zenon DEF SchedTypeOK

\* The current coroutine of a thread.
LEMMA CurrentFacts ==
  ASSUME ProcInv, NEW h \in Thread, InTask(h) \/ thr[h].at = "blocked"
  PROVE  /\ thr[h].proc \in Proc /\ thr[h].rest # <<>>
         /\ Current(h) \in Task /\ Tail(thr[h].rest) \in Seq(Task)
         /\ runnable_list_[thr[h].proc] \in Seq(Task)
         /\ Append(runnable_list_[thr[h].proc], Current(h)) \in Seq(Task)
<1>1. SchedTypeOK /\ ThreadOK(h)
  BY Zenon DEF ProcInv
<1>2. thr[h].proc \in Proc /\ thr[h].rest # <<>>
  BY <1>1, Zenon DEF ThreadOK, Holding, InTask
<1>3. Current(h) \in Task /\ Tail(thr[h].rest) \in Seq(Task)
  BY <1>1, <1>2, ThreadFields, PopFacts, Zenon DEF Current
<1>4. runnable_list_[thr[h].proc] \in Seq(Task)
  BY <1>1, <1>2, Zenon DEF SchedTypeOK
<1>5. QED
  BY <1>2, <1>3, <1>4, PushFacts, Zenon

\* The steps of Processer::Run, and those of DoRunnable around it.
LEMMA StayProcInv ==
  ASSUME ProcInv, NEW h \in Thread,
         \/ Average(h) \/ CherryPick(h) \/ StartProc(h) \/ TaskTurn(h) \/ Switch(h) \/ EndTasks(h)
         \/ StartRunnable(h) \/ EndRunnable(h)
  PROVE  ProcInv'
<1>1. SchedTypeOK /\ ThreadOK(h)
  BY Zenon DEF ProcInv
<1>2. ASSUME NEW a \in {"idle", "loop"} \cup Holding, NEW q, NEW k, NEW s, NEW d \in Nat,
             Goes(h, a, q, k, s, d), q = thr[h].proc, thr[h].at # "create",
             q \in Proc <=> a \in Holding,
             a \notin {"task", "blocked"} => k = <<>> /\ s = <<>>,
             a = "blocked" => s # <<>>,
             d > 0 => a \in {"task", "blocked", "end", "throw"},
             a \in {"picked", "picking"} => thr'[h].proc_c > 0,
             SchedTypeOK', UNCHANGED schedvars, failed \subseteq failed'
      PROVE  ProcInv'
  <2>1. ThreadOK(h)'
    BY <1>2, Zenon DEF Goes, ThreadOK
  <2>2. /\ \A g \in Thread \ {h} : thr'[g] = thr[g]
        /\ thr'[h].proc = thr[h].proc /\ thr'[h].at # "create"
    BY <1>2, Zenon DEF Goes, Holding
  <2>3. QED
    BY <1>2, <2>1, <2>2, ProcStays, SMTT(60)
<1>3. CASE Average(h)
  <2>1. Goes(h, "picking", thr[h].proc, <<>>, <<>>, 0) /\ thr'[h].proc_c > 0
    BY <1>3, AverageGoes, Zenon
  <2>2. SchedTypeOK' /\ UNCHANGED schedvars /\ failed \subseteq failed'
    BY <1>1, <1>3, <2>1, Zenon DEF Average, Goes, SchedTypeOK, schedvars, taskvars, procvars
  <2>3. QED
    <3>1. thr[h].proc \in Proc /\ thr[h].at # "create"
      BY <1>1, <1>3, Zenon DEF Average, ThreadOK, Holding
    <3>2. "picking" \in {"idle", "loop"} \cup Holding /\ "picking" \in Holding
      BY Zenon DEF Holding
    <3>3. QED
      BY <1>2, <2>1, <2>2, <3>1, <3>2
<1>4. CASE StartProc(h)
  <2>1. Goes(h, "task", thr[h].proc, <<>>, runnable_list_[thr[h].proc], 0)
    BY <1>4, StartProcGoes, Zenon
  <2>2. SchedTypeOK' /\ UNCHANGED schedvars /\ failed \subseteq failed'
    <3>1. thr[h].proc \in Proc /\ <<>> \in Seq(Task)
      BY <1>1, <1>4 DEF StartProc, ThreadOK, Holding
    <3>2. runnable_list_' \in [Proc -> Seq(Task)]
      BY <1>1, <1>4, <3>1, OneList, ZenonT(60) DEF StartProc
    <3>3. QED
      BY <1>1, <1>4, <2>1, <3>2, Zenon DEF StartProc, Goes, SchedTypeOK, schedvars, taskvars
  <2>3. QED
    BY <1>1, <1>2, <1>4, <2>1, <2>2, Zenon DEF StartProc, ThreadOK, Holding
<1>5. CASE StartRunnable(h)
  <2>1. Goes(h, "loop", NULL, <<>>, <<>>, 0)
    BY <1>5, LoopingGoes, Zenon DEF StartRunnable
  <2>2. SchedTypeOK' /\ UNCHANGED schedvars /\ failed \subseteq failed'
    BY <1>1, <1>5, <2>1, Zenon DEF StartRunnable, Goes, SchedTypeOK, schedvars, taskvars,
       procvars
  <2>3. thr[h].proc = NULL /\ NULL \notin Proc
    BY <1>1, <1>5, ThreadFields, ZenonT(60) DEF StartRunnable, ThreadOK, Holding
  <2>4. QED
    BY <1>2, <1>5, <2>1, <2>2, <2>3 DEF StartRunnable, Holding
<1>6. CASE EndRunnable(h)
  <2>1. Goes(h, "idle", NULL, <<>>, <<>>, 0)
    BY <1>6, IdleGoes, ZenonT(60) DEF EndRunnable
  <2>2. SchedTypeOK' /\ UNCHANGED schedvars /\ failed \subseteq failed'
    BY <1>1, <1>6, <2>1, ZenonT(60) DEF EndRunnable, Goes, SchedTypeOK, schedvars, taskvars,
       procvars
  <2>3. thr[h].proc = NULL /\ NULL \notin Proc
    BY <1>1, <1>6, ThreadFields, ZenonT(60) DEF EndRunnable, ThreadOK, Holding
  <2>4. QED
    BY <1>2, <1>6, <2>1, <2>2, <2>3 DEF EndRunnable, Holding
<1>7. CASE CherryPick(h)
  <2>1. /\ Head(run_tasks_) \in Task /\ Tail(run_tasks_) \in Seq(Task)
        /\ thr[h].proc \in Proc
    BY <1>1, <1>7, PopFacts, ZenonT(60) DEF CherryPick, CanPick, SchedTypeOK, ThreadOK, Holding
  <2>2. SchedTypeOK' /\ UNCHANGED <<schedvars, thr, failed>>
    BY <1>1, <1>7, <2>1, SMTT(60) DEF CherryPick, SchedTypeOK, schedvars
  <2>3. thr[h].at # "create"
    BY <1>7, ZenonT(60) DEF CherryPick, CanPick
  <2>4. ThreadOK(h)'
    BY <1>1, <2>2, ZenonT(60) DEF ThreadOK
  <2>5. QED
    BY <2>2, <2>3, <2>4, ProcStays, Zenon
<1>8. CASE TaskYields(h)
  <2>1. Goes(h, "task", thr[h].proc, Append(thr[h].kept, Current(h)), Tail(thr[h].rest), thr[h].done)
    BY <1>8, TaskYieldsGoes, Zenon
  <2>2. InTask(h) /\ thr[h].at \in {"task", "blocked"}
    BY <1>8, Zenon DEF TaskYields, InTask
  <2>3. SchedTypeOK' /\ UNCHANGED schedvars /\ failed \subseteq failed'
    BY <1>1, <1>8, <2>1, ZenonT(60) DEF TaskYields, Goes, SchedTypeOK, schedvars, taskvars,
       procvars
  <2>4. QED
    BY <1>1, <1>2, <2>1, <2>2, <2>3, ThreadFields, ZenonT(60) DEF ThreadOK, Holding, InTask
<1>9. CASE TaskBlocks(h)
  <2>1. Goes(h, "blocked", thr[h].proc, thr[h].kept, thr[h].rest, thr[h].done)
    BY <1>9, TaskBlocksGoes, Zenon
  <2>2. InTask(h) /\ thr[h].at \in {"task", "blocked"}
    BY <1>9, Zenon DEF TaskBlocks, InTask
  <2>3. SchedTypeOK' /\ UNCHANGED schedvars /\ failed \subseteq failed'
    BY <1>1, <1>9, <2>1, ZenonT(60) DEF TaskBlocks, Goes, SchedTypeOK, schedvars, taskvars,
       procvars
  <2>4. QED
    BY <1>1, <1>2, <2>1, <2>2, <2>3, ThreadFields, Zenon DEF ThreadOK, Holding, InTask
<1>10. CASE TaskDone(h)
  <2>1. Goes(h, "task", thr[h].proc, thr[h].kept, Tail(thr[h].rest), thr[h].done + 1)
    BY <1>10, TaskDoneGoes, Zenon
  <2>2. InTask(h) /\ thr[h].at \in {"task", "blocked"}
    BY <1>10, Zenon DEF TaskDone, Finish, InTask
  <2>3. SchedTypeOK' /\ UNCHANGED schedvars /\ failed \subseteq failed'
    BY <1>1, <1>10, <2>1, <2>2, CurrentFacts, SMTT(60) DEF TaskDone, Finish, Goes,
       SchedTypeOK, schedvars, taskvars, procvars
  <2>4. QED
    BY <1>1, <1>2, <2>1, <2>2, <2>3, ThreadFields, SMTT(60) DEF ThreadOK, Holding, InTask
<1>11. CASE TaskThrows(h)
  <2>1. Goes(h, "throw", thr[h].proc, <<>>, <<>>, thr[h].done + 1)
    BY <1>11, TaskThrowsGoes, ZenonT(60)
  <2>2. InTask(h) /\ thr[h].at \in {"task", "blocked"}
    BY <1>11, SMTT(60) DEF TaskThrows, Finish, InTask
  <2>3. runnable_list_' \in [Proc -> Seq(Task)]
    <3>1. runnable_list_[thr[h].proc] \o thr[h].kept \o Tail(thr[h].rest) \in Seq(Task)
      BY <1>1, <2>2, CurrentFacts, ThreadFields, JoinFacts, SMTT(60)
    <3>2. QED
      BY <1>1, <1>11, <2>2, <3>1, CurrentFacts, OneList, ZenonT(60) DEF TaskThrows
  <2>4. SchedTypeOK' /\ UNCHANGED schedvars /\ failed \subseteq failed'
    BY <1>1, <1>11, <2>1, <2>2, <2>3, CurrentFacts, SMTT(60) DEF TaskThrows, Finish, Goes,
       SchedTypeOK, schedvars, taskvars, procvars
  <2>5. QED
    BY <1>1, <1>2, <2>1, <2>2, <2>4, ThreadFields, SMTT(60) DEF ThreadOK, Holding, InTask
<1>12. CASE SwapFails(h)
  <2>1. Goes(h, "throw", thr[h].proc, <<>>, <<>>, thr[h].done)
    BY <1>12, SwapFailsGoes, Zenon
  <2>2. InTask(h) /\ thr[h].at \in {"task", "blocked"}
    BY <1>12, SMTT(60) DEF SwapFails, InTask
  <2>3. runnable_list_' \in [Proc -> Seq(Task)]
    BY <1>1, <1>12, <2>2, CurrentFacts, OneList, ZenonT(60) DEF SwapFails
  <2>4. SchedTypeOK' /\ UNCHANGED schedvars /\ failed \subseteq failed'
    BY <1>1, <1>12, <2>1, <2>3, ZenonT(60) DEF SwapFails, Goes, SchedTypeOK, schedvars,
       taskvars, procvars
  <2>5. QED
    BY <1>1, <1>2, <2>1, <2>2, <2>4, ThreadFields, ZenonT(60) DEF ThreadOK, Holding, InTask
<1>13. CASE SwitchWaits(h)
  <2>1. Goes(h, "task", thr[h].proc, thr[h].kept, Tail(thr[h].rest), thr[h].done)
    BY <1>13, SwitchWaitsGoes, Zenon
  <2>2. thr[h].at = "blocked" /\ thr[h].at \in {"task", "blocked"}
    BY <1>13, Zenon DEF SwitchWaits
  <2>3. SchedTypeOK' /\ UNCHANGED schedvars /\ failed \subseteq failed'
    BY <1>1, <1>13, <2>1, <2>2, CurrentFacts, SMTT(60) DEF SwitchWaits, Goes, SchedTypeOK,
       schedvars, taskvars, procvars
  <2>4. QED
    BY <1>1, <1>2, <2>1, <2>2, <2>3, ThreadFields, Zenon DEF ThreadOK, Holding
<1>14. CASE SwitchRefused(h)
  <2>1. Goes(h, "task", thr[h].proc, thr[h].kept, Tail(thr[h].rest), thr[h].done)
    BY <1>14, SwitchRefusedGoes, Zenon
  <2>2. thr[h].at = "blocked" /\ thr[h].at \in {"task", "blocked"}
    BY <1>14, SMTT(60) DEF SwitchRefused
  <2>3. runnable_list_' \in [Proc -> Seq(Task)]
    BY <1>1, <1>14, <2>2, CurrentFacts, OneList, ZenonT(60) DEF SwitchRefused
  <2>4. SchedTypeOK' /\ UNCHANGED schedvars /\ failed \subseteq failed'
    BY <1>1, <1>14, <2>1, <2>3, ZenonT(60) DEF SwitchRefused, Goes, SchedTypeOK, schedvars,
       taskvars, procvars
  <2>5. QED
    BY <1>1, <1>2, <2>1, <2>2, <2>4, ThreadFields, Zenon DEF ThreadOK, Holding
<1>15. CASE SwitchKeeps(h)
  <2>1. Goes(h, "task", thr[h].proc, Append(thr[h].kept, Current(h)), Tail(thr[h].rest), thr[h].done)
    BY <1>15, SwitchKeepsGoes, Zenon
  <2>2. thr[h].at = "blocked" /\ thr[h].at \in {"task", "blocked"}
    BY <1>15, Zenon DEF SwitchKeeps
  <2>3. SchedTypeOK' /\ UNCHANGED schedvars /\ failed \subseteq failed'
    BY <1>1, <1>15, <2>1, ZenonT(60) DEF SwitchKeeps, Goes, SchedTypeOK, schedvars, taskvars,
       procvars
  <2>4. QED
    BY <1>1, <1>2, <2>1, <2>2, <2>3, ThreadFields, Zenon DEF ThreadOK, Holding
<1>16. CASE EndTasks(h)
  <2>1. Goes(h, "end", thr[h].proc, <<>>, <<>>, thr[h].done)
    BY <1>16, EndTasksGoes, Zenon
  <2>2. thr[h].at = "task"
    BY <1>16, SMTT(60) DEF EndTasks
  <2>3. runnable_list_' \in [Proc -> Seq(Task)]
    <3>1. thr[h].proc \in Proc
      BY <1>1, <2>2, ZenonT(60) DEF ThreadOK, Holding
    <3>2. runnable_list_[thr[h].proc] \o thr[h].kept \in Seq(Task)
      BY <1>1, <3>1, ThreadFields, JoinFacts, SMTT(60) DEF SchedTypeOK
    <3>3. QED
      BY <1>1, <1>16, <3>1, <3>2, OneList, ZenonT(60) DEF EndTasks
  <2>4. SchedTypeOK' /\ UNCHANGED schedvars /\ failed \subseteq failed'
    BY <1>1, <1>16, <2>1, <2>3, Zenon DEF EndTasks, Goes, SchedTypeOK, schedvars, taskvars,
       procvars
  <2>5. QED
    BY <1>1, <1>2, <2>1, <2>2, <2>4, ThreadFields, SMTT(60) DEF ThreadOK, Holding
<1>17. QED
  BY <1>3, <1>4, <1>5, <1>6, <1>7, <1>8, <1>9, <1>10, <1>11, <1>12, <1>13, <1>14, <1>15,
     <1>16, Zenon
     DEF TaskTurn, Switch

\* Creating, waking up.
LEMMA TaskProcInv ==
  ASSUME ProcInv, TaskInv, NEW t \in Task, CreateCount(t) \/ CreatePush(t) \/ WakeTask(t)
  PROVE  ProcInv'
<1>1. SchedTypeOK
  BY Zenon DEF ProcInv
<1>2. UNCHANGED <<run_proc_list_, proc_count, thr, failed>>
  BY Zenon DEF CreateCount, CreatePush, WakeTask, schedvars
<1>3. SchedTypeOK'
  <2>1. CASE CreateCount(t)
    BY <1>1, <1>2, <2>1 DEF CreateCount, procvars, SchedTypeOK
  <2>2. CASE CreatePush(t)
    BY <1>1, <1>2, <2>2 DEF CreatePush, procvars, SchedTypeOK
  <2>3. CASE WakeTask(t)
    <3>1. proc_[t] \in Proc
      BY <2>3, Zenon DEF WakeTask, TaskInv, TaskOK
    <3>2. Append(runnable_list_[proc_[t]], t) \in Seq(Task)
      BY <1>1, <3>1, PushFacts, SMTT(60) DEF SchedTypeOK
    <3>3. runnable_list_' \in [Proc -> Seq(Task)]
      BY <1>1, <2>3, <3>1, <3>2, OneList, ZenonT(60) DEF WakeTask
    <3>4. QED
      BY <1>1, <1>2, <2>3, <3>3, ZenonT(60) DEF WakeTask, taskvars, SchedTypeOK
  <2>4. QED
    BY <2>1, <2>2, <2>3, Zenon
<1>4. /\ OneCreates' /\ NoRepeat(run_proc_list_)'
      /\ \A h \in Thread : ThreadOK(h)'
  BY <1>2, ZenonT(60) DEF ProcInv, OneCreates, ThreadOK
<1>5. \A p \in Proc : ProcOK(p)'
  BY <1>2 DEF ProcInv, ProcOK, Made
<1>6. QED
  BY <1>3, <1>4, <1>5, Zenon DEF ProcInv

\* Run creates the Processers: the one thread that does gives them numbers that
\* nobody has seen.
LEMMA CreateProcInv ==
  ASSUME ProcInv, NEW h \in Thread, StartCreate(h) \/ NewProcesser(h) \/ EndCreate(h)
  PROVE  ProcInv'
<1>1. SchedTypeOK /\ ThreadOK(h) /\ OneCreates /\ NoRepeat(run_proc_list_)
  BY ZenonT(60) DEF ProcInv
<1>2. ASSUME NEW a \in {"create", "loop"}, Goes(h, a, NULL, <<>>, <<>>, 0)
      PROVE  \A g \in Thread : ThreadOK(g)' /\ (g # h => thr'[g] = thr[g])
  BY <1>2 DEF ProcInv, Goes, ThreadOK, Holding
<1>3. thr[h].proc = NULL /\ NULL \notin Proc
  BY <1>1, ThreadFields, ZenonT(60) DEF StartCreate, NewProcesser, EndCreate, ThreadOK, Holding
<1>4. CASE StartCreate(h)
  <2>1. Goes(h, "create", NULL, <<>>, <<>>, 0) /\ thr'[h].i = 0
    BY <1>4, StartCreateGoes, Zenon
  <2>2. SchedTypeOK' /\ UNCHANGED <<run_proc_list_, proc_count, failed>>
    BY <1>1, <1>4, <2>1, Zenon DEF StartCreate, Goes, SchedTypeOK, schedvars, taskvars, procvars
  <2>3. \A g \in Thread : thr[g].at # "create"
    BY <1>4, Zenon DEF StartCreate, ProcInitLocked
  <2>4. proc_count = 0
    BY <1>1, <1>4, SMTT(60) DEF StartCreate, SchedTypeOK
  <2>5. OneCreates'
    BY <1>2, <2>1, <2>2, <2>3, <2>4, SMTT(60) DEF OneCreates, Goes
  <2>6. \A p \in Proc : ~Made(p) /\ ~Made(p)'
    BY <1>2, <2>1, <2>2, <2>3, <2>4, SMTT(60) DEF Made, Goes, Proc
  <2>7. ASSUME NEW p \in Proc PROVE ProcOK(p)'
    <3>1. \A g \in Thread : thr'[g].proc = thr[g].proc
      BY <1>2, <1>3, <2>1, ZenonT(60) DEF Goes
    <3>2. QED
      BY <2>2, <2>6, <3>1, SMTT(60) DEF ProcInv, ProcOK
  <2>8. QED
    BY <1>1, <1>2, <2>1, <2>2, <2>5, <2>7, Zenon DEF ProcInv
<1>5. CASE NewProcesser(h)
  <2>1. Goes(h, "create", NULL, <<>>, <<>>, 0) /\ thr'[h].i = thr[h].i + 1
    BY <1>5, NewProcesserGoes, Zenon
  <2>2. PICK q : q = thr[h].i + 1
    BY Zenon
  <2>3. /\ q \in Proc /\ run_proc_list_' = Append(run_proc_list_, q) /\ proc_count = 0
        /\ UNCHANGED <<proc_count, failed>> /\ thr[h].at = "create"
    BY <1>1, <1>5, <2>2, ThreadFields DEF NewProcesser, Proc, OneCreates
  <2>4. run_proc_list_' \in Seq(Proc) /\ \A p : In(run_proc_list_', p) <=> In(run_proc_list_, p) \/ p = q
    BY <1>1, <2>3, PushFacts DEF SchedTypeOK
  <2>5. SchedTypeOK'
    BY <1>1, <1>5, <2>1, <2>4, ZenonT(60) DEF NewProcesser, Goes, SchedTypeOK, taskvars,
       procvars
  <2>6. \A g \in Thread : thr[g].at = "create" => g = h
    BY <1>1, <2>3, Zenon DEF OneCreates
  <2>7. \A p \in Proc : Made(p)' <=> Made(p) \/ p = q
    <3>1. \A p \in Proc : Made(p) <=> p <= thr[h].i
      BY <2>3, <2>6, ZenonT(60) DEF Made
    <3>2. \A p \in Proc : Made(p)' <=> p <= thr[h].i + 1
      BY <1>2, <2>1, <2>3, <2>6, SMTT(60) DEF Made, Goes
    <3>3. QED
      BY <1>1, <2>2, <3>1, <3>2, ThreadFields DEF Proc
  <2>8. ~Made(q)
    BY <1>1, <2>2, <2>3, <2>6, ThreadFields DEF Made
  <2>9. NoRepeat(run_proc_list_')
    <3>1. ~In(run_proc_list_, q)
      BY <2>3, <2>8, ZenonT(60) DEF ProcInv, ProcOK
    <3>2. QED
      BY <1>1, <2>3, <3>1, PushFacts, ZenonT(60) DEF SchedTypeOK
  <2>10. OneCreates'
    BY <1>2, <2>1, <2>2, <2>3, <2>6, SMTT(60) DEF OneCreates, Goes, Proc
  <2>11. ASSUME NEW p \in Proc PROVE ProcOK(p)'
    <3>1. \A g \in Thread : thr'[g].proc = thr[g].proc
      BY <1>2, <1>3, <2>1, Zenon DEF Goes
    <3>2. ProcOK(p) /\ ProcOK(q)
      BY <2>3, ZenonT(60) DEF ProcInv
    <3>3. QED
      BY <2>3, <2>4, <2>7, <2>8, <3>1, <3>2, ZenonT(60) DEF ProcOK
  <2>12. QED
    BY <1>2, <2>1, <2>5, <2>9, <2>10, <2>11, SMTT(60) DEF ProcInv
<1>6. CASE EndCreate(h)
  <2>1. Goes(h, "loop", NULL, <<>>, <<>>, 0)
    BY <1>6, LoopingGoes, Zenon DEF EndCreate
  <2>2. /\ UNCHANGED <<run_proc_list_, failed>> /\ proc_count' = processer_count
        /\ thr[h].at = "create" /\ thr[h].i = processer_count
    BY <1>6, ZenonT(60) DEF EndCreate
  <2>3. SchedTypeOK'
    BY <1>1, <1>6, <2>1, <2>2, ZenonT(60) DEF EndCreate, Goes, SchedTypeOK, taskvars, procvars
  <2>4. \A g \in Thread : thr'[g].at # "create"
    BY <1>1, <1>2, <2>1, <2>2, Zenon DEF OneCreates, Goes
  <2>5. \A p \in Proc : Made(p) /\ Made(p)'
    BY <2>2, SMTT(60) DEF Made, Proc
  <2>6. ASSUME NEW p \in Proc PROVE ProcOK(p)'
    <3>1. \A g \in Thread : thr'[g].proc = thr[g].proc
      BY <1>2, <1>3, <2>1, Zenon DEF Goes
    <3>2. QED
      BY <2>2, <2>5, <3>1, SMTT(60) DEF ProcInv, ProcOK
  <2>7. QED
    BY <1>1, <1>2, <2>1, <2>2, <2>3, <2>4, <2>6, ZenonT(60) DEF ProcInv, OneCreates
<1>7. QED
  BY <1>4, <1>5, <1>6, Zenon

\* DoRunnable takes a Processer from the list and puts it back, with a callback
\* that threw too; only a failing getcontext loses it.
LEMMA HandProcInv ==
  ASSUME ProcInv, NEW h \in Thread, PopProc(h) \/ EndProc(h) \/ CherryPickFails(h)
  PROVE  ProcInv'
<1>1. SchedTypeOK /\ ThreadOK(h) /\ OneCreates /\ NoRepeat(run_proc_list_)
  BY Zenon DEF ProcInv
<1>2. ASSUME NEW a \in {"idle", "loop", "picked"}, NEW q \in Proc \cup {NULL},
             Goes(h, a, q, <<>>, <<>>, 0),
             q \in Proc <=> a = "picked", a = "picked" => thr'[h].proc_c > 0,
             thr[h].at # "create", UNCHANGED proc_count
      PROVE  /\ OneCreates' /\ \A g \in Thread : ThreadOK(g)'
             /\ \A p \in Proc : Made(p)' <=> Made(p)
             /\ thr'[h].proc = q /\ \A g \in Thread \ {h} : thr'[g].proc = thr[g].proc
  <2>1. /\ \A g \in Thread \ {h} : thr'[g] = thr[g]
        /\ thr'[h].at = a /\ thr'[h].proc = q /\ thr'[h].kept = <<>> /\ thr'[h].rest = <<>>
        /\ thr'[h].done = 0
    BY <1>2, ZenonT(60) DEF Goes
  <2>2. \A g \in Thread : ThreadOK(g)'
    BY <1>2, <2>1, SMTT(60) DEF ProcInv, ThreadOK, Holding
  <2>3. OneCreates'
    BY <1>1, <1>2, <2>1, ZenonT(60) DEF OneCreates
  <2>4. \A p \in Proc : Made(p)' <=> Made(p)
    BY <1>2, <2>1, ZenonT(60) DEF Made
  <2>5. QED
    BY <2>1, <2>2, <2>3, <2>4, SMTT(60)
<1>3. CASE PopProc(h)
  <2>1. PICK q : q = Head(run_proc_list_)
    BY Zenon
  <2>2. Goes(h, "picked", q, <<>>, <<>>, 0) /\ thr'[h].proc_c > 0
    BY <1>3, <2>1, PopProcGoes, Zenon
  <2>3. /\ q \in Proc /\ run_proc_list_' \in Seq(Proc)
        /\ NoRepeat(run_proc_list_') /\ ~In(run_proc_list_', q)
        /\ \A p : In(run_proc_list_, p) <=> p = q \/ In(run_proc_list_', p)
    BY <1>1, <1>3, <2>1, PopFacts, Zenon DEF PopProc, SchedTypeOK
  <2>4. thr[h].at = "loop" /\ UNCHANGED <<proc_count, failed>> /\ thr[h].proc \notin Proc
    BY <1>1, <1>3, ZenonT(60) DEF PopProc, ThreadOK, Holding
  <2>5. /\ OneCreates' /\ \A g \in Thread : ThreadOK(g)'
        /\ \A p \in Proc : Made(p)' <=> Made(p)
        /\ thr'[h].proc = q /\ \A g \in Thread \ {h} : thr'[g].proc = thr[g].proc
    BY <1>2, <2>2, <2>3, <2>4, Zenon
  <2>6. SchedTypeOK'
    BY <1>1, <1>3, <2>2, <2>3, ZenonT(60) DEF PopProc, Goes, SchedTypeOK, taskvars, procvars
  <2>7. ASSUME NEW p \in Proc PROVE ProcOK(p)'
    <3>1. ProcOK(p)
      BY ZenonT(60) DEF ProcInv
    <3>2. QED
      BY <2>3, <2>4, <2>5, <3>1 DEF ProcOK
  <2>8. QED
    BY <2>3, <2>5, <2>6, <2>7, Zenon DEF ProcInv
<1>4. CASE EndProc(h)
  <2>1. PICK a \in {"idle", "loop"} : Goes(h, a, NULL, <<>>, <<>>, 0)
    BY <1>4, EndProcGoes, Zenon
  <2>2. PICK q : q = thr[h].proc
    BY Zenon
  <2>3. q \in Proc /\ thr[h].at \in {"end", "throw"} /\ UNCHANGED <<proc_count, failed>>
    BY <1>1, <1>4, <2>2, ZenonT(60) DEF EndProc, ThreadOK, Holding
  <2>4. ~In(run_proc_list_, q)
    BY <2>2, <2>3, Zenon DEF ProcInv, ProcOK
  <2>5. /\ run_proc_list_' \in Seq(Proc) /\ NoRepeat(run_proc_list_')
        /\ \A p : In(run_proc_list_', p) <=> In(run_proc_list_, p) \/ p = q
    BY <1>1, <1>4, <2>2, <2>3, <2>4, PushFacts, SMTT(60) DEF EndProc, SchedTypeOK
  <2>6. /\ OneCreates' /\ \A g \in Thread : ThreadOK(g)'
        /\ \A p \in Proc : Made(p)' <=> Made(p)
        /\ thr'[h].proc = NULL /\ \A g \in Thread \ {h} : thr'[g].proc = thr[g].proc
    BY <1>2, <2>1, <2>3, Zenon
  <2>7. SchedTypeOK'
    BY <1>1, <1>4, <2>1, <2>5, ThreadFields, SMTT(60) DEF EndProc, Goes, SchedTypeOK, procvars
  <2>8. ASSUME NEW p \in Proc PROVE ProcOK(p)'
    <3>1. ProcOK(p)
      BY ZenonT(60) DEF ProcInv
    <3>2. QED
      BY <2>2, <2>3, <2>4, <2>5, <2>6, <3>1, ZenonT(60) DEF ProcOK
  <2>9. QED
    BY <2>5, <2>6, <2>7, <2>8, Zenon DEF ProcInv
<1>5. CASE CherryPickFails(h)
  <2>1. Goes(h, "idle", NULL, <<>>, <<>>, 0)
    BY <1>5, IdleGoes, ZenonT(60) DEF CherryPickFails
  <2>2. /\ thr[h].at = "picking" /\ UNCHANGED <<run_proc_list_, proc_count>>
        /\ "getcontext" \in failed'
    BY <1>5, ZenonT(60) DEF CherryPickFails, CanPick, schedvars
  <2>3. /\ OneCreates' /\ \A g \in Thread : ThreadOK(g)'
        /\ \A p \in Proc : Made(p)' <=> Made(p)
        /\ thr'[h].proc = NULL /\ \A g \in Thread \ {h} : thr'[g].proc = thr[g].proc
    BY <1>2, <2>1, <2>2, ZenonT(60)
  <2>4. Head(run_tasks_) \in Task /\ Tail(run_tasks_) \in Seq(Task)
    BY <1>1, <1>5, PopFacts, ZenonT(60) DEF CherryPickFails, CanPick, SchedTypeOK
  <2>5. SchedTypeOK'
    BY <1>1, <1>5, <2>1, <2>2, <2>4, ZenonT(60) DEF CherryPickFails, Goes, SchedTypeOK, procvars
  <2>6. ASSUME NEW p \in Proc PROVE ProcOK(p)'
    <3>1. ProcOK(p)
      BY Zenon DEF ProcInv
    <3>2. QED
      BY <2>2, <2>3, <3>1, SMTT(60) DEF ProcOK
  <2>7. QED
    BY <1>1, <2>2, <2>3, <2>5, <2>6, SMTT(60) DEF ProcInv
<1>6. QED
  BY <1>3, <1>4, <1>5, Zenon

\* The Processers start in their invariant.
LEMMA InitProcInv == SchedInit => ProcInv
<1> SUFFICES ASSUME SchedInit PROVE ProcInv
  BY SMTT(60)
<1>1. IdleThread \in ThreadState
  BY DEF IdleThread, ThreadState
<1>2. SchedTypeOK
  BY <1>1 DEF SchedInit, SchedTypeOK
<1>3. \A h \in Thread : thr[h] = IdleThread
  BY ZenonT(60) DEF SchedInit
<1>4. \A h \in Thread : ThreadOK(h) /\ thr[h].at = "idle" /\ thr[h].proc = NULL
  BY <1>3 DEF ThreadOK, IdleThread, Holding
<1>5. \A p \in Proc : ~Made(p) /\ ~In(run_proc_list_, p)
  BY <1>4, EmptyFacts, ZenonT(60) DEF SchedInit, Made
<1>6. QED
  BY <1>2, <1>4, <1>5, EmptyFacts, Zenon DEF ProcInv, OneCreates, ProcOK, SchedInit

-----------------------------------------------------------------------------
(* Coroutines are not lost or doubled *)

\* Steps that move no coroutine.
LEMMA TasksStay ==
  ASSUME ProcInv, TaskInv, UNCHANGED <<run_tasks_, runnable_list_, proc_, life, waiting>>,
         failed \subseteq failed',
         NEW h \in Thread, \A g \in Thread \ {h} : thr'[g] = thr[g],
         thr'[h].kept = thr[h].kept, thr'[h].rest = thr[h].rest,
         thr'[h].proc = thr[h].proc \/ (thr[h].kept = <<>> /\ thr[h].rest = <<>>)
  PROVE  TaskInv'
<1>1. \A g \in Thread : thr'[g].kept = thr[g].kept /\ thr'[g].rest = thr[g].rest
  BY ZenonT(60)
<1>2. \A g \in Thread, t \in Task : InHands(g, t)' <=> InHands(g, t)
  BY <1>1, ZenonT(60) DEF InHands
<1>3. \A g \in Thread, t \in Task : InHands(g, t) => thr'[g].proc = thr[g].proc
  BY EmptyFacts, ZenonT(60) DEF InHands
<1>4. \A p \in Proc, t \in Task : InProc(p, t)' <=> InProc(p, t)
  BY ZenonT(60) DEF InProc
<1>5. ASSUME NEW t \in Task PROVE TaskOK(t)'
  <2>1. TaskOK(t)
    BY Zenon DEF TaskInv
  <2>2. failed' = {} => failed = {}
    BY ZenonT(60)
  <2>3. QED
    BY <1>1, <1>2, <1>3, <1>4, <2>1, <2>2, ZenonT(60) DEF TaskOK
<1>6. QED
  BY <1>1, <1>5, ZenonT(60) DEF TaskInv

\* What a step of thread h, which holds p, may do to a coroutine: move it between
\* the lists of h and p, to what it waits for, or end it.
Moves(h, p, t) ==
  /\ InProc(p, t)' => (InProc(p, t) \/ InHands(h, t)) /\ t \notin waiting'
  /\ InHands(h, t)' =>
       /\ InProc(p, t) \/ InHands(h, t)
       /\ t \notin waiting' /\ ~InProc(p, t)'
       /\ ~(In(thr[h].kept, t)' /\ In(thr[h].rest, t)')
  /\ t \in waiting' => t \in waiting \/ InHands(h, t)
  /\ t \in waiting => t \in waiting'
  /\ \/ life'[t] = life[t]
     \/ /\ InHands(h, t) /\ life'[t] = "done"
        /\ ~InProc(p, t)' /\ ~InHands(h, t)' /\ t \notin waiting'
  /\ failed' = {} /\ life'[t] = "alive" /\ (InProc(p, t) \/ InHands(h, t))
       => InProc(p, t)' \/ InHands(h, t)' \/ t \in waiting'

\* A step that moves tasks only between one thread and its Processer keeps TaskInv.
LEMMA TasksMove ==
  ASSUME ProcInv, TaskInv, UNCHANGED <<run_tasks_, proc_>>, failed \subseteq failed',
         NEW h \in Thread, NEW p \in Proc, thr[h].proc = p, thr'[h].proc = p,
         \A g \in Thread \ {h} : thr'[g] = thr[g],
         \A o \in Proc \ {p} : runnable_list_'[o] = runnable_list_[o],
         NoRepeat(runnable_list_'[p]), NoRepeat(thr'[h].kept), NoRepeat(thr'[h].rest),
         \A t \in Task : Moves(h, p, t)
  PROVE  TaskInv'
<1>1. \A g \in Thread \ {h}, t \in Task :
        /\ InHands(g, t)' <=> InHands(g, t)
        /\ thr'[g].proc = thr[g].proc
        /\ In(thr[g].kept, t)' /\ In(thr[g].rest, t)' <=> In(thr[g].kept, t) /\ In(thr[g].rest, t)
  BY ZenonT(60) DEF InHands
<1>2. \A o \in Proc \ {p}, t \in Task : InProc(o, t)' <=> InProc(o, t)
  BY ZenonT(60) DEF InProc
<1>3. \A g \in Thread : thr[g].proc = p => g = h
  BY SMTT(60) DEF ProcInv, ProcOK
<1>4. ASSUME NEW t \in Task PROVE TaskOK(t)'
  <2>1. TaskOK(t) /\ Moves(h, p, t) /\ NULL \notin Proc
    BY SMTT(60) DEF TaskInv
  <2>2. In(run_tasks_, t)' => proc_'[t] = NULL /\ life'[t] = "alive"
    BY <2>1, ZenonT(60) DEF TaskOK, Moves
  <2>3. life'[t] \in {"new", "counted"} => proc_'[t] = NULL
    BY <2>1, ZenonT(60) DEF TaskOK, Moves
  <2>4. t \in waiting' => proc_'[t] \in Proc /\ life'[t] = "alive"
    BY <2>1, ZenonT(60) DEF TaskOK, Moves
  <2>5. ASSUME NEW o \in Proc, InProc(o, t)'
        PROVE  proc_'[t] = o /\ life'[t] = "alive" /\ t \notin waiting'
    <3>1. CASE o = p
      BY <2>1, <2>5, <3>1, ZenonT(60) DEF TaskOK, Moves
    <3>2. CASE o # p
      BY <1>2, <2>1, <2>5, <3>2, ZenonT(60) DEF TaskOK, Moves
    <3>3. QED
      BY <3>1, <3>2, SMTT(60)
  <2>6. ASSUME NEW g \in Thread, InHands(g, t)'
        PROVE  /\ proc_'[t] \in Proc /\ thr'[g].proc = proc_'[t] /\ life'[t] = "alive"
               /\ t \notin waiting' /\ ~InProc(proc_[t], t)'
               /\ ~(In(thr[g].kept, t)' /\ In(thr[g].rest, t)')
    <3>1. CASE g = h
      <4>1. proc_[t] = p /\ life[t] = "alive"
        BY <2>1, <2>6, <3>1, ZenonT(60) DEF TaskOK, Moves
      <4>2. QED
        BY <2>1, <2>6, <3>1, <4>1, ZenonT(60) DEF Moves
    <3>2. CASE g # h
      <4>1. /\ InHands(g, t) /\ proc_[t] \in Proc \ {p} /\ thr[g].proc = proc_[t]
            /\ life[t] = "alive" /\ t \notin waiting /\ ~InProc(proc_[t], t)
        BY <1>1, <1>3, <2>1, <2>6, <3>2, ZenonT(60) DEF TaskOK
      <4>2. ~InHands(h, t)
        BY <2>1, <4>1, ZenonT(60) DEF TaskOK
      <4>3. ~InProc(proc_[t], t)'
        BY <1>2, <4>1, ZenonT(60)
      <4>4. ~(In(thr[g].kept, t)' /\ In(thr[g].rest, t)')
        BY <1>1, <2>1, <3>2, <4>1, SMTT(60) DEF TaskOK
      <4>5. QED
        BY <1>1, <2>1, <3>2, <4>1, <4>2, <4>3, <4>4, ZenonT(60) DEF Moves
    <3>3. QED
      BY <3>1, <3>2, SMTT(60)
  <2>7. ASSUME failed' = {}, life'[t] = "alive"
        PROVE  \/ In(run_tasks_, t)' \/ t \in waiting'
               \/ \E o \in Proc : InProc(o, t)'
               \/ \E g \in Thread : InHands(g, t)'
    <3>1. failed = {} /\ life[t] = "alive"
      BY <2>1, <2>7, ZenonT(60) DEF Moves
    <3>2. CASE InProc(p, t) \/ InHands(h, t)
      BY <2>1, <2>7, <3>2, ZenonT(60) DEF Moves
    <3>3. CASE In(run_tasks_, t) \/ t \in waiting
      BY <2>1, <3>3, ZenonT(60) DEF Moves
    <3>4. CASE \E o \in Proc \ {p} : InProc(o, t)
      BY <1>2, <3>4, ZenonT(60)
    <3>5. CASE \E g \in Thread \ {h} : InHands(g, t)
      BY <1>1, <3>5, ZenonT(60)
    <3>6. QED
      BY <2>1, <3>1, <3>2, <3>3, <3>4, <3>5, ZenonT(60) DEF TaskOK
  <2>8. QED
    BY <2>2, <2>3, <2>4, <2>5, <2>6, <2>7, ZenonT(60) DEF TaskOK
<1>5. QED
  BY <1>4, ZenonT(60) DEF TaskInv

\* The same, with the new lists of h and p as parameters.
Deals(h, t, q, k, r) ==
  LET mine == InProc(thr[h].proc, t) \/ InHands(h, t) IN
  /\ In(q, t) => mine /\ t \notin waiting'
  /\ In(k, t) => mine /\ t \notin waiting' /\ ~In(q, t) /\ ~In(r, t)
  /\ In(r, t) => mine /\ t \notin waiting' /\ ~In(q, t)
  /\ t \in waiting' => t \in waiting \/ InHands(h, t)
  /\ t \in waiting => t \in waiting'
  /\ \/ life'[t] = life[t]
     \/ /\ InHands(h, t) /\ life'[t] = "done"
        /\ ~In(q, t) /\ ~In(k, t) /\ ~In(r, t) /\ t \notin waiting'
  /\ failed' = {} /\ life'[t] = "alive" /\ mine
       => In(q, t) \/ In(k, t) \/ In(r, t) \/ t \in waiting'

\* A step that deals a thread's tasks anew, none lost and none doubled, keeps TaskInv.
LEMMA TasksDealt ==
  ASSUME ProcInv, TaskInv, UNCHANGED <<run_tasks_, proc_>>, failed \subseteq failed',
         NEW h \in Thread, thr[h].proc \in Proc, NEW a, NEW q, NEW k, NEW r, NEW d,
         Goes(h, a, thr[h].proc, k, r, d),
         runnable_list_'[thr[h].proc] = q,
         \A o \in Proc \ {thr[h].proc} : runnable_list_'[o] = runnable_list_[o],
         NoRepeat(q), NoRepeat(k), NoRepeat(r),
         \A t \in Task : Deals(h, t, q, k, r)
  PROVE  TaskInv'
<1>1. PICK p \in Proc : p = thr[h].proc
  BY ZenonT(60)
<1>2. /\ thr'[h].proc = p /\ thr'[h].kept = k /\ thr'[h].rest = r /\ runnable_list_'[p] = q
      /\ \A g \in Thread \ {h} : thr'[g] = thr[g]
  BY <1>1, SMTT(60) DEF Goes
<1>3. ASSUME NEW t \in Task PROVE Moves(h, p, t)
  <2>1. Deals(h, t, q, k, r)
    BY ZenonT(60)
  <2>2. /\ InProc(p, t)' <=> In(q, t)
        /\ InHands(h, t)' <=> In(k, t) \/ In(r, t)
        /\ In(thr[h].kept, t)' <=> In(k, t)
        /\ In(thr[h].rest, t)' <=> In(r, t)
    BY <1>2, SMTT(60) DEF InProc, InHands
  <2>3. QED
    BY <1>1, <2>1, <2>2, ZenonT(60) DEF Deals, Moves
<1>4. QED
  BY <1>1, <1>2, <1>3, TasksMove, ZenonT(60)

\* The lists of a thread in Processer::Run, and the current coroutine.
LEMMA TurnLists ==
  ASSUME ProcInv, TaskInv, NEW h \in Thread, thr[h].at \in {"task", "blocked"}
  PROVE  /\ thr[h].proc \in Proc
         /\ runnable_list_[thr[h].proc] \in Seq(Task) /\ NoRepeat(runnable_list_[thr[h].proc])
         /\ thr[h].kept \in Seq(Task) /\ NoRepeat(thr[h].kept)
         /\ thr[h].rest \in Seq(Task) /\ NoRepeat(thr[h].rest)
         /\ \A t \in Task :
              /\ InProc(thr[h].proc, t) => t \notin waiting /\ ~In(thr[h].kept, t) /\ ~In(thr[h].rest, t)
              /\ In(thr[h].kept, t) => t \notin waiting /\ ~In(thr[h].rest, t)
              /\ In(thr[h].rest, t) => t \notin waiting
<1>1. SchedTypeOK /\ ThreadOK(h)
  BY ZenonT(60) DEF ProcInv
<1>2. thr[h].proc \in Proc
  BY <1>1, ZenonT(60) DEF ThreadOK, Holding
<1>3. \A t \in Task :
        /\ InProc(thr[h].proc, t) => t \notin waiting /\ ~InHands(h, t)
        /\ InHands(h, t) => t \notin waiting /\ ~(In(thr[h].kept, t) /\ In(thr[h].rest, t))
  BY <1>2, SMTT(60) DEF TaskInv, TaskOK
<1>4. QED
  BY <1>1, <1>2, <1>3, ThreadFields, ZenonT(60) DEF SchedTypeOK, TaskInv, InHands

\* The turn of a task, however it ends, keeps TaskInv.
LEMMA TurnTaskInv ==
  ASSUME ProcInv, TaskInv, NEW h \in Thread,
         TaskYields(h) \/ TaskDone(h) \/ TaskThrows(h) \/ SwapFails(h) \/ Switch(h)
  PROVE  TaskInv'
<1>1. PICK p, c, q, k, r, w :
        /\ p = thr[h].proc /\ c = Current(h) /\ q = runnable_list_[p]
        /\ k = thr[h].kept /\ r = Tail(thr[h].rest) /\ w = thr[h].rest
  BY ZenonT(60)
<1>2. InTask(h) \/ thr[h].at = "blocked"
  BY ZenonT(60) DEF TaskYields, TaskDone, TaskThrows, SwapFails, Finish, Switch, SwitchWaits,
     SwitchRefused, SwitchKeeps
<1>3. /\ p \in Proc /\ c \in Task /\ q \in Seq(Task) /\ k \in Seq(Task) /\ r \in Seq(Task)
      /\ NoRepeat(q) /\ NoRepeat(k) /\ NoRepeat(r)
      /\ \A t \in Task : In(w, t) <=> t = c \/ In(r, t)
      /\ ~In(r, c)
  <2>1. thr[h].at \in {"task", "blocked"} /\ w # <<>>
    BY <1>1, <1>2, CurrentFacts, ZenonT(60) DEF InTask
  <2>2. w \in Seq(Task) /\ NoRepeat(w) /\ c = Head(w)
    BY <1>1, <2>1, TurnLists, ZenonT(60) DEF Current
  <2>3. QED
    BY <1>1, <2>1, <2>2, TurnLists, PopFacts, SMTT(60)
<1>4. \A t \in Task :
        /\ In(q, t) => t \notin waiting /\ ~In(k, t) /\ ~In(w, t)
        /\ In(k, t) => t \notin waiting /\ ~In(w, t)
        /\ In(w, t) => t \notin waiting
  BY <1>1, <1>2, TurnLists, ZenonT(60) DEF InTask, InProc
<1>5. \A t \in Task : /\ InProc(thr[h].proc, t) <=> In(q, t)
                      /\ InHands(h, t) <=> In(k, t) \/ In(w, t)
  BY <1>1, SMTT(60) DEF InProc, InHands
<1>6. CASE TaskYields(h) \/ SwitchKeeps(h)
  <2>1. /\ UNCHANGED <<run_tasks_, proc_, failed, life, waiting, runnable_list_>>
        /\ Goes(h, "task", p, Append(k, c), r, thr[h].done)
    BY <1>1, <1>6, TaskYieldsGoes, SwitchKeepsGoes, ZenonT(60) DEF TaskYields, SwitchKeeps,
       taskvars, procvars
  <2>2. NoRepeat(Append(k, c)) /\ \A t : In(Append(k, c), t) <=> In(k, t) \/ t = c
    BY <1>3, <1>4, PushFacts, SMTT(60)
  <2>3. \A t \in Task : Deals(h, t, q, Append(k, c), r)
    BY <1>3, <1>4, <1>5, <2>1, <2>2, ZenonT(60) DEF Deals
  <2>4. QED
    BY <1>1, <1>3, <2>1, <2>2, <2>3, TasksDealt, ZenonT(60)
<1>7. CASE SwitchWaits(h)
  <2>1. /\ UNCHANGED <<run_tasks_, proc_, failed, life, runnable_list_>> /\ waiting' = waiting \cup {c}
        /\ Goes(h, "task", p, k, r, thr[h].done)
    BY <1>1, <1>7, SwitchWaitsGoes, ZenonT(60) DEF SwitchWaits, taskvars, procvars
  <2>2. \A t \in Task : Deals(h, t, q, k, r)
    BY <1>3, <1>4, <1>5, <2>1, ZenonT(60) DEF Deals
  <2>3. QED
    BY <1>1, <1>3, <2>1, <2>2, TasksDealt, ZenonT(60)
<1>8. CASE SwitchRefused(h) \/ SwapFails(h)
  <2>1. /\ UNCHANGED <<run_tasks_, proc_, life, waiting>> /\ failed \subseteq failed'
        /\ runnable_list_' = [runnable_list_ EXCEPT ![p] = Append(q, c)]
    BY <1>1, <1>8, ZenonT(60) DEF SwitchRefused, SwapFails, taskvars
  <2>2. /\ NoRepeat(Append(q, c)) /\ \A t : In(Append(q, c), t) <=> In(q, t) \/ t = c
        /\ Append(q, c) \in Seq(Task)
    BY <1>3, <1>4, PushFacts, SMTT(60)
  <2>3. /\ runnable_list_'[p] = Append(q, c)
        /\ \A o \in Proc \ {p} : runnable_list_'[o] = runnable_list_[o]
    BY <1>3, <2>1, <2>2, OneList, ZenonT(60) DEF ProcInv
  <2>4. CASE SwitchRefused(h)
    <3>1. Goes(h, "task", p, k, r, thr[h].done)
      BY <1>1, <2>4, SwitchRefusedGoes, SMTT(60)
    <3>2. \A t \in Task : Deals(h, t, Append(q, c), k, r)
      BY <1>3, <1>4, <1>5, <2>1, <2>2, ZenonT(60) DEF Deals
    <3>3. QED
      BY <1>1, <1>3, <2>1, <2>2, <2>3, <3>1, <3>2, TasksDealt, ZenonT(60)
  <2>5. CASE SwapFails(h)
    <3>1. Goes(h, "throw", p, <<>>, <<>>, thr[h].done) /\ failed' # {}
      BY <1>1, <2>5, SwapFailsGoes, ZenonT(60) DEF SwapFails
    <3>2. \A t \in Task : Deals(h, t, Append(q, c), <<>>, <<>>)
      BY <1>3, <1>4, <1>5, <2>1, <2>2, <3>1, EmptyFacts, ZenonT(60) DEF Deals
    <3>3. QED
      BY <1>1, <1>3, <2>1, <2>2, <2>3, <3>1, <3>2, EmptyFacts, TasksDealt, ZenonT(60)
  <2>6. QED
    BY <1>8, <2>4, <2>5, SMTT(60)
<1>9. CASE TaskDone(h)
  <2>1. /\ UNCHANGED <<run_tasks_, proc_, failed, waiting, runnable_list_>>
        /\ life' = [life EXCEPT ![c] = "done"]
        /\ Goes(h, "task", p, k, r, thr[h].done + 1)
    BY <1>1, <1>9, TaskDoneGoes, ZenonT(60) DEF TaskDone, Finish
  <2>2. life'[c] = "done" /\ \A t \in Task \ {c} : life'[t] = life[t]
    BY <1>3, <2>1, Zenon DEF ProcInv, SchedTypeOK
  <2>3. \A t \in Task : Deals(h, t, q, k, r)
    BY <1>3, <1>4, <1>5, <2>1, <2>2, ZenonT(60) DEF Deals
  <2>4. QED
    BY <1>1, <1>3, <2>1, <2>3, TasksDealt, ZenonT(60)
<1>10. CASE TaskThrows(h)
  <2>1. /\ UNCHANGED <<run_tasks_, proc_, failed, waiting>>
        /\ life' = [life EXCEPT ![c] = "done"]
        /\ runnable_list_' = [runnable_list_ EXCEPT ![p] = (q \o k) \o r]
        /\ Goes(h, "throw", p, <<>>, <<>>, thr[h].done + 1)
    BY <1>1, <1>10, TaskThrowsGoes, ZenonT(60) DEF TaskThrows, Finish
  <2>2. life'[c] = "done" /\ \A t \in Task \ {c} : life'[t] = life[t]
    BY <1>3, <2>1, SMTT(60) DEF ProcInv, SchedTypeOK
  <2>3. PICK x : x = (q \o k) \o r
    BY ZenonT(60)
  <2>4. x \in Seq(Task) /\ NoRepeat(x) /\ \A t \in Task : In(x, t) <=> In(q, t) \/ In(k, t) \/ In(r, t)
    <3>1. \A t : In(q, t) \/ In(k, t) \/ In(r, t) => t \in Task
      BY <1>3, SMTT(60) DEF In
    <3>2. \A t : ~(In(q, t) /\ In(k, t)) /\ ~(In(q, t) /\ In(r, t)) /\ ~(In(k, t) /\ In(r, t))
      BY <1>3, <1>4, <3>1, ZenonT(60)
    <3>3. q \o k \in Seq(Task) /\ NoRepeat(q \o k) /\ \A t : In(q \o k, t) <=> In(q, t) \/ In(k, t)
      BY <1>3, <3>2, JoinFacts, Zenon
    <3>4. QED
      BY <1>3, <2>3, <3>2, <3>3, JoinFacts, ZenonT(60)
  <2>5. /\ runnable_list_'[p] = x
        /\ \A o \in Proc \ {p} : runnable_list_'[o] = runnable_list_[o]
    BY <1>3, <2>1, <2>3, <2>4, OneList, ZenonT(60) DEF ProcInv
  <2>6. \A t \in Task : Deals(h, t, x, <<>>, <<>>)
    BY <1>3, <1>4, <1>5, <2>1, <2>2, <2>4, EmptyFacts, ZenonT(60) DEF Deals
  <2>7. QED
    BY <1>1, <1>3, <2>1, <2>4, <2>5, <2>6, EmptyFacts, TasksDealt, ZenonT(60)
<1>11. QED
  BY <1>6, <1>7, <1>8, <1>9, <1>10, SMTT(60) DEF Switch

\* The steps of Run and DoRunnable that move no coroutine, and CoYield.
LEMMA StayTaskInv ==
  ASSUME ProcInv, TaskInv, NEW h \in Thread,
         \/ StartCreate(h) \/ NewProcesser(h) \/ EndCreate(h) \/ StartRunnable(h)
         \/ PopProc(h) \/ EndRunnable(h) \/ Average(h) \/ EndProc(h) \/ TaskBlocks(h)
  PROVE  TaskInv'
<1>1. ThreadOK(h)
  BY Zenon DEF ProcInv
<1>2. UNCHANGED <<run_tasks_, runnable_list_, proc_, life, waiting, failed>>
  BY SMTT(60) DEF StartCreate, NewProcesser, EndCreate, StartRunnable, PopProc, EndRunnable,
     Average,
         EndProc, TaskBlocks, taskvars, procvars
<1>3. CASE TaskBlocks(h)
  BY <1>2, <1>3, TaskBlocksGoes, TasksStay, ZenonT(60) DEF Goes
<1>4. CASE ~TaskBlocks(h)
  <2>1. thr[h].kept = <<>> /\ thr[h].rest = <<>>
    BY <1>1, <1>4, SMTT(60) DEF StartCreate, NewProcesser, EndCreate, StartRunnable, PopProc,
       EndRunnable,
                      Average, EndProc, ThreadOK
  <2>2. \E a, q, d : Goes(h, a, q, <<>>, <<>>, d)
    <3>1. CASE StartCreate(h) \/ NewProcesser(h) \/ PopProc(h) \/ Average(h) \/ EndProc(h)
      BY <3>1, StartCreateGoes, NewProcesserGoes, PopProcGoes, AverageGoes, EndProcGoes,
         ZenonT(60)
    <3>2. CASE EndCreate(h) \/ StartRunnable(h) \/ EndRunnable(h)
      BY <3>2, LoopingGoes, IdleGoes, Zenon DEF EndCreate, StartRunnable, EndRunnable
    <3>3. QED
      BY <1>4, <3>1, <3>2, ZenonT(60)
  <2>3. QED
    BY <1>2, <2>1, <2>2, TasksStay, ZenonT(60) DEF Goes
<1>5. QED
  BY <1>3, <1>4, ZenonT(60)

\* Processer::Run takes the runnable list and gives it back.
LEMMA HandTaskInv ==
  ASSUME ProcInv, TaskInv, NEW h \in Thread, StartProc(h) \/ EndTasks(h)
  PROVE  TaskInv'
<1>1. PICK p, q, k : p = thr[h].proc /\ q = runnable_list_[p] /\ k = thr[h].kept
  BY Zenon
<1>2. SchedTypeOK /\ ThreadOK(h)
  BY SMTT(60) DEF ProcInv
<1>3. p \in Proc
  BY <1>1, <1>2, ZenonT(60) DEF ThreadOK, Holding, StartProc, EndTasks
<1>4. q \in Seq(Task) /\ NoRepeat(q) /\ k \in Seq(Task) /\ NoRepeat(k) /\ <<>> \in Seq(Task)
  BY <1>1, <1>2, <1>3, ThreadFields DEF SchedTypeOK, TaskInv
<1>5. \A t \in Task : (In(q, t) => t \notin waiting /\ ~In(k, t)) /\ (In(k, t) => t \notin waiting)
  BY <1>1, <1>3, ZenonT(60) DEF TaskInv, TaskOK, InProc, InHands
<1>6. \A t \in Task : InProc(thr[h].proc, t) <=> In(q, t)
  BY <1>1, SMTT(60) DEF InProc
<1>7. CASE StartProc(h)
  <2>1. /\ UNCHANGED <<run_tasks_, proc_, life, waiting, failed>>
        /\ runnable_list_' = [runnable_list_ EXCEPT ![p] = <<>>]
        /\ Goes(h, "task", p, <<>>, q, 0)
    BY <1>1, <1>7, StartProcGoes, ZenonT(60) DEF StartProc, taskvars
  <2>2. runnable_list_'[p] = <<>> /\ \A o \in Proc \ {p} : runnable_list_'[o] = runnable_list_[o]
    BY <1>2, <1>3, <1>4, <2>1, OneList, ZenonT(60)
  <2>3. \A t \in Task : ~InHands(h, t)
    BY <1>2, <1>7, EmptyFacts, ZenonT(60) DEF StartProc, ThreadOK, InHands
  <2>4. \A t \in Task : Deals(h, t, <<>>, <<>>, q)
    BY <1>5, <1>6, <2>1, <2>3, EmptyFacts, Zenon DEF Deals
  <2>5. QED
    BY <1>1, <1>3, <1>4, <2>1, <2>2, <2>4, EmptyFacts, TasksDealt, ZenonT(60)
<1>8. CASE EndTasks(h)
  <2>1. /\ UNCHANGED <<run_tasks_, proc_, life, waiting, failed>>
        /\ runnable_list_' = [runnable_list_ EXCEPT ![p] = q \o k]
        /\ Goes(h, "end", p, <<>>, <<>>, thr[h].done)
    BY <1>1, <1>8, EndTasksGoes, ZenonT(60) DEF EndTasks, taskvars
  <2>2. q \o k \in Seq(Task) /\ NoRepeat(q \o k) /\ \A t : In(q \o k, t) <=> In(q, t) \/ In(k, t)
    <3>1. \A t : In(q, t) => t \in Task
      BY <1>4 DEF In
    <3>2. QED
      BY <1>4, <1>5, <3>1, JoinFacts, Zenon
  <2>3. /\ runnable_list_'[p] = q \o k
        /\ \A o \in Proc \ {p} : runnable_list_'[o] = runnable_list_[o]
    BY <1>2, <1>3, <2>1, <2>2, OneList, ZenonT(60)
  <2>4. \A t \in Task : InHands(h, t) <=> In(k, t)
    BY <1>1, <1>8, EmptyFacts, Zenon DEF EndTasks, InHands
  <2>5. \A t \in Task : Deals(h, t, q \o k, <<>>, <<>>)
    BY <1>5, <1>6, <2>1, <2>2, <2>4, EmptyFacts, ZenonT(60) DEF Deals
  <2>6. QED
    BY <1>1, <1>3, <2>1, <2>2, <2>3, <2>5, EmptyFacts, TasksDealt, ZenonT(60)
<1>9. QED
  BY <1>7, <1>8, ZenonT(60)

\* A coroutine other than t is where it was.
Untouched(t) ==
  /\ In(run_tasks_, t)' <=> In(run_tasks_, t)
  /\ proc_'[t] = proc_[t] /\ life'[t] = life[t] /\ (t \in waiting' <=> t \in waiting)
  /\ \A p \in Proc : InProc(p, t)' <=> InProc(p, t)
  /\ \A h \in Thread :
       /\ In(thr[h].kept, t)' <=> In(thr[h].kept, t)
       /\ In(thr[h].rest, t)' <=> In(thr[h].rest, t)
       /\ InHands(h, t) => thr'[h].proc = thr[h].proc

\* A task that no step touches keeps its place.
LEMMA UntouchedOK ==
  ASSUME NEW t \in Task, TaskOK(t), Untouched(t), failed \subseteq failed'
  PROVE  TaskOK(t)'
<1>1. \A h \in Thread : InHands(h, t)' <=> InHands(h, t)
  BY ZenonT(60) DEF Untouched, InHands
<1>2. failed' = {} => failed = {}
  BY ZenonT(60)
<1>3. QED
  BY <1>1, <1>2, ZenonT(60) DEF TaskOK, Untouched

\* The new coroutines, and a wakeup.
LEMMA CreateTaskInv ==
  ASSUME ProcInv, TaskInv, NEW t \in Task, CreateCount(t) \/ CreatePush(t)
  PROVE  TaskInv'
<1>1. SchedTypeOK /\ TaskOK(t)
  BY ZenonT(60) DEF ProcInv, TaskInv
<1>2. UNCHANGED <<proc_, runnable_list_, waiting, thr, failed>>
  BY ZenonT(60) DEF CreateCount, CreatePush, procvars
<1>3. life[t] \in {"new", "counted"} /\ \A u \in Task \ {t} : life'[u] = life[u]
  BY <1>1, ZenonT(60) DEF CreateCount, CreatePush, SchedTypeOK
<1>4. proc_[t] = NULL /\ ~In(run_tasks_, t) /\ t \notin waiting
  BY <1>1, <1>3, SMTT(60) DEF TaskOK
<1>5. /\ \A p \in Proc, u \in Task : InProc(p, u)' <=> InProc(p, u)
      /\ \A h \in Thread, u \in Task : InHands(h, u)' <=> InHands(h, u)
      /\ \A p \in Proc : ~InProc(p, t)
      /\ \A h \in Thread : ~InHands(h, t)
  <2>1. \A p \in Proc, u \in Task : InProc(p, u)' <=> InProc(p, u)
    BY <1>2, ZenonT(60) DEF InProc
  <2>2. \A h \in Thread, u \in Task : InHands(h, u)' <=> InHands(h, u)
    BY <1>2, SMTT(60) DEF InHands
  <2>3. QED
    BY <1>1, <1>3, <2>1, <2>2, ZenonT(60) DEF TaskOK
<1>6. /\ NoRepeat(run_tasks_') /\ \A u \in Task \ {t} : In(run_tasks_', u) <=> In(run_tasks_, u)
      /\ \/ life'[t] = "counted" /\ ~In(run_tasks_', t)
         \/ life'[t] = "alive" /\ In(run_tasks_', t)
  <2>1. CASE CreateCount(t)
    BY <1>1, <1>4, <2>1, ZenonT(60) DEF CreateCount, TaskInv, SchedTypeOK
  <2>2. CASE CreatePush(t)
    <3>1. run_tasks_' = Append(run_tasks_, t) /\ life'[t] = "alive"
      BY <1>1, <2>2, SMTT(60) DEF CreatePush, SchedTypeOK
    <3>2. QED
      BY <1>1, <1>4, <3>1, PushFacts, SMTT(60) DEF TaskInv, SchedTypeOK
  <2>3. QED
    BY <2>1, <2>2, ZenonT(60)
<1>7. TaskOK(t)'
  BY <1>2, <1>4, <1>5, <1>6, ZenonT(60) DEF TaskOK
<1>8. ASSUME NEW u \in Task \ {t} PROVE TaskOK(u)'
  <2>1. TaskOK(u)
    BY SMTT(60) DEF TaskInv
  <2>2. Untouched(u)
    BY <1>2, <1>3, <1>5, <1>6, ZenonT(60) DEF Untouched
  <2>3. QED
    BY <1>2, <2>1, <2>2, UntouchedOK, ZenonT(60)
<1>9. QED
  BY <1>2, <1>6, <1>7, <1>8, ZenonT(60) DEF TaskInv

\* A task that is woken goes back to one list.
LEMMA WakeTaskInv ==
  ASSUME ProcInv, TaskInv, NEW t \in Task, WakeTask(t)
  PROVE  TaskInv'
<1>1. SchedTypeOK /\ TaskOK(t) /\ t \in waiting
  BY ZenonT(60) DEF ProcInv, TaskInv, WakeTask
<1>2. UNCHANGED <<run_tasks_, life, proc_, thr, failed>> /\ waiting' = waiting \ {t}
  BY ZenonT(60) DEF WakeTask, taskvars
<1>3. PICK p \in Proc : p = proc_[t]
  BY <1>1, Zenon DEF TaskOK
<1>4. PICK q : q = Append(runnable_list_[p], t)
  BY ZenonT(60)
<1>5. ~InProc(p, t) /\ runnable_list_[p] \in Seq(Task) /\ NoRepeat(runnable_list_[p])
  BY <1>1, ZenonT(60) DEF TaskOK, TaskInv, SchedTypeOK
<1>6. q \in Seq(Task) /\ NoRepeat(q) /\ \A u : In(q, u) <=> InProc(p, u) \/ u = t
  BY <1>4, <1>5, PushFacts, SMTT(60) DEF InProc
<1>7. /\ runnable_list_'[p] = q
      /\ \A o \in Proc \ {p} : runnable_list_'[o] = runnable_list_[o]
  BY <1>1, <1>3, <1>4, <1>6, OneList, ZenonT(60) DEF WakeTask
<1>8. \A u \in Task : /\ \A o \in Proc : InProc(o, u)' <=> InProc(o, u) \/ (o = p /\ u = t)
                      /\ \A h \in Thread : InHands(h, u)' <=> InHands(h, u)
  <2>1. \A o \in Proc, u \in Task : InProc(o, u)' <=> InProc(o, u) \/ (o = p /\ u = t)
    BY <1>6, <1>7, ZenonT(60) DEF InProc
  <2>2. \A h \in Thread, u \in Task : InHands(h, u)' <=> InHands(h, u)
    BY <1>2, Zenon DEF InHands
  <2>3. QED
    BY <2>1, <2>2, ZenonT(60)
<1>9. TaskOK(t)'
  BY <1>1, <1>2, <1>3, <1>8, ZenonT(60) DEF TaskOK
<1>10. ASSUME NEW u \in Task \ {t} PROVE TaskOK(u)'
  <2>1. TaskOK(u)
    BY SMTT(60) DEF TaskInv
  <2>2. Untouched(u)
    BY <1>2, <1>8, ZenonT(60) DEF Untouched
  <2>3. QED
    BY <1>2, <2>1, <2>2, UntouchedOK, ZenonT(60)
<1>11. \A o \in Proc : NoRepeat(runnable_list_'[o])
  BY <1>6, <1>7, ZenonT(60) DEF TaskInv
<1>12. QED
  BY <1>2, <1>9, <1>10, <1>11, ZenonT(60) DEF TaskInv

\* Processer::AddTaskRunnable of the first new coroutine, and its failure.
LEMMA PickFacts ==
  ASSUME ProcInv, TaskInv, NEW h \in Thread, CanPick(h)
  PROVE  /\ Head(run_tasks_) \in Task /\ thr[h].proc \in Proc
         /\ Tail(run_tasks_) \in Seq(Task) /\ NoRepeat(Tail(run_tasks_))
         /\ ~In(Tail(run_tasks_), Head(run_tasks_))
         /\ \A u : In(run_tasks_, u) <=> u = Head(run_tasks_) \/ In(Tail(run_tasks_), u)
         /\ thr[h].kept = <<>> /\ thr[h].rest = <<>> /\ thr[h].done = 0
<1>1. SchedTypeOK /\ ThreadOK(h) /\ run_tasks_ # <<>> /\ thr[h].at = "picking"
  BY ZenonT(60) DEF ProcInv, CanPick
<1>2. run_tasks_ \in Seq(Task) /\ NoRepeat(run_tasks_)
  BY <1>1, ZenonT(60) DEF SchedTypeOK, TaskInv
<1>3. thr[h].proc \in Proc /\ thr[h].kept = <<>> /\ thr[h].rest = <<>> /\ ~(thr[h].done > 0)
  BY <1>1, ZenonT(60) DEF ThreadOK, Holding
<1>4. thr[h].done = 0
  BY <1>1, <1>3, ThreadFields, SMTT(60)
<1>5. QED
  BY <1>1, <1>2, <1>3, <1>4, PopFacts, ZenonT(60)

\* A task that a thread picks for its Processer leaves the list it was in.
LEMMA PickTaskInv ==
  ASSUME ProcInv, TaskInv, NEW h \in Thread, CherryPick(h)
  PROVE  TaskInv'
<1>1. CanPick(h)
  BY ZenonT(60) DEF CherryPick
<1>2. PICK t \in Task, p \in Proc : t = Head(run_tasks_) /\ p = thr[h].proc
  BY <1>1, PickFacts, ZenonT(60)
<1>3. SchedTypeOK /\ TaskOK(t)
  BY ZenonT(60) DEF ProcInv, TaskInv
<1>4. /\ NoRepeat(run_tasks_')
      /\ \A u \in Task : In(run_tasks_, u) <=> u = t \/ In(run_tasks_, u)'
      /\ ~In(run_tasks_, t)' /\ In(run_tasks_, t)
  <2>1. run_tasks_' = Tail(run_tasks_)
    BY ZenonT(60) DEF CherryPick
  <2>2. QED
    BY <1>1, <1>2, <2>1, PickFacts, ZenonT(60)
<1>5. UNCHANGED <<life, waiting, thr, failed>>
  BY ZenonT(60) DEF CherryPick
<1>6. proc_'[t] = p /\ \A u \in Task \ {t} : proc_'[u] = proc_[u]
  BY <1>2, <1>3, SMTT(60) DEF CherryPick, SchedTypeOK
<1>7. /\ life[t] = "alive" /\ t \notin waiting
      /\ \A o \in Proc : ~InProc(o, t)
      /\ \A g \in Thread : ~InHands(g, t)
  BY <1>3, <1>4, ZenonT(60) DEF TaskOK
<1>8. PICK q : q = Append(runnable_list_[p], t)
  BY ZenonT(60)
<1>9. q \in Seq(Task) /\ NoRepeat(q) /\ \A u : In(q, u) <=> InProc(p, u) \/ u = t
  BY <1>3, <1>7, <1>8, PushFacts DEF InProc, SchedTypeOK, TaskInv
<1>10. /\ runnable_list_'[p] = q
       /\ \A o \in Proc \ {p} : runnable_list_'[o] = runnable_list_[o]
  <2>1. runnable_list_' = [runnable_list_ EXCEPT ![p] = q]
    BY <1>2, <1>8, Zenon DEF CherryPick
  <2>2. QED
    BY <1>3, <1>9, <2>1, OneList, ZenonT(60)
<1>11. \A o \in Proc, u \in Task : InProc(o, u)' <=> InProc(o, u) \/ (o = p /\ u = t)
  BY <1>9, <1>10, ZenonT(60) DEF InProc
<1>12. \A g \in Thread, u \in Task : InHands(g, u)' <=> InHands(g, u)
  BY <1>5, SMTT(60) DEF InHands
<1>13. TaskOK(t)'
  BY <1>4, <1>5, <1>6, <1>7, <1>11, <1>12, ZenonT(60) DEF TaskOK
<1>14. ASSUME NEW u \in Task \ {t} PROVE TaskOK(u)'
  <2>1. TaskOK(u)
    BY SMTT(60) DEF TaskInv
  <2>2. Untouched(u)
    BY <1>4, <1>5, <1>6, <1>11, <1>12, ZenonT(60) DEF Untouched
  <2>3. QED
    BY <1>5, <2>1, <2>2, UntouchedOK, ZenonT(60)
<1>15. \A o \in Proc : NoRepeat(runnable_list_'[o])
  BY <1>9, <1>10, ZenonT(60) DEF TaskInv
<1>16. QED
  BY <1>4, <1>5, <1>13, <1>14, <1>15, ZenonT(60) DEF TaskInv

\* A pick whose getcontext fails deletes that task and touches no other.
LEMMA PickFailsTaskInv ==
  ASSUME ProcInv, TaskInv, NEW h \in Thread, CherryPickFails(h)
  PROVE  TaskInv'
<1>1. CanPick(h)
  BY ZenonT(60) DEF CherryPickFails
<1>2. PICK t \in Task : t = Head(run_tasks_)
  BY <1>1, PickFacts, ZenonT(60)
<1>3. SchedTypeOK /\ TaskOK(t)
  BY ZenonT(60) DEF ProcInv, TaskInv
<1>4. /\ NoRepeat(run_tasks_')
      /\ \A u \in Task : In(run_tasks_, u) <=> u = t \/ In(run_tasks_, u)'
      /\ ~In(run_tasks_, t)' /\ In(run_tasks_, t)
  <2>1. run_tasks_' = Tail(run_tasks_)
    BY SMTT(60) DEF CherryPickFails
  <2>2. QED
    BY <1>1, <1>2, <2>1, PickFacts, SMTT(60)
<1>5. UNCHANGED <<runnable_list_, proc_, waiting>> /\ failed \subseteq failed' /\ failed' # {}
  BY ZenonT(60) DEF CherryPickFails, procvars
<1>6. life'[t] = "fatal" /\ \A u \in Task \ {t} : life'[u] = life[u]
  BY <1>2, <1>3, SMTT(60) DEF CherryPickFails, SchedTypeOK
<1>7. /\ t \notin waiting
      /\ \A o \in Proc : ~InProc(o, t)
      /\ \A g \in Thread : ~InHands(g, t)
  BY <1>3, <1>4, ZenonT(60) DEF TaskOK
<1>8. /\ \A g \in Thread : thr'[g].kept = thr[g].kept /\ thr'[g].rest = thr[g].rest
      /\ \A g \in Thread, u \in Task : InHands(g, u) => thr'[g].proc = thr[g].proc
  <2>1. Goes(h, "idle", NULL, <<>>, <<>>, 0)
    BY IdleGoes, ZenonT(60) DEF CherryPickFails
  <2>2. thr[h].kept = <<>> /\ thr[h].rest = <<>>
    BY <1>1, PickFacts, ZenonT(60)
  <2>3. \A u : ~InHands(h, u)
    BY <2>2, EmptyFacts, ZenonT(60) DEF InHands
  <2>4. QED
    BY <2>1, <2>2, <2>3, SMTT(60) DEF Goes
<1>9. \A g \in Thread, u \in Task : InHands(g, u)' <=> InHands(g, u)
  BY <1>8, ZenonT(60) DEF InHands
<1>10. \A o \in Proc, u \in Task : InProc(o, u)' <=> InProc(o, u)
  BY <1>5, SMTT(60) DEF InProc
<1>11. TaskOK(t)'
  BY <1>4, <1>5, <1>6, <1>7, <1>9, <1>10, ZenonT(60) DEF TaskOK
<1>12. ASSUME NEW u \in Task \ {t} PROVE TaskOK(u)'
  <2>1. TaskOK(u)
    BY SMTT(60) DEF TaskInv
  <2>2. Untouched(u)
    BY <1>4, <1>5, <1>6, <1>8, <1>10, ZenonT(60) DEF Untouched
  <2>3. QED
    BY <1>5, <2>1, <2>2, UntouchedOK, ZenonT(60)
<1>13. QED
  BY <1>4, <1>5, <1>8, <1>11, <1>12, ZenonT(60) DEF TaskInv

\* No task is anywhere at the start.
LEMMA InitTaskInv == SchedInit => TaskInv
<1> SUFFICES ASSUME SchedInit PROVE TaskInv
  BY Zenon
<1>1. run_tasks_ = <<>> /\ waiting = {} /\ \A p \in Proc : runnable_list_[p] = <<>>
  BY Zenon DEF SchedInit
<1>2. \A t \in Task : proc_[t] = NULL /\ life[t] = "new"
  BY ZenonT(60) DEF SchedInit
<1>3. \A h \in Thread : thr[h].kept = <<>> /\ thr[h].rest = <<>>
  BY Zenon DEF SchedInit, IdleThread
<1>4. QED
  BY <1>1, <1>2, <1>3, EmptyFacts, SMTT(60) DEF TaskInv, TaskOK, InProc, InHands


====
