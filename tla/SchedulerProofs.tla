--------------------------- MODULE SchedulerProofs ---------------------------
(***************************************************************************)
(* What Scheduler::Run, DoRunnable and Processer::Run promise, from the    *)
(* invariants of SchedulerLemmas: no Processer is shared, nothing is lost  *)
(* or doubled, and the counts are right.                                   *)
(***************************************************************************)
EXTENDS FiniteSetTheorems, SchedulerLemmas

-----------------------------------------------------------------------------
(* The counts *)

Live == {t \in Task : life[t] \in {"counted", "alive"}}
Own(p) == {t \in Task : life[t] = "alive" /\ proc_[t] = p}
Turn(h) == {h} \X (1..thr[h].done)

CountInv == IsFiniteSet(DoneTurns) /\ TaskCountExact

\* The sets that task_count_ and a Processer's count stand for are finite.
LEMMA CountsFinite ==
  /\ IsFiniteSet(Live) /\ Cardinality(Live) \in Nat
  /\ \A p \in Proc : IsFiniteSet(Own(p)) /\ Cardinality(Own(p)) \in Nat
<1>1. Live \in SUBSET Task /\ \A p \in Proc : Own(p) \in SUBSET Task
  BY Zenon DEF Live, Own
<1>2. IsFiniteSet(Live) /\ \A p \in Proc : IsFiniteSet(Own(p))
  BY <1>1, SchedulerAssumption, FS_Subset, SMTT(60)
<1>3. QED
  BY <1>2, FS_CardinalityType, Zenon

\* A finished turn belongs to one thread's run.
LEMMA InTurns ==
  /\ \A x : x \in DoneTurns <=> \E g \in Thread : x \in Turn(g)
  /\ \A x : x \in DoneTurns' <=> \E g \in Thread : x \in Turn(g)'
BY Zenon DEF DoneTurns, Turn

\* A step that finishes no task leaves the finished turns alone.
LEMMA SameTurns ==
  ASSUME \A g \in Thread : thr'[g].done = thr[g].done
  PROVE  DoneTurns' = DoneTurns
<1>1. \A g \in Thread : Turn(g)' = Turn(g)
  BY Zenon DEF Turn
<1>2. ASSUME NEW x PROVE x \in DoneTurns' <=> x \in DoneTurns
  BY <1>1, InTurns, Zenon DEF Turn
<1>3. QED
  BY <1>2, Zenon

\* One more coroutine is done in the turn of h.
LEMMA LongerTurn ==
  ASSUME NEW h \in Thread, thr[h].done \in Nat, thr'[h].done = thr[h].done + 1,
         \A g \in Thread \ {h} : thr'[g].done = thr[g].done
  PROVE  /\ DoneTurns' = DoneTurns \cup {<<h, thr[h].done + 1>>}
         /\ <<h, thr[h].done + 1>> \notin DoneTurns
<1>1. PICK n \in Nat : n = thr[h].done
  BY Zenon
<1>2. \A g \in Thread \ {h} : Turn(g)' = Turn(g)
  BY Zenon DEF Turn
<1>3. 1..(n + 1) = (1..n) \cup {n + 1} /\ n + 1 \notin 1..n
  OBVIOUS
<1>4. Turn(h)' = Turn(h) \cup {<<h, n + 1>>} /\ <<h, n + 1>> \notin Turn(h)
  BY <1>1, <1>3 DEF Turn
<1>5. \A g \in Thread \ {h} : <<h, n + 1>> \notin Turn(g)
  BY Zenon DEF Turn
<1>6. QED
  BY <1>1, <1>2, <1>4, <1>5, InTurns

\* The turn of h is over.
LEMMA TurnOver ==
  ASSUME NEW h \in Thread, thr[h].done \in Nat, thr'[h].done = 0,
         \A g \in Thread \ {h} : thr'[g].done = thr[g].done
  PROVE  /\ DoneTurns' = DoneTurns \ Turn(h) /\ Turn(h) \subseteq DoneTurns
         /\ IsFiniteSet(Turn(h)) /\ Cardinality(Turn(h)) = thr[h].done
<1>1. PICK n \in Nat : n = thr[h].done
  BY Zenon
<1>2. \A g \in Thread \ {h} : Turn(g)' = Turn(g)
  BY Zenon DEF Turn
<1>3. Turn(h)' = {}
  BY DEF Turn
<1>4. \A g \in Thread \ {h} : Turn(g) \cap Turn(h) = {}
  BY Zenon DEF Turn
<1>5. DoneTurns' = DoneTurns \ Turn(h) /\ Turn(h) \subseteq DoneTurns
  BY <1>2, <1>3, <1>4, InTurns
<1>6. PICK S, T : S = {h} /\ T = 1..n
  BY ZenonT(60)
<1>7. IsFiniteSet(S) /\ Cardinality(S) = 1 /\ IsFiniteSet(T) /\ Cardinality(T) = n
  <2>1. IsFiniteSet(S) /\ Cardinality(S) = 1
    BY <1>6, FS_Singleton, ZenonT(60)
  <2>2. IsFiniteSet(T) /\ Cardinality(T) = n
    BY <1>6, FS_Interval
  <2>3. QED
    BY <2>1, <2>2, Zenon
<1>8. IsFiniteSet(S \X T) /\ Cardinality(S \X T) = Cardinality(S) * Cardinality(T)
  BY <1>7, FS_Product, ZenonT(60)
<1>9. Turn(h) = S \X T
  BY <1>1, <1>6, Zenon DEF Turn
<1>10. QED
  BY <1>1, <1>5, <1>7, <1>8, <1>9

\* What TaskCountExact says with the sets above.
LEMMA CountSets ==
  TaskCountExact <=>
    ("getcontext" \notin failed =>
       /\ task_count_ = Cardinality(Live) + Cardinality(DoneTurns)
       /\ \A p \in Proc : proc_tasks[p] = Cardinality(Own(p)))
BY Zenon DEF TaskCountExact, Live, Own

\* What the exactness of the counts says of the next state.
LEMMA CountSetsNext ==
  TaskCountExact' <=>
    ("getcontext" \notin failed' =>
       /\ task_count_' = Cardinality(Live') + Cardinality(DoneTurns')
       /\ \A p \in Proc : proc_tasks'[p] = Cardinality(Own(p)'))
BY Zenon DEF TaskCountExact, Live, Own

\* A step that neither creates, picks nor finishes a task keeps the counts exact.
LEMMA CountStays ==
  ASSUME CountInv, UNCHANGED <<task_count_, proc_tasks>>, failed \subseteq failed',
         Live' = Live, \A p \in Proc : Own(p)' = Own(p),
         \A g \in Thread : thr'[g].done = thr[g].done
  PROVE  CountInv'
<1>1. DoneTurns' = DoneTurns
  BY SameTurns, Zenon
<1>2. QED
  BY <1>1, CountSets, CountSetsNext, Zenon DEF CountInv

\* The steps that end no coroutine and give none to a Processer.
LEMMA StayCountInv ==
  ASSUME ProcInv, CountInv, NEW h \in Thread,
         \/ StartCreate(h) \/ NewProcesser(h) \/ EndCreate(h) \/ StartRunnable(h)
         \/ PopProc(h) \/ EndRunnable(h) \/ Average(h) \/ StartProc(h)
         \/ TaskYields(h) \/ TaskBlocks(h) \/ SwapFails(h) \/ Switch(h) \/ EndTasks(h)
  PROVE  CountInv'
<1>1. UNCHANGED <<task_count_, proc_tasks, life, proc_>> /\ failed \subseteq failed'
  <2>1. CASE \/ StartCreate(h) \/ NewProcesser(h) \/ EndCreate(h) \/ StartRunnable(h)
             \/ PopProc(h) \/ EndRunnable(h) \/ Average(h) \/ StartProc(h)
    BY <2>1, SMTT(60) DEF StartCreate, NewProcesser, EndCreate, StartRunnable, PopProc,
       EndRunnable, Average,
                StartProc, taskvars, procvars
  <2>2. CASE TaskYields(h) \/ TaskBlocks(h) \/ SwapFails(h) \/ Switch(h) \/ EndTasks(h)
    BY <2>2, ZenonT(60) DEF TaskYields, TaskBlocks, SwapFails, Switch, SwitchWaits,
       SwitchRefused, SwitchKeeps,
                EndTasks, taskvars, procvars
  <2>3. QED
    BY <2>1, <2>2, ZenonT(60)
<1>2. ThreadOK(h) /\ thr[h].done \in Nat
  BY ThreadFields, SMTT(60) DEF ProcInv
<1>3. \E a, q, k, r : Goes(h, a, q, k, r, thr[h].done)
  <2>1. CASE \/ StartCreate(h) \/ NewProcesser(h) \/ EndCreate(h) \/ StartRunnable(h)
             \/ PopProc(h) \/ EndRunnable(h) \/ Average(h) \/ StartProc(h)
    <3>1. thr[h].done = 0
      BY <1>2, <2>1, SMTT(60) DEF StartCreate, NewProcesser, EndCreate, StartRunnable,
         PopProc, EndRunnable,
                        Average, StartProc, ThreadOK
    <3>2. CASE \/ StartCreate(h) \/ NewProcesser(h) \/ PopProc(h) \/ Average(h) \/ StartProc(h)
      BY <3>1, <3>2, StartCreateGoes, NewProcesserGoes, PopProcGoes, AverageGoes,
         StartProcGoes, ZenonT(60)
    <3>3. CASE EndCreate(h) \/ StartRunnable(h) \/ EndRunnable(h)
      BY <3>1, <3>3, LoopingGoes, IdleGoes, SMTT(60) DEF EndCreate, StartRunnable, EndRunnable
    <3>4. QED
      BY <2>1, <3>2, <3>3, ZenonT(60)
  <2>2. CASE TaskYields(h) \/ TaskBlocks(h) \/ SwapFails(h) \/ EndTasks(h)
    BY <2>2, TaskYieldsGoes, TaskBlocksGoes, SwapFailsGoes, EndTasksGoes, SMTT(60)
  <2>3. CASE Switch(h)
    BY <2>3, SwitchWaitsGoes, SwitchRefusedGoes, SwitchKeepsGoes, SMTT(60) DEF Switch
  <2>4. QED
    BY <2>1, <2>2, <2>3, SMTT(60)
<1>4. \A g \in Thread : thr'[g].done = thr[g].done
  BY <1>3, Zenon DEF Goes
<1>5. Live' = Live /\ \A p \in Proc : Own(p)' = Own(p)
  BY <1>1, Zenon DEF Live, Own
<1>6. QED
  BY <1>1, <1>4, <1>5, CountStays, SMTT(60)

\* CreateTask counts, then the coroutine becomes visible; a wakeup counts nothing.
LEMMA TaskCountInv ==
  ASSUME ProcInv, TaskInv, CountInv, NEW t \in Task, CreateCount(t) \/ CreatePush(t) \/ WakeTask(t)
  PROVE  CountInv'
<1>1. SchedTypeOK /\ TaskOK(t)
  BY Zenon DEF ProcInv, TaskInv
<1>2. UNCHANGED <<proc_tasks, proc_, thr, failed>>
  BY Zenon DEF CreateCount, CreatePush, WakeTask, procvars
<1>3. \A g \in Thread : thr'[g].done = thr[g].done
  BY <1>2, Zenon
<1>4. CASE CreateCount(t)
  <2>1. /\ life[t] = "new" /\ life'[t] = "counted" /\ \A u \in Task \ {t} : life'[u] = life[u]
        /\ task_count_' = task_count_ + 1
    BY <1>1, <1>4, SMTT(60) DEF CreateCount, SchedTypeOK
  <2>2. t \notin Live /\ Live' = Live \cup {t}
    BY <2>1, Zenon DEF Live
  <2>3. \A p \in Proc : Own(p)' = Own(p)
    BY <1>2, <2>1, SMTT(60) DEF Own
  <2>4. Cardinality(Live') = Cardinality(Live) + 1
    BY <2>2, CountsFinite, FS_AddElement, SMTT(60)
  <2>5. DoneTurns' = DoneTurns
    BY <1>3, SameTurns, SMTT(60)
  <2>6. Cardinality(Live) \in Nat /\ Cardinality(DoneTurns) \in Nat
    BY CountsFinite, FS_CardinalityType, SMTT(60) DEF CountInv
  <2>7. QED
    BY <1>2, <2>1, <2>3, <2>4, <2>5, <2>6, CountSets, CountSetsNext, SMTT(60) DEF CountInv
<1>5. CASE CreatePush(t)
  <2>1. /\ life[t] = "counted" /\ life'[t] = "alive" /\ \A u \in Task \ {t} : life'[u] = life[u]
        /\ task_count_' = task_count_
    BY <1>1, <1>5, SMTT(60) DEF CreatePush, SchedTypeOK
  <2>2. proc_[t] = NULL
    BY <1>1, <2>1, SMTT(60) DEF TaskOK
  <2>3. Live' = Live
    BY <2>1, Zenon DEF Live
  <2>4. ASSUME NEW p \in Proc PROVE Own(p)' = Own(p)
    <3>1. p # NULL
      BY SchedulerAssumption, ZenonT(60)
    <3>2. QED
      BY <1>2, <2>1, <2>2, <3>1, SMTT(60) DEF Own
  <2>5. QED
    BY <1>2, <1>3, <2>1, <2>3, <2>4, CountStays, SMTT(60)
<1>6. CASE WakeTask(t)
  <2>1. UNCHANGED <<task_count_, life>>
    BY <1>6, Zenon DEF WakeTask, taskvars
  <2>2. Live' = Live /\ \A p \in Proc : Own(p)' = Own(p)
    BY <1>2, <2>1, ZenonT(60) DEF Live, Own
  <2>3. QED
    BY <1>2, <1>3, <2>1, <2>2, CountStays, ZenonT(60)
<1>7. QED
  BY <1>4, <1>5, <1>6, SMTT(60)

\* Processer::AddTaskRunnable counts the coroutine, Processer::Run the end of one.
LEMMA PickCountInv ==
  ASSUME ProcInv, TaskInv, CountInv, NEW h \in Thread, CherryPick(h)
  PROVE  CountInv'
<1>1. CanPick(h)
  BY Zenon DEF CherryPick
<1>2. PICK t \in Task, p \in Proc : t = Head(run_tasks_) /\ p = thr[h].proc
  BY <1>1, PickFacts, ZenonT(60)
<1>3. SchedTypeOK /\ TaskOK(t) /\ In(run_tasks_, t)
  BY <1>1, <1>2, PickFacts, SMTT(60) DEF ProcInv, TaskInv
<1>4. life[t] = "alive" /\ proc_[t] = NULL
  BY <1>3, SMTT(60) DEF TaskOK
<1>5. UNCHANGED <<task_count_, life, thr, failed>>
  BY ZenonT(60) DEF CherryPick
<1>6. proc_'[t] = p /\ \A u \in Task \ {t} : proc_'[u] = proc_[u]
  BY <1>2, <1>3, ZenonT(60) DEF CherryPick, SchedTypeOK
<1>7. proc_tasks'[p] = proc_tasks[p] + 1 /\ \A o \in Proc \ {p} : proc_tasks'[o] = proc_tasks[o]
  BY <1>2, <1>3, SMTT(60) DEF CherryPick, SchedTypeOK
<1>8. Live' = Live
  BY <1>5, ZenonT(60) DEF Live
<1>9. \A o \in Proc : o # NULL
  BY SchedulerAssumption, ZenonT(60)
<1>10. t \notin Own(p) /\ Own(p)' = Own(p) \cup {t}
  BY <1>4, <1>5, <1>6, <1>9, ZenonT(60) DEF Own
<1>11. \A o \in Proc \ {p} : Own(o)' = Own(o)
  BY <1>4, <1>5, <1>6, <1>9, ZenonT(60) DEF Own
<1>12. Cardinality(Own(p)') = Cardinality(Own(p)) + 1
  BY <1>10, CountsFinite, FS_AddElement, ZenonT(60)
<1>13. DoneTurns' = DoneTurns
  BY <1>5, SameTurns, ZenonT(60)
<1>14. QED
  BY <1>5, <1>7, <1>8, <1>11, <1>12, <1>13, CountSets, CountSetsNext DEF CountInv

\* A task that ends or throws moves from the live ones to the finished turns.
LEMMA FinishCountInv ==
  ASSUME ProcInv, TaskInv, CountInv, NEW h \in Thread, TaskDone(h) \/ TaskThrows(h)
  PROVE  CountInv'
<1>1. Finish(h) /\ InTask(h)
  BY ZenonT(60) DEF TaskDone, TaskThrows, Finish
<1>2. PICK c \in Task, p \in Proc : c = Current(h) /\ p = thr[h].proc
  BY <1>1, CurrentFacts, SMTT(60)
<1>3. SchedTypeOK /\ TaskOK(c) /\ InHands(h, c)
  <2>1. SchedTypeOK /\ thr[h].rest # <<>>
    BY <1>1, SMTT(60) DEF ProcInv, InTask
  <2>2. In(thr[h].rest, c)
    BY <1>2, <2>1, ThreadFields, PopFacts, ZenonT(60) DEF Current
  <2>3. QED
    BY <2>1, <2>2, SMTT(60) DEF TaskInv, InHands
<1>4. life[c] = "alive" /\ proc_[c] = p
  BY <1>2, <1>3, SMTT(60) DEF TaskOK
<1>5. UNCHANGED <<task_count_, proc_, failed>>
  BY <1>1, SMTT(60) DEF Finish
<1>6. life'[c] = "done" /\ \A u \in Task \ {c} : life'[u] = life[u]
  BY <1>1, <1>2, <1>3, SMTT(60) DEF Finish, SchedTypeOK
<1>7. proc_tasks'[p] = proc_tasks[p] - 1 /\ \A o \in Proc \ {p} : proc_tasks'[o] = proc_tasks[o]
  BY <1>1, <1>2, <1>3, SMTT(60) DEF Finish, SchedTypeOK
<1>8. c \in Live /\ Live' = Live \ {c}
  BY <1>4, <1>6, SMTT(60) DEF Live
<1>9. c \in Own(p) /\ Own(p)' = Own(p) \ {c}
  BY <1>4, <1>5, <1>6, SMTT(60) DEF Own
<1>10. \A o \in Proc \ {p} : Own(o)' = Own(o)
  BY <1>4, <1>5, <1>6, SMTT(60) DEF Own
<1>11. Cardinality(Live') = Cardinality(Live) - 1 /\ Cardinality(Own(p)') = Cardinality(Own(p)) - 1
  BY <1>8, <1>9, CountsFinite, FS_RemoveElement, ZenonT(60)
<1>12. \E a, q, k, r : Goes(h, a, q, k, r, thr[h].done + 1)
  BY TaskDoneGoes, TaskThrowsGoes, ZenonT(60)
<1>13. thr[h].done \in Nat
  BY <1>3, ThreadFields, ZenonT(60)
<1>14. PICK x : x \notin DoneTurns /\ DoneTurns' = DoneTurns \cup {x}
  BY <1>12, <1>13, LongerTurn, ZenonT(60) DEF Goes
<1>15. IsFiniteSet(DoneTurns') /\ Cardinality(DoneTurns') = Cardinality(DoneTurns) + 1
  BY <1>14, FS_AddElement, ZenonT(60) DEF CountInv
<1>16. Cardinality(Live) \in Nat /\ Cardinality(DoneTurns) \in Nat
  BY CountsFinite, FS_CardinalityType, ZenonT(60) DEF CountInv
<1>17. QED
  BY <1>5, <1>7, <1>10, <1>11, <1>15, <1>16, CountSets, CountSetsNext DEF CountInv

\* DoRunnable subtracts done_count, on the path of an exception too.
LEMMA EndCountInv ==
  ASSUME ProcInv, CountInv, NEW h \in Thread, EndProc(h) \/ CherryPickFails(h)
  PROVE  CountInv'
<1>1. \E a : Goes(h, a, NULL, <<>>, <<>>, 0)
  BY EndProcGoes, IdleGoes, ZenonT(60) DEF CherryPickFails
<1>2. thr[h].done \in Nat
  BY ThreadFields, ZenonT(60) DEF ProcInv
<1>3. /\ DoneTurns' = DoneTurns \ Turn(h) /\ Turn(h) \subseteq DoneTurns
      /\ IsFiniteSet(Turn(h)) /\ Cardinality(Turn(h)) = thr[h].done
  BY <1>1, <1>2, TurnOver, SMTT(60) DEF Goes
<1>4. /\ IsFiniteSet(DoneTurns')
      /\ Cardinality(DoneTurns') = Cardinality(DoneTurns) - Cardinality(DoneTurns \cap Turn(h))
  BY <1>3, FS_Difference, SMTT(60) DEF CountInv
<1>5. DoneTurns \cap Turn(h) = Turn(h)
  BY <1>3, SMTT(60)
<1>6. CASE CherryPickFails(h)
  BY <1>4, <1>6, CountSetsNext, ZenonT(60) DEF CherryPickFails, CountInv
<1>7. CASE EndProc(h)
  <2>1. UNCHANGED <<proc_tasks, life, proc_, failed>> /\ task_count_' = task_count_ - thr[h].done
    BY <1>7, SMTT(60) DEF EndProc, procvars
  <2>2. Live' = Live /\ \A p \in Proc : Own(p)' = Own(p)
    BY <2>1, SMTT(60) DEF Live, Own
  <2>3. Cardinality(Live) \in Nat /\ Cardinality(DoneTurns) \in Nat
    BY CountsFinite, FS_CardinalityType, SMTT(60) DEF CountInv
  <2>4. Cardinality(DoneTurns') = Cardinality(DoneTurns) - thr[h].done
    BY <1>3, <1>4, <1>5, SMTT(60)
  <2>5. QED
    BY <1>2, <1>4, <2>1, <2>2, <2>3, <2>4, CountSets, CountSetsNext, SMTT(60) DEF CountInv
<1>8. QED
  BY <1>6, <1>7, SMTT(60)

\* The counts start exact, at 0.
LEMMA InitCountInv == SchedInit => CountInv
<1> SUFFICES ASSUME SchedInit PROVE CountInv
  BY ZenonT(60)
<1>1. \A h \in Thread : thr[h].done = 0
  BY Zenon DEF SchedInit, IdleThread
<1>2. DoneTurns = {}
  BY <1>1 DEF DoneTurns
<1>3. Live = {} /\ \A p \in Proc : Own(p) = {}
  BY Zenon DEF SchedInit, Live, Own
<1>4. task_count_ = 0 /\ \A p \in Proc : proc_tasks[p] = 0
  BY Zenon DEF SchedInit
<1>5. IsFiniteSet({}) /\ Cardinality({}) = 0
  BY FS_EmptySet, ZenonT(60)
<1>6. TaskCountExact
  BY <1>2, <1>3, <1>4, <1>5, CountSets, SMTT(60)
<1>7. QED
  BY <1>2, <1>5, <1>6, SMTT(60) DEF CountInv

-----------------------------------------------------------------------------
(* What the invariants mean for the lists *)

Single(S) == \A x, y \in S : x = y

\* A set with at most one element has 0 or 1 elements.
LEMMA SingleCount ==
  ASSUME NEW S, Single(S)
  PROVE  Cardinality(S) = IF S = {} THEN 0 ELSE 1
<1>1. CASE S = {}
  BY <1>1, FS_EmptySet, ZenonT(60)
<1>2. CASE S # {}
  <2>1. PICK x : S = {x}
    BY <1>2 DEF Single
  <2>2. Cardinality({x}) = 1
    BY FS_Singleton, Zenon
  <2>3. QED
    BY <1>2, <2>1, <2>2, SMTT(60)
<1>3. QED
  BY <1>1, <1>2, ZenonT(60)

\* An element of a list without repeats has one position.
LEMMA PositionFacts ==
  ASSUME NEW q, NEW e
  PROVE  /\ NoRepeat(q) => Single(Positions(q, e))
         /\ Positions(q, e) # {} <=> In(q, e)
BY Zenon DEF NoRepeat, Single, Positions, In

\* A Processer is in one place: in the list, or with one thread.
LEMMA ProcPlacesCount ==
  ASSUME ProcInv, NEW p \in Proc
  PROVE  /\ ProcPlaces(p) <= 1
         /\ proc_count = processer_count /\ "getcontext" \notin failed => ProcPlaces(p) = 1
<1>1. PICK S, T : S = Positions(run_proc_list_, p) /\ T = {h \in Thread : thr[h].proc = p}
  BY ZenonT(60)
<1>2. ProcOK(p)
  BY Zenon DEF ProcInv
<1>3. Single(S) /\ (S # {} <=> In(run_proc_list_, p))
  BY <1>1, PositionFacts, Zenon DEF ProcInv
<1>4. Single(T) /\ (T # {} <=> \E h \in Thread : thr[h].proc = p)
  BY <1>1, <1>2, Zenon DEF Single, ProcOK
<1>5. /\ Cardinality(S) = (IF S = {} THEN 0 ELSE 1)
      /\ Cardinality(T) = (IF T = {} THEN 0 ELSE 1)
  BY <1>3, <1>4, SingleCount, Zenon
<1>6. S = {} \/ T = {}
  BY <1>2, <1>3, <1>4, ZenonT(60) DEF ProcOK
<1>7. proc_count = processer_count /\ "getcontext" \notin failed => S # {} \/ T # {}
  BY <1>2, <1>3, <1>4, SMTT(60) DEF ProcOK, Made
<1>8. ProcPlaces(p) = Cardinality(S) + Cardinality(T)
  BY <1>1, ZenonT(60) DEF ProcPlaces
<1>9. QED
  BY <1>5, <1>6, <1>7, <1>8, SMTT(60)

\* The invariants give that no stack is run by two threads.
LEMMA StackNotSharedHolds ==
  ASSUME ProcInv, TaskInv PROVE StackNotShared
<1>1. \A p \in Proc : ProcPlaces(p) <= 1
  BY ProcPlacesCount, ZenonT(60)
<1>2. ASSUME NEW h \in Thread, NEW t \in Task,
             Positions(thr[h].kept, t) \cup Positions(thr[h].rest, t) # {}
      PROVE  proc_[t] = thr[h].proc /\ thr[h].proc # NULL
  <2>1. InHands(h, t)
    BY <1>2, PositionFacts, ZenonT(60) DEF InHands
  <2>2. QED
    BY <2>1, SchedulerAssumption, ZenonT(60) DEF TaskInv, TaskOK
<1>3. ASSUME NEW p \in Proc, NEW t \in Task, Positions(runnable_list_[p], t) # {} PROVE proc_[t] = p
  <2>1. InProc(p, t)
    BY <1>3, PositionFacts, ZenonT(60) DEF InProc
  <2>2. QED
    BY <2>1, ZenonT(60) DEF TaskInv, TaskOK
<1>4. QED
  BY <1>1, <1>2, <1>3, ZenonT(60) DEF StackNotShared

\* At most one of five sets has an element, and it has one at most.
LEMMA OneOfFive ==
  ASSUME NEW A, NEW B, NEW C, NEW D, NEW E,
         Single(A), Single(B), Single(C), Single(D), Single(E),
         A # {} => B = {} /\ C = {} /\ D = {} /\ E = {},
         B # {} => C = {} /\ D = {} /\ E = {},
         C # {} => D = {} /\ E = {},
         D # {} => E = {}
  PROVE  Single(A \cup B \cup C \cup D \cup E)
BY Zenon DEF Single

\* The invariants give that a task is in one place.
LEMMA TaskInOnePlaceHolds ==
  ASSUME ProcInv, TaskInv PROVE TaskInOnePlace
<1> SUFFICES ASSUME NEW t \in Task
             PROVE  /\ Cardinality(Places(t)) <= 1
                    /\ failed = {} => Cardinality(Places(t)) = IF life[t] = "alive" THEN 1 ELSE 0
  BY Zenon DEF TaskInOnePlace
<1>1. TaskOK(t) /\ NULL \notin Proc
  BY SchedulerAssumption, SMTT(60) DEF TaskInv
<1>2. PICK A, B, C, D, E :
        /\ A = {<<"new", NULL, j>> : j \in Positions(run_tasks_, t)}
        /\ B = UNION {{<<"runnable", p, j>> : j \in Positions(runnable_list_[p], t)} : p \in Proc}
        /\ C = UNION {{<<"kept", h, j>> : j \in Positions(thr[h].kept, t)} : h \in Thread}
        /\ D = UNION {{<<"rest", h, j>> : j \in Positions(thr[h].rest, t)} : h \in Thread}
        /\ E = IF t \in waiting THEN {<<"waiting", NULL, 1>>} ELSE {}
  BY ZenonT(60)
<1>3. Places(t) = A \cup B \cup C \cup D \cup E
  BY <1>2, Zenon DEF Places
<1>4. Single(A) /\ (A # {} <=> In(run_tasks_, t))
  <2>1. Single(Positions(run_tasks_, t)) /\ (Positions(run_tasks_, t) # {} <=> In(run_tasks_, t))
    BY PositionFacts, ZenonT(60) DEF TaskInv
  <2>2. QED
    BY <1>2, <2>1, ZenonT(60) DEF Single
<1>5. Single(B) /\ (B # {} <=> \E p \in Proc : InProc(p, t))
  <2>1. \A p \in Proc : /\ Single(Positions(runnable_list_[p], t))
                        /\ Positions(runnable_list_[p], t) # {} <=> InProc(p, t)
    BY PositionFacts, ZenonT(60) DEF TaskInv, InProc
  <2>2. \A x : x \in B <=> \E p \in Proc : \E j \in Positions(runnable_list_[p], t) : x = <<"runnable", p, j>>
    BY <1>2, SMTT(60)
  <2>3. \A p, o \in Proc : InProc(p, t) /\ InProc(o, t) => p = o
    BY <1>1, SMTT(60) DEF TaskOK
  <2>4. Single(B)
    BY <2>1, <2>2, <2>3, SMTT(60) DEF Single
  <2>5. QED
    BY <2>1, <2>2, <2>4, ZenonT(60)
<1>6. \A g, h \in Thread : InHands(g, t) /\ InHands(h, t) => g = h
  BY <1>1, SMTT(60) DEF TaskOK, ProcInv, ProcOK
<1>7. Single(C) /\ (C # {} <=> \E h \in Thread : In(thr[h].kept, t))
  <2>1. \A h \in Thread : /\ Single(Positions(thr[h].kept, t))
                          /\ Positions(thr[h].kept, t) # {} <=> In(thr[h].kept, t)
    BY PositionFacts, ZenonT(60) DEF TaskInv
  <2>2. \A x : x \in C <=> \E h \in Thread : \E j \in Positions(thr[h].kept, t) : x = <<"kept", h, j>>
    BY <1>2, SMTT(60)
  <2>3. \A g, h \in Thread : In(thr[g].kept, t) /\ In(thr[h].kept, t) => g = h
    BY <1>6, ZenonT(60) DEF InHands
  <2>4. Single(C)
    BY <2>1, <2>2, <2>3, SMTT(60) DEF Single
  <2>5. QED
    BY <2>1, <2>2, <2>4, ZenonT(60)
<1>8. Single(D) /\ (D # {} <=> \E h \in Thread : In(thr[h].rest, t))
  <2>1. \A h \in Thread : /\ Single(Positions(thr[h].rest, t))
                          /\ Positions(thr[h].rest, t) # {} <=> In(thr[h].rest, t)
    BY PositionFacts, ZenonT(60) DEF TaskInv
  <2>2. \A x : x \in D <=> \E h \in Thread : \E j \in Positions(thr[h].rest, t) : x = <<"rest", h, j>>
    BY <1>2, SMTT(60)
  <2>3. \A g, h \in Thread : In(thr[g].rest, t) /\ In(thr[h].rest, t) => g = h
    BY <1>6, ZenonT(60) DEF InHands
  <2>4. Single(D)
    BY <2>1, <2>2, <2>3, SMTT(60) DEF Single
  <2>5. QED
    BY <2>1, <2>2, <2>4, ZenonT(60)
<1>9. Single(E) /\ (E # {} <=> t \in waiting)
  BY <1>2, ZenonT(60) DEF Single
<1>10. /\ In(run_tasks_, t) => /\ \A p \in Proc : ~InProc(p, t)
                               /\ \A h \in Thread : ~InHands(h, t)
                               /\ t \notin waiting
       /\ \A p \in Proc : InProc(p, t) => (\A h \in Thread : ~InHands(h, t)) /\ t \notin waiting
       /\ \A h \in Thread : InHands(h, t) => t \notin waiting
       /\ \A g, h \in Thread : ~(In(thr[g].kept, t) /\ In(thr[h].rest, t))
  <2>1. \A g, h \in Thread : ~(In(thr[g].kept, t) /\ In(thr[h].rest, t))
    BY <1>1, <1>6, ZenonT(60) DEF TaskOK, InHands
  <2>2. QED
    BY <1>1, <2>1, ZenonT(60) DEF TaskOK
<1>11. Single(Places(t))
  <2>1. /\ A # {} => B = {} /\ C = {} /\ D = {} /\ E = {}
        /\ B # {} => C = {} /\ D = {} /\ E = {}
        /\ C # {} => D = {} /\ E = {}
        /\ D # {} => E = {}
    BY <1>4, <1>5, <1>7, <1>8, <1>9, <1>10, ZenonT(60) DEF InHands
  <2>2. QED
    BY <1>3, <1>4, <1>5, <1>7, <1>8, <1>9, <2>1, OneOfFive, SMTT(60)
<1>12. Places(t) # {} => life[t] = "alive"
  <2>1. Places(t) # {} => A # {} \/ B # {} \/ C # {} \/ D # {} \/ E # {}
    BY <1>3, ZenonT(60)
  <2>2. QED
    BY <1>1, <1>4, <1>5, <1>7, <1>8, <1>9, <2>1, ZenonT(60) DEF TaskOK, InHands
<1>13. failed = {} /\ life[t] = "alive" => Places(t) # {}
  <2>1. A # {} \/ B # {} \/ C # {} \/ D # {} \/ E # {} => Places(t) # {}
    BY <1>3, ZenonT(60)
  <2>2. QED
    BY <1>1, <1>4, <1>5, <1>7, <1>8, <1>9, <2>1, SMTT(60) DEF TaskOK, InHands
<1>14. Cardinality(Places(t)) = IF Places(t) = {} THEN 0 ELSE 1
  BY <1>11, SingleCount, SMTT(60)
<1>15. QED
  BY <1>12, <1>13, <1>14, SMTT(60)

-----------------------------------------------------------------------------
(* Every step, and the theorems *)

\* The inductive invariant for ScheduleExact and StackNotShared.
SchedInv == ProcInv /\ TaskInv /\ CountInv

\* Every step of the scheduler keeps its invariant.
LEMMA StepSchedInv == SchedInv /\ [SchedNext]_svars => SchedInv'
<1> SUFFICES ASSUME SchedInv, [SchedNext]_svars PROVE SchedInv'
  BY ZenonT(60)
<1>1. ProcInv /\ TaskInv /\ CountInv
  BY ZenonT(60) DEF SchedInv
<1>2. ASSUME NEW t \in Task, CreateCount(t) \/ CreatePush(t) \/ WakeTask(t)
      PROVE  SchedInv'
  BY <1>1, <1>2, TaskProcInv, CreateTaskInv, WakeTaskInv, TaskCountInv, SMTT(60) DEF SchedInv
<1>3. ASSUME NEW h \in Thread, ThreadStep(h) PROVE SchedInv'
  <2>1. ProcInv'
    BY <1>1, <1>3, StayProcInv, CreateProcInv, HandProcInv, ZenonT(60) DEF ThreadStep
  <2>2. TaskInv'
    BY <1>1, <1>3, StayTaskInv, HandTaskInv, PickTaskInv, PickFailsTaskInv, TurnTaskInv,
       ZenonT(60)
       DEF ThreadStep, TaskTurn
  <2>3. CountInv'
    BY <1>1, <1>3, StayCountInv, PickCountInv, FinishCountInv, EndCountInv, SMTT(60)
       DEF ThreadStep, TaskTurn
  <2>4. QED
    BY <2>1, <2>2, <2>3, ZenonT(60) DEF SchedInv
<1>4. CASE UNCHANGED svars
  <2>1. ProcInv'
    BY <1>1, <1>4, SMTT(60) DEF ProcInv, SchedTypeOK, OneCreates, ThreadOK, ProcOK, Made,
       svars, schedvars,
                      taskvars, procvars
  <2>2. TaskInv'
    BY <1>1, <1>4, ZenonT(60) DEF TaskInv, TaskOK, InHands, InProc, svars, taskvars, procvars
  <2>3. CountInv'
    BY <1>1, <1>4, ZenonT(60) DEF CountInv, TaskCountExact, DoneTurns, svars, taskvars, procvars
  <2>4. QED
    BY <2>1, <2>2, <2>3, ZenonT(60) DEF SchedInv
<1>5. QED
  BY <1>2, <1>3, <1>4, ZenonT(60) DEF SchedNext

\* The scheduler starts in its invariant.
LEMMA InitSchedInv == SchedInit => SchedInv
BY InitProcInv, InitTaskInv, InitCountInv, ZenonT(60) DEF SchedInv

\* Two threads never run coroutines of one Processer, whatever yields, blocks,
\* wakeups, exceptions and failures happen (DoRunnable's pop and push of
\* run_proc_list_, Processer::Run): the stack that they share is safe.
THEOREM StackNeverShared == SchedSafety => []StackNotShared
<1>1. SchedInv => StackNotShared
  BY StackNotSharedHolds DEF SchedInv
<1>2. QED
  BY <1>1, InitSchedInv, StepSchedInv, PTL DEF SchedSafety

\* CreateTask, Run, DoRunnable and Processer::Run lose and double no coroutine
\* and no Processer, and task_count_ is right at every step, for any number of
\* threads, coroutines and Processers.
THEOREM ScheduleStaysExact == SchedSafety => []ScheduleExact
<1>1. SchedInv => ScheduleExact
  <2> SUFFICES ASSUME SchedInv PROVE ScheduleExact
    BY Zenon
  <2>1. ProcInv /\ TaskInv /\ TaskCountExact
    BY Zenon DEF SchedInv, CountInv
  <2>2. TaskInOnePlace
    BY <2>1, TaskInOnePlaceHolds, SMTT(60)
  <2>3. ProcNotLost
    BY <2>1, ProcPlacesCount, ZenonT(60) DEF ProcNotLost
  <2>4. QED
    BY <2>1, <2>2, <2>3, SMTT(60) DEF ScheduleExact
<1>2. QED
  BY <1>1, InitSchedInv, StepSchedInv, PTL DEF SchedSafety

=============================================================================
