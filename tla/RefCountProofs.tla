---------------------------- MODULE RefCountProofs ----------------------------
(***************************************************************************)
(* The references to a Task under IoWait and the hooked system calls, for  *)
(* any number of coroutines and descriptors: RefCountSafe and              *)
(* RegisteredWhileWaiting, and that nothing strays, so that neither        *)
(* property needs its exceptions.  Cancel and the rollback of              *)
(* SchedulerSwitch take a descriptor out of the epoll without asking who   *)
(* registered it, and the rollback ends a wait while events of it may be   *)
(* under way.  So the descriptors of a wait on several must be used by one *)
(* coroutine only (Unshared), and no wait may name one twice (Distinct).   *)
(***************************************************************************)
EXTENDS FiniteSetTheorems, HookProofs

\* What is registered for a coroutine stays so until it is woken.
StaysRegistered ==
  /\ \A t \in wait_tasks_ :
       /\ sw[t].at = "add" => \A f \in Fd : In(sw[t].added, f) => Has(t, f)
       /\ sw[t].at = "none" => \E f \in Fd : Has(t, f)
  /\ wl.at = "clear" =>
       /\ Len(wl.left) <= Len(wait_fds_[wl.cur.tk])
       /\ \A f \in Fd : In(wl.left, f) =>
            /\ In(wait_fds_[wl.cur.tk], f)
            /\ Len(wait_fds_[wl.cur.tk]) <= 1 => Has(wl.cur.tk, f)

\* No reference is left to a Task that is deleted or about to be.
Unreferenced ==
  /\ \A t \in delete_list \cup deleted : ref_count_[t] = 0
  /\ \A s \in Known : s.tk \notin deleted

CountsExact == \A t \in Task : RefCountExact(t)

RefInv == StaysRegistered /\ CountsExact /\ Unreferenced

-----------------------------------------------------------------------------
(* RefInv *)

\* A task is registered for finitely many descriptors, so they can be counted.
LEMMA RegisteredFinite ==
  ASSUME NEW t \in Task
  PROVE  /\ IsFiniteSet(Registered(t)) /\ Cardinality(Registered(t)) \in Nat
         /\ Cardinality(Registered(t)) = 0 <=> Registered(t) = {}
<1>1. Registered(t) \subseteq Fd
  BY Zenon DEF Registered
<1>2. IsFiniteSet(Registered(t))
  BY <1>1, IoWaitAssumption, FS_Subset, SMTT(60)
<1>3. QED
  BY <1>2, FS_CardinalityType, FS_EmptySet, SMTT(60)

\* EPOLL_CTL_ADD and EPOLL_CTL_DEL change one count by one.
LEMMA RegisteredChanges ==
  ASSUME IoTypeOK, NEW t \in Task, NEW f \in Fd, NEW x \in WaitId \cup {NULL},
         epoll' = [epoll EXCEPT ![f] = x]
  PROVE  /\ epoll[f] = NULL /\ x # NULL /\ x.tk = t =>
              Cardinality(Registered(t)') = Cardinality(Registered(t)) + 1
         /\ epoll[f] # NULL /\ epoll[f].tk = t /\ x = NULL =>
              Cardinality(Registered(t)') = Cardinality(Registered(t)) - 1
         /\ (epoll[f] = NULL \/ epoll[f].tk # t) /\ (x = NULL \/ x.tk # t) =>
              Registered(t)' = Registered(t)
<1>1. /\ \A g \in Fd \ {f} : epoll'[g] = epoll[g]
      /\ epoll'[f] = x
  BY Zenon DEF IoTypeOK
<1>2. ASSUME epoll[f] = NULL, x # NULL, x.tk = t
      PROVE  Cardinality(Registered(t)') = Cardinality(Registered(t)) + 1
  <2>1. Registered(t)' = Registered(t) \cup {f} /\ f \notin Registered(t)
    BY <1>1, <1>2, SMTT(60) DEF Registered
  <2>2. QED
    BY <2>1, RegisteredFinite, FS_AddElement, ZenonT(60)
<1>3. ASSUME epoll[f] # NULL, epoll[f].tk = t, x = NULL
      PROVE  Cardinality(Registered(t)') = Cardinality(Registered(t)) - 1
  <2>1. Registered(t)' = Registered(t) \ {f} /\ f \in Registered(t)
    BY <1>1, <1>3, ZenonT(60) DEF Registered
  <2>2. QED
    BY <2>1, RegisteredFinite, FS_RemoveElement, ZenonT(60)
<1>4. ASSUME epoll[f] = NULL \/ epoll[f].tk # t, x = NULL \/ x.tk # t
      PROVE  Registered(t)' = Registered(t)
  BY <1>1, <1>4, SMTT(60) DEF Registered
<1>5. QED
  BY <1>2, <1>3, <1>4, SMTT(60)

\* Who is referenced is not deleted, and will not be.
LEMMA Referenced ==
  ASSUME IoTypeOK, CountsExact, Unreferenced, NEW t \in Task,
         place[t] # "done" \/ Registered(t) # {} \/ timer[t].at \in Live
  PROVE  ref_count_[t] >= 1 /\ t \notin delete_list \cup deleted
<1> DEFINE n == Cardinality(Registered(t))
<1>1. n \in Nat /\ (n = 0 <=> Registered(t) = {})
  BY RegisteredFinite, SMTT(60)
<1>2. ref_count_[t] = (IF place[t] = "done" THEN 0 ELSE 1) + n
                        + (IF timer[t].at \in Live THEN 1 ELSE 0)
  BY Zenon DEF CountsExact, RefCountExact, Live
<1> HIDE DEF n
<1>3. ref_count_[t] >= 1
  BY <1>1, <1>2, SMTT(60)
<1>4. QED
  BY <1>3, SMTT(60) DEF Unreferenced

\* A descriptor that Cancel or the rollback takes out of an epoll was put
\* there by the coroutine that it is taken out for.
LEMMA DeletesItsOwn ==
  ASSUME Unshared, IoTypeOK, RegisteredShape, NEW t \in Task, NEW f \in Fd,
         In(wait_fds_[t], f), Len(wait_fds_[t]) > 1 \/ Has(t, f), epoll[f] # NULL
  PROVE  epoll[f].tk = t
<1>1. PICK u \in Task : u = epoll[f].tk /\ RegisteredOK(f, u)
  BY ZenonT(60) DEF IoTypeOK, WaitId, RegisteredShape
<1>2. wait_fds_[t] \in Lists(t) /\ wait_fds_[u] \in Lists(u) /\ In(wait_fds_[u], f)
  BY <1>1, InEmpty, SMTT(60) DEF IoTypeOK, RegisteredOK
<1>3. QED
  BY <1>1, <1>2, SMTT(60) DEF Unshared, Has

\* The steps that do not touch the epolls: what the coroutine and its timer
\* hold is what is counted.
LEMMA CountKept ==
  ASSUME IoTypeOK, IoTypeOK', CountsExact, Unreferenced, epoll' = epoll, NEW t \in Task,
         \A u \in Task \ {t} : /\ place'[u] = "done" <=> place[u] = "done"
                               /\ timer'[u].at \in Live <=> timer[u].at \in Live,
         \/ /\ place'[t] = "done" <=> place[t] = "done"
            /\ timer'[t].at \in Live <=> timer[t].at \in Live
            /\ UNCHANGED refvars
         \/ /\ place[t] # "done" /\ place'[t] = "done"
            /\ timer'[t].at \in Live <=> timer[t].at \in Live
            /\ DecrementRef(t)
         \/ /\ place'[t] = "done" <=> place[t] = "done"
            /\ timer[t].at \in Live /\ timer'[t].at \notin Live
            /\ DecrementRef(t)
  PROVE  CountsExact' /\ \A u \in delete_list' \cup deleted : ref_count_'[u] = 0
<1>1. \A u \in Task : Registered(u)' = Registered(u)
  BY Zenon DEF Registered
<1>2. ref_count_ \in [Task -> Int] /\ delete_list \subseteq Task /\ deleted \subseteq Task
  BY SMTT(60) DEF IoTypeOK
<1>3. /\ \A u \in Task \ {t} : ref_count_'[u] = ref_count_[u]
      /\ UNCHANGED refvars => ref_count_'[t] = ref_count_[t]
      /\ DecrementRef(t) => ref_count_'[t] = ref_count_[t] - 1
  BY <1>2, SMTT(60) DEF refvars, DecrementRef
<1>4. ASSUME NEW u \in Task
      PROVE  ref_count_'[u] = (IF place'[u] = "done" THEN 0 ELSE 1) + Cardinality(Registered(u)')
                                + (IF timer'[u].at \in Live THEN 1 ELSE 0)
  <2> DEFINE n == Cardinality(Registered(u))
  <2>1. n \in Nat /\ Cardinality(Registered(u)') = n
    BY <1>1, RegisteredFinite, ZenonT(60)
  <2>2. ref_count_[u] = (IF place[u] = "done" THEN 0 ELSE 1) + n
                          + (IF timer[u].at \in Live THEN 1 ELSE 0)
    BY Zenon DEF CountsExact, RefCountExact, Live
  <2> HIDE DEF n
  <2>3. CASE u = t
    BY <1>3, <2>1, <2>2, <2>3, SMTT(60)
  <2>4. CASE u # t
    BY <1>3, <2>1, <2>2, <2>4, SMTT(60)
  <2>5. QED
    BY <2>3, <2>4, ZenonT(60)
<1>5. CountsExact'
  BY <1>4, SMTT(60) DEF CountsExact, RefCountExact, Live
<1>6. \A u \in delete_list' \cup deleted : ref_count_'[u] = 0
  <2>1. CASE UNCHANGED refvars
    BY <2>1, SMTT(60) DEF refvars, Unreferenced
  <2>2. CASE DecrementRef(t) /\ (place[t] # "done" \/ timer[t].at \in Live)
    <3>1. t \notin delete_list \cup deleted
      BY <2>2, Referenced, SMTT(60)
    <3>2. /\ ref_count_' = [ref_count_ EXCEPT ![t] = @ - 1]
          /\ delete_list' = IF ref_count_[t] = 1 THEN delete_list \cup {t} ELSE delete_list
      BY <2>2, SMTT(60) DEF DecrementRef
    <3>3. QED
      BY <1>2, <3>1, <3>2, SMTT(60) DEF Unreferenced
  <2>3. QED
    BY <2>1, <2>2, SMTT(60)
<1>7. QED
  BY <1>5, <1>6, ZenonT(60)

\* EPOLL_CTL_DEL drops the reference the descriptor had.
LEMMA DeleteKept ==
  ASSUME IoTypeOK, CountsExact, Unreferenced, NEW t \in Task, NEW f \in Fd,
         DeleteFd(t, f), epoll[f] # NULL => epoll[f].tk = t, UNCHANGED <<place, timer>>
  PROVE  /\ CountsExact' /\ \A u \in delete_list' \cup deleted : ref_count_'[u] = 0
         /\ \A u \in Task, g \in Fd : Has(u, g) /\ (u # t \/ g # f) => Has(u, g)'
<1>1. ref_count_ \in [Task -> Int] /\ delete_list \subseteq Task /\ deleted \subseteq Task
      /\ epoll \in [Fd -> WaitId \cup {NULL}]
  BY ZenonT(60) DEF IoTypeOK
<1>2. CASE epoll[f] = NULL
  <2>1. UNCHANGED <<epoll, ref_count_, delete_list>>
    BY <1>2, ZenonT(60) DEF DeleteFd, refvars
  <2>2. QED
    BY <2>1, SMTT(60) DEF CountsExact, RefCountExact, Registered, Unreferenced, Has
<1>3. CASE epoll[f] # NULL
  <2>1. /\ epoll[f].tk = t /\ epoll' = [epoll EXCEPT ![f] = NULL] /\ f \in Registered(t)
        /\ ref_count_' = [ref_count_ EXCEPT ![t] = @ - 1]
        /\ delete_list' = IF ref_count_[t] = 1 THEN delete_list \cup {t} ELSE delete_list
    BY <1>3, ZenonT(60) DEF DeleteFd, DecrementRef, Registered
  <2>2. t \notin delete_list \cup deleted
    BY <2>1, Referenced, ZenonT(60)
  <2>3. ASSUME NEW u \in Task
        PROVE  ref_count_'[u] = (IF place[u] = "done" THEN 0 ELSE 1) + Cardinality(Registered(u)')
                                  + (IF timer[u].at \in Live THEN 1 ELSE 0)
    <3> DEFINE n == Cardinality(Registered(u))
    <3>1. /\ n \in Nat
          /\ Cardinality(Registered(u)') = IF u = t THEN n - 1 ELSE n
      <4>1. CASE u = t
        BY <1>3, <2>1, <4>1, RegisteredFinite, RegisteredChanges, ZenonT(60)
      <4>2. CASE u # t
        BY <2>1, <4>2, RegisteredFinite, RegisteredChanges, ZenonT(60)
      <4>3. QED
        BY <4>1, <4>2, SMTT(60)
    <3>2. ref_count_[u] = (IF place[u] = "done" THEN 0 ELSE 1) + n
                            + (IF timer[u].at \in Live THEN 1 ELSE 0)
      BY Zenon DEF CountsExact, RefCountExact, Live
    <3> HIDE DEF n
    <3>3. ref_count_'[u] = ref_count_[u] - (IF u = t THEN 1 ELSE 0)
      BY <1>1, <2>1, SMTT(60)
    <3>4. QED
      BY <1>1, <3>1, <3>2, <3>3, SMTT(60)
  <2>4. CountsExact'
    BY <2>3, ZenonT(60) DEF CountsExact, RefCountExact, Live
  <2>5. \A u \in delete_list' \cup deleted : ref_count_'[u] = 0
    BY <1>1, <2>1, <2>2, SMTT(60) DEF Unreferenced
  <2>6. \A u \in Task, g \in Fd : Has(u, g) /\ (u # t \/ g # f) => Has(u, g)'
    BY <1>1, <2>1, SMTT(60) DEF Has
  <2>7. QED
    BY <2>4, <2>5, <2>6, ZenonT(60)
<1>4. QED
  BY <1>2, <1>3, SMTT(60)

\* The steps of a coroutine and of its timer.
LEMMA TaskRefInv ==
  ASSUME WokenInv, EpollInv, RefInv, IoTypeOK', NEW t \in Task,
         \/ \E fds \in Lists(t), b \in BOOLEAN : CoSwitch(t, fds, b)
         \/ Resume(t) \/ Finish(t) \/ Expire(t)
         \/ /\ UNCHANGED <<epoll, wait_tasks_, waitvars, evvars, timer, refvars, deleted, sw, wl>>
            /\ \/ place[t] = "running" /\ place' = [place EXCEPT ![t] = "asleep"]
               \/ place[t] = "asleep" /\ place' = [place EXCEPT ![t] = "running"]
  PROVE  RefInv'
<1>1. /\ IoTypeOK /\ WokenOnce
      /\ StaysRegistered /\ CountsExact /\ Unreferenced /\ TimerShape
      /\ place \in [Task -> {"running", "blocked", "runnable", "done", "asleep"}]
      /\ sw \in [Task -> SwitchState] /\ wait_tasks_ \subseteq Task
      /\ wl.at = "clear" => wl.cur.tk \in Task
      /\ wait_fds_ \in [Task -> Seq(Fd)] /\ timer \in [Task -> TimerState]
  BY ZenonT(60) DEF WokenInv, IoTypeOK, WaitId, RefInv, EpollInv
<1>2. ASSUME UNCHANGED <<epoll, wait_tasks_, deleted, wl>>,
             \A u \in Task \ {t} : sw'[u] = sw[u] /\ wait_fds_'[u] = wait_fds_[u],
             \/ sw'[t] = sw[t] /\ wait_fds_'[t] = wait_fds_[t]
             \/ t \notin wait_tasks_ /\ ~(wl.at = "clear" /\ wl.cur.tk = t)
      PROVE  StaysRegistered' /\ Known' = Known
  <2>1. /\ \A u \in wait_tasks_ : sw'[u] = sw[u]
        /\ wl.at = "clear" => wait_fds_'[wl.cur.tk] = wait_fds_[wl.cur.tk]
        /\ \A u, f : Has(u, f)' <=> Has(u, f)
    BY <1>1, <1>2, ZenonT(60) DEF Has
  <2>2. StaysRegistered'
    BY <1>1, <1>2, <2>1, SMTT(60) DEF StaysRegistered
  <2>3. QED
    BY <1>2, <2>2, ZenonT(60) DEF Known, Notified
<1>3. ASSUME Known' = Known, deleted' = deleted, StaysRegistered', CountsExact',
             \A u \in delete_list' \cup deleted : ref_count_'[u] = 0
      PROVE  RefInv'
  BY <1>1, <1>3, ZenonT(60) DEF RefInv, Unreferenced
<1>4. ASSUME NEW fds \in Lists(t), NEW b \in BOOLEAN, CoSwitch(t, fds, b)
      PROVE  RefInv'
  <2>1. /\ place[t] = "running" /\ place' = [place EXCEPT ![t] = "blocked"]
        /\ wait_fds_' = [wait_fds_ EXCEPT ![t] = fds]
        /\ timer' = [timer EXCEPT ![t] = NoTimer]
        /\ sw' = [sw EXCEPT ![t] = [at |-> "lock", rest |-> fds, added |-> <<>>]]
        /\ UNCHANGED <<epoll, wait_tasks_, refvars, deleted, wl>>
    BY <1>4, ZenonT(60) DEF CoSwitch
  <2>2. t \notin wait_tasks_ /\ ~(wl.at = "clear" /\ wl.cur.tk = t) /\ timer[t].at \notin Live
    BY <1>1, <2>1, ZenonT(60) DEF WokenOnce, TimerShape
  <2>3. timer'[t].at \notin Live
    BY <1>1, <2>1, SMTT(60) DEF NoTimer, Live
  <2>4. CountsExact' /\ \A u \in delete_list' \cup deleted : ref_count_'[u] = 0
    BY <1>1, <2>1, <2>2, <2>3, CountKept, ZenonT(60)
  <2>5. QED
    BY <1>1, <1>2, <1>3, <2>1, <2>2, <2>4, ZenonT(60)
<1>5. ASSUME Resume(t) \/ Expire(t) \/ Finish(t)
      PROVE  RefInv'
  <2>1. /\ UNCHANGED <<epoll, wait_tasks_, deleted, wl, sw, wait_fds_>>
        /\ \A u \in Task \ {t} : place'[u] = place[u] /\ timer'[u] = timer[u]
    BY <1>1, <1>5, SMTT(60) DEF Resume, Expire, Finish, waitvars
  <2>2. ASSUME NEW a \in {"cancelled", "expired"}, timer' = [timer EXCEPT ![t].at = a]
        PROVE  timer'[t].at = a
    <3>1. timer[t] \in TimerState /\ timer'[t] = [timer[t] EXCEPT !.at = a]
      BY <1>1, <2>2, ZenonT(60)
    <3>2. QED
      BY <3>1, Zenon DEF TimerState
  <2>3. CASE Resume(t)
    <3>1. place[t] = "runnable" /\ place'[t] = "running" /\ timer[t].at # "firing"
      BY <1>1, <2>3, ZenonT(60) DEF Resume
    <3>2. CASE timer[t].at \in {"set", "expired"}
      <4>1. timer'[t].at \notin Live /\ timer[t].at \in Live /\ DecrementRef(t)
        BY <2>2, <2>3, <3>2, SMTT(60) DEF Resume, Live
      <4>2. CountsExact' /\ \A u \in delete_list' \cup deleted : ref_count_'[u] = 0
        BY <1>1, <2>1, <3>1, <4>1, CountKept, ZenonT(60)
      <4>3. QED
        BY <1>2, <1>3, <2>1, <4>2, SMTT(60)
    <3>3. CASE timer[t].at \notin {"set", "expired"}
      <4>1. UNCHANGED <<timer, refvars>> /\ timer[t].at \notin Live
        BY <2>3, <3>1, <3>3, ZenonT(60) DEF Resume, Live
      <4>2. CountsExact' /\ \A u \in delete_list' \cup deleted : ref_count_'[u] = 0
        BY <1>1, <2>1, <3>1, <4>1, CountKept, ZenonT(60)
      <4>3. QED
        BY <1>2, <1>3, <2>1, <4>2, ZenonT(60)
    <3>4. QED
      BY <3>2, <3>3, SMTT(60)
  <2>4. CASE Expire(t)
    <3>1. /\ timer'[t].at \in Live /\ timer[t].at \in Live /\ place' = place /\ UNCHANGED refvars
      BY <2>2, <2>4, ZenonT(60) DEF Expire, Live
    <3>2. CountsExact' /\ \A u \in delete_list' \cup deleted : ref_count_'[u] = 0
      BY <1>1, <2>1, <3>1, CountKept, SMTT(60)
    <3>3. QED
      BY <1>2, <1>3, <2>1, <3>2, Zenon
  <2>5. CASE Finish(t)
    <3>1. /\ place[t] = "running" /\ place'[t] = "done" /\ timer' = timer /\ DecrementRef(t)
      BY <1>1, <2>5, SMTT(60) DEF Finish
    <3>2. CountsExact' /\ \A u \in delete_list' \cup deleted : ref_count_'[u] = 0
      BY <1>1, <2>1, <3>1, CountKept, ZenonT(60)
    <3>3. QED
      BY <1>2, <1>3, <2>1, <3>2, Zenon
  <2>6. QED
    BY <1>5, <2>3, <2>4, <2>5, SMTT(60)
<1>6. ASSUME UNCHANGED <<epoll, wait_tasks_, waitvars, evvars, timer, refvars, deleted, sw, wl>>,
             \/ place[t] = "running" /\ place' = [place EXCEPT ![t] = "asleep"]
             \/ place[t] = "asleep" /\ place' = [place EXCEPT ![t] = "running"]
      PROVE  RefInv'
  <2>1. \A u \in Task : place'[u] = "done" <=> place[u] = "done"
    BY <1>1, <1>6, ZenonT(60)
  <2>2. CountsExact' /\ \A u \in delete_list' \cup deleted : ref_count_'[u] = 0
    BY <1>1, <1>6, <2>1, CountKept, SMTT(60)
  <2>3. QED
    BY <1>2, <1>3, <1>6, <2>2, SMTT(60) DEF waitvars
<1>7. QED
  BY <1>4, <1>5, <1>6, ZenonT(60)

\* The steps of SchedulerSwitch.
LEMMA SwitchRefInv ==
  ASSUME Unshared, WokenInv, EpollInv, RefInv, IoTypeOK', NEW t \in Task, SchedulerSwitch(t)
  PROVE  RefInv'
<1>1. /\ IoTypeOK /\ WokenOnce
      /\ StaysRegistered /\ CountsExact /\ Unreferenced /\ TimerShape /\ RegisteredShape
      /\ place \in [Task -> {"running", "blocked", "runnable", "done", "asleep"}]
      /\ timer \in [Task -> TimerState]
      /\ sw \in [Task -> SwitchState] /\ wait_tasks_ \subseteq Task
      /\ epoll \in [Fd -> WaitId \cup {NULL}] /\ io_block_id_ \in [Task -> Nat]
      /\ ref_count_ \in [Task -> Int] /\ delete_list \subseteq Task /\ deleted \subseteq Task
      /\ wl.at = "clear" => wl.cur.tk \in Task
  BY ZenonT(60) DEF WokenInv, IoTypeOK, WaitId, RefInv, EpollInv
<1>2. /\ UNCHANGED <<wait_fds_, wl, deleted>> /\ Known' = Known
      /\ \A u \in Task \ {t} : /\ sw'[u] = sw[u] /\ timer'[u] = timer[u] /\ place'[u] = place[u]
                               /\ u \in wait_tasks_' <=> u \in wait_tasks_
      /\ place'[t] = place[t] \/ place'[t] = "runnable"
  BY <1>1, SwitchFields, ZenonT(60) DEF SchedulerSwitch, SwitchLock, SwitchAdd, SwitchAddFails,
     SwitchExists, SwitchRollback, SwitchFailed, SwitchDone, waitvars, Known, Notified
<1>3. /\ sw[t].at # "none" /\ SwitchOK(t) /\ timer[t].at = "none" /\ timer[t].at \notin Live
      /\ place[t] # "done" /\ place'[t] # "done"
      /\ sw[t].rest \in Seq(Fd) /\ sw[t].added \in Seq(Fd)
  <2>1. sw[t].at # "none"
    BY SwitchFields, <1>1, SMTT(60) DEF SchedulerSwitch
  <2>2. SwitchOK(t)
    BY <2>1, ZenonT(60) DEF EpollInv, SwitchShape
  <2>3. QED
    BY <1>1, <1>2, <2>1, <2>2, ZenonT(60) DEF TimerShape, SwitchState, SwitchOK, Live
<1>4. t \notin delete_list \cup deleted
  BY <1>1, <1>3, Referenced, ZenonT(60)
<1>5. ASSUME \A u \in Task, g \in Fd : Has(u, g) => Has(u, g)',
             t \in wait_tasks_' =>
               /\ sw'[t].at = "add" => \A g \in Fd : In(sw'[t].added, g) => Has(t, g)'
               /\ sw'[t].at = "none" => \E g \in Fd : Has(t, g)',
             CountsExact', \A u \in delete_list' \cup deleted : ref_count_'[u] = 0
      PROVE  RefInv'
  <2>1. StaysRegistered'
    <3>1. ASSUME NEW u \in wait_tasks_', u # t
          PROVE  /\ sw'[u].at = "add" => \A g \in Fd : In(sw'[u].added, g) => Has(u, g)'
                 /\ sw'[u].at = "none" => \E g \in Fd : Has(u, g)'
      <4>1. u \in Task /\ u \in wait_tasks_ /\ sw'[u] = sw[u]
        BY <1>2, <3>1, ZenonT(60) DEF IoTypeOK
      <4>2. QED
        BY <1>1, <1>5, <4>1, ZenonT(60) DEF StaysRegistered
    <3>2. QED
      BY <1>1, <1>2, <1>5, <3>1, ZenonT(60) DEF StaysRegistered
  <2>2. QED
    BY <1>1, <1>2, <1>5, <2>1, SMTT(60) DEF RefInv, Unreferenced
<1>6. ASSUME UNCHANGED <<epoll, timer, refvars>>
      PROVE  /\ CountsExact' /\ \A u \in delete_list' \cup deleted : ref_count_'[u] = 0
             /\ \A u, g : Has(u, g) <=> Has(u, g)'
  <2>1. \A u \in Task : place'[u] = "done" <=> place[u] = "done"
    BY <1>2, <1>3, ZenonT(60)
  <2>2. QED
    BY <1>1, <1>6, <2>1, CountKept, SMTT(60) DEF Has
<1>7. CASE SwitchLock(t)
  <2>1. /\ sw[t].at = "lock" /\ sw'[t].at = "add" /\ sw'[t].added = sw[t].added
        /\ UNCHANGED <<epoll, timer, refvars>>
    BY <1>1, <1>7, SwitchFields, ZenonT(60) DEF SwitchLock
  <2>2. sw[t].added = <<>>
    BY <1>3, <2>1, ZenonT(60) DEF SwitchOK
  <2>3. QED
    BY <1>5, <1>6, <2>1, <2>2, InEmpty, ZenonT(60)
<1>8. CASE SwitchAdd(t)
  <2>1. PICK f : f = Head(sw[t].rest)
    BY ZenonT(60)
  <2>2. /\ sw[t].at = "add" /\ sw'[t].at = "add" /\ sw[t].rest # <<>>
        /\ sw'[t].added = Append(sw[t].added, f)
        /\ epoll[f] = NULL
        /\ epoll' = [epoll EXCEPT ![f] = Wait(t, io_block_id_[t])]
        /\ ref_count_' = [ref_count_ EXCEPT ![t] = @ + 1]
        /\ UNCHANGED <<delete_list, wait_tasks_, timer, place>>
    BY <1>1, <1>8, <2>1, SwitchFields, ZenonT(60) DEF SwitchAdd
  <2>3. f \in Fd
    BY <1>3, <2>1, <2>2, InTail, ZenonT(60)
  <2>4. \A g : In(sw'[t].added, g) <=> In(sw[t].added, g) \/ g = f
    BY <1>3, <2>2, <2>3, InAppend, SMTT(60)
  <2>5. PICK x \in WaitId : x = Wait(t, io_block_id_[t]) /\ x.tk = t /\ x # NULL
    <3>1. Wait(t, io_block_id_[t]) \in WaitId /\ Wait(t, io_block_id_[t]).tk = t
      BY <1>1, SMTT(60) DEF Wait, WaitId
    <3>2. NULL \notin WaitId
      BY IoWaitAssumption, ZenonT(60) DEF WaitId
    <3>3. QED
      BY <3>1, <3>2, SMTT(60)
  <2>6. /\ \A u \in Task, g \in Fd : Has(u, g) => Has(u, g)'
        /\ Has(t, f)'
    BY <1>1, <2>2, <2>3, <2>5, ZenonT(60) DEF Has
  <2>7. ASSUME NEW u \in Task
        PROVE  ref_count_'[u] = (IF place[u] = "done" THEN 0 ELSE 1) + Cardinality(Registered(u)')
                                  + (IF timer[u].at \in Live THEN 1 ELSE 0)
    <3> DEFINE n == Cardinality(Registered(u))
    <3>1. n \in Nat /\ Cardinality(Registered(u)') = IF u = t THEN n + 1 ELSE n
      <4>1. CASE u = t
        BY <1>1, <2>2, <2>3, <2>5, <4>1, RegisteredFinite, RegisteredChanges, ZenonT(60)
      <4>2. CASE u # t
        BY <1>1, <2>2, <2>3, <2>5, <4>2, RegisteredFinite, RegisteredChanges, ZenonT(60)
      <4>3. QED
        BY <4>1, <4>2, SMTT(60)
    <3>2. ref_count_[u] = (IF place[u] = "done" THEN 0 ELSE 1) + n
                            + (IF timer[u].at \in Live THEN 1 ELSE 0)
      BY <1>1, ZenonT(60) DEF CountsExact, RefCountExact, Live
    <3> HIDE DEF n
    <3>3. ref_count_'[u] = ref_count_[u] + (IF u = t THEN 1 ELSE 0)
      BY <1>1, <2>2, SMTT(60)
    <3>4. QED
      BY <1>1, <3>1, <3>2, <3>3, SMTT(60)
  <2>8. CountsExact'
    BY <2>2, <2>7, ZenonT(60) DEF CountsExact, RefCountExact, Live
  <2>9. \A u \in delete_list' \cup deleted : ref_count_'[u] = 0
    BY <1>1, <1>4, <2>2, ZenonT(60) DEF Unreferenced
  <2>10. t \in wait_tasks_' => \A g \in Fd : In(sw'[t].added, g) => Has(t, g)'
    BY <1>1, <2>2, <2>4, <2>6, SMTT(60) DEF StaysRegistered
  <2>11. QED
    BY <1>5, <2>2, <2>6, <2>8, <2>9, <2>10, SMTT(60)
<1>9. CASE SwitchAddFails(t) \/ SwitchExists(t) \/ SwitchFailed(t)
  <2>1. /\ UNCHANGED <<epoll, timer, refvars>> /\ wait_tasks_' \subseteq wait_tasks_
        /\ sw'[t].at = "none" => t \notin wait_tasks_'
        /\ sw'[t].at = "add" => sw[t].at = "add" /\ sw'[t].added = sw[t].added
    BY <1>1, <1>9, SwitchFields, ZenonT(60) DEF SwitchAddFails, SwitchExists, SwitchFailed
  <2>2. t \in wait_tasks_' /\ sw'[t].at = "add" =>
          \A g \in Fd : In(sw'[t].added, g) => Has(t, g)
    BY <1>1, <2>1, ZenonT(60) DEF StaysRegistered
  <2>3. QED
    BY <1>5, <1>6, <2>1, <2>2, ZenonT(60)
<1>10. CASE SwitchRollback(t)
  BY <1>1, <1>3, <1>10, SwitchFields, ZenonT(60) DEF SwitchRollback, SwitchOK
<1>11. CASE SwitchDone(t)
  <2>1. /\ sw[t].at = "add" /\ sw[t].added # <<>> /\ sw'[t].at = "none"
        /\ UNCHANGED <<epoll, wait_tasks_, delete_list, place>>
        /\ IF timed[t]
             THEN /\ timer' = [timer EXCEPT ![t] = [id |-> io_block_id_[t], at |-> "set"]]
                  /\ ref_count_' = [ref_count_ EXCEPT ![t] = @ + 1]
             ELSE UNCHANGED <<timer, ref_count_>>
    BY <1>1, <1>11, SwitchFields, ZenonT(60) DEF SwitchDone
  <2>2. t \in wait_tasks_' => \E g \in Fd : Has(t, g)'
    <3>1. Head(sw[t].added) \in Fd /\ In(sw[t].added, Head(sw[t].added))
      BY <1>3, <2>1, InTail, ZenonT(60)
    <3>2. QED
      BY <1>1, <2>1, <3>1, ZenonT(60) DEF StaysRegistered, Has
  <2>3. ASSUME NEW u \in Task
        PROVE  ref_count_'[u] = (IF place[u] = "done" THEN 0 ELSE 1) + Cardinality(Registered(u))
                                  + (IF timer'[u].at \in Live THEN 1 ELSE 0)
    <3> DEFINE n == Cardinality(Registered(u))
    <3>1. n \in Nat
      BY RegisteredFinite, ZenonT(60)
    <3>2. ref_count_[u] = (IF place[u] = "done" THEN 0 ELSE 1) + n
                            + (IF timer[u].at \in Live THEN 1 ELSE 0)
      BY <1>1, ZenonT(60) DEF CountsExact, RefCountExact, Live
    <3> HIDE DEF n
    <3>3. /\ timed[t] => timer'[t].at \in Live /\ ref_count_'[t] = ref_count_[t] + 1
          /\ ~timed[t] => timer'[t].at \notin Live /\ ref_count_'[t] = ref_count_[t]
          /\ u # t => timer'[u] = timer[u] /\ ref_count_'[u] = ref_count_[u]
      BY <1>1, <1>2, <1>3, <2>1, SMTT(60) DEF Live
    <3>4. CASE u = t
      BY <1>1, <1>3, <3>1, <3>2, <3>3, <3>4, SMTT(60) DEF n
    <3>5. CASE u # t
      BY <3>2, <3>3, <3>5, ZenonT(60) DEF n
    <3>6. QED
      BY <3>4, <3>5, ZenonT(60)
  <2>4. CountsExact'
    BY <2>1, <2>3, ZenonT(60) DEF CountsExact, RefCountExact, Registered, Live
  <2>5. \A u \in delete_list' \cup deleted : ref_count_'[u] = 0
    BY <1>1, <1>4, <2>1, ZenonT(60) DEF Unreferenced
  <2>6. \A u \in Task, g \in Fd : Has(u, g) => Has(u, g)'
    BY <2>1, ZenonT(60) DEF Has
  <2>7. QED
    BY <1>5, <2>1, <2>2, <2>4, <2>5, <2>6, ZenonT(60)
<1>12. QED
  BY <1>7, <1>8, <1>9, <1>10, <1>11, SMTT(60) DEF SchedulerSwitch

\* Cancel takes the descriptors of its coroutine out of the epolls.
LEMMA ClearsItsOwn ==
  ASSUME Unshared, WokenInv, EpollInv, StaysRegistered, CancelClear
  PROVE  /\ wl.cur.tk \in Task /\ Head(wl.left) \in Fd
         /\ epoll[Head(wl.left)] # NULL => epoll[Head(wl.left)].tk = wl.cur.tk
<1>1. /\ IoTypeOK /\ wl.at = "clear" /\ wl.left # <<>> /\ RegisteredShape
      /\ wl.left \in Seq(Fd)
  BY ZenonT(60) DEF WokenInv, IoTypeOK, EpollInv, CancelClear, LoopState
<1>2. PICK t \in Task, f \in Fd : t = wl.cur.tk /\ f = Head(wl.left) /\ In(wl.left, f)
  BY <1>1, InTail, ZenonT(60) DEF IoTypeOK, WaitId
<1>3. In(wait_fds_[t], f) /\ (Len(wait_fds_[t]) <= 1 => Has(t, f))
  BY <1>1, <1>2, ZenonT(60) DEF StaysRegistered
<1>4. Len(wait_fds_[t]) \in Nat
  BY <1>1 DEF IoTypeOK
<1>5. Len(wait_fds_[t]) > 1 \/ Has(t, f)
  BY <1>3, <1>4, SMTT(60)
<1>6. QED
  BY <1>1, <1>2, <1>3, <1>5, DeletesItsOwn, ZenonT(60)

\* The steps of WaitLoop.
LEMMA LoopRefInv ==
  ASSUME Unshared, WokenInv, EpollInv, RefInv, IoTypeOK', WaitLoop
  PROVE  RefInv'
<1>1. /\ IoTypeOK /\ WokenOnce
      /\ StaysRegistered /\ CountsExact /\ Unreferenced
      /\ LoopShape /\ KnownBegun /\ TimerShape /\ RegisteredShape
      /\ wl \in LoopState /\ timer \in [Task -> TimerState]
      /\ place \in [Task -> {"running", "blocked", "runnable", "done", "asleep"}]
      /\ sw \in [Task -> SwitchState] /\ wait_tasks_ \subseteq Task
      /\ wait_fds_ \in [Task -> Seq(Fd)] /\ epoll \in [Fd -> WaitId \cup {NULL}]
      /\ deleted \subseteq Task /\ delete_list \subseteq Task
      /\ wl.at \in {"erase", "clear", "fired"} => wl.cur.tk \in Task
  BY ZenonT(60) DEF WokenInv, IoTypeOK, WaitId, RefInv, EpollInv
<1>2. UNCHANGED <<wait_fds_, sw>>
  BY ZenonT(60) DEF WaitLoop, LoopFetch, LoopEvent, LoopCancel, LoopSwap, LoopSkipTimeout,
     LoopTimeout, CancelErase, CancelClear, CancelWake, TimeoutDone, LoopDelete, waitvars
\* Nothing is cleared after the step, and nobody enters wait_tasks_.
<1>3. ASSUME wl'.at # "clear", epoll' = epoll, wait_tasks_' = wait_tasks_
      PROVE  StaysRegistered'
  BY <1>1, <1>2, <1>3, ZenonT(60) DEF StaysRegistered, Has
<1>4. ASSUME Known' \subseteq Known, deleted' = deleted
      PROVE  \A s \in Known' : s.tk \notin deleted'
  BY <1>1, <1>4, ZenonT(60) DEF Unreferenced
<1>5. ASSUME UNCHANGED <<epoll, place, timer, refvars>>
      PROVE  CountsExact' /\ \A u \in delete_list' \cup deleted : ref_count_'[u] = 0
  BY <1>1, <1>5, ZenonT(60) DEF CountsExact, RefCountExact, Registered, Unreferenced, refvars
<1>6. CASE LoopSwap \/ LoopSkipTimeout
  <2>1. /\ UNCHANGED <<epoll, wait_tasks_, place, timer, refvars, deleted>>
        /\ wl'.at \notin {"erase", "clear"}
        /\ wl'.evs \subseteq wl.evs /\ wl'.tasks \subseteq wl.tasks
    BY <1>1, <1>6, LoopFields, SMTT(60) DEF LoopSwap, LoopSkipTimeout
  <2>2. Known' \subseteq Known
    BY <2>1, ZenonT(60) DEF Known, Notified
  <2>3. QED
    BY <1>3, <1>4, <1>5, <2>1, <2>2, ZenonT(60) DEF RefInv, Unreferenced
<1>7. CASE LoopDelete
  <2>1. /\ UNCHANGED <<epoll, wait_tasks_, place, timer, ref_count_>>
        /\ deleted' = deleted \cup delete_list /\ delete_list' = {}
        /\ wl'.at = "none" /\ wl'.tasks = {} /\ wl'.evs = {}
    BY <1>1, <1>7, LoopFields, SMTT(60) DEF LoopDelete
  <2>2. Known' = {}
    BY <2>1, ZenonT(60) DEF Known, Notified
  <2>3. CountsExact'
    BY <1>1, <2>1, ZenonT(60) DEF CountsExact, RefCountExact, Registered
  <2>4. Unreferenced'
    BY <1>1, <2>1, <2>2, ZenonT(60) DEF Unreferenced
  <2>5. QED
    BY <1>3, <2>1, <2>3, <2>4, ZenonT(60) DEF RefInv
<1>8. CASE LoopFetch
  <2>1. PICK ready \in SUBSET {f \in Fd : epoll[f] # NULL} :
          /\ wl'.at = "events" /\ wl'.tasks = wl.tasks
          /\ wl'.evs = {[st |-> epoll[f], fd |-> f] : f \in ready}
    BY <1>1, <1>8, LoopFields, ZenonT(60)
  <2>2. UNCHANGED <<epoll, wait_tasks_, place, timer, refvars, deleted>>
    BY <1>8, ZenonT(60) DEF LoopFetch
  <2>3. ASSUME NEW f \in ready PROVE epoll[f].tk \notin deleted
    <3>1. PICK t \in Task : t = epoll[f].tk /\ f \in Registered(t)
      BY <1>1, ZenonT(60) DEF Registered, WaitId
    <3>2. QED
      BY <1>1, <3>1, Referenced, SMTT(60)
  <2>4. Known' \subseteq Known \cup {epoll[f] : f \in ready}
    BY <2>1, SMTT(60) DEF Known, Notified
  <2>5. Unreferenced'
    BY <1>1, <1>5, <2>2, <2>3, <2>4, SMTT(60) DEF Unreferenced
  <2>6. QED
    BY <1>3, <1>5, <2>1, <2>2, <2>5, ZenonT(60) DEF RefInv
<1>9. CASE LoopEvent
  <2>1. PICK e \in wl.evs : /\ wl.at = "events" /\ wl'.at = "events"
                            /\ wl'.evs = wl.evs \ {e} /\ wl'.tasks \subseteq wl.tasks \cup {e.st}
    BY <1>1, <1>9, LoopFields, SMTT(60)
  <2>2. UNCHANGED <<epoll, wait_tasks_, place, timer, refvars, deleted>>
    BY <1>9, ZenonT(60) DEF LoopEvent
  <2>3. Known' \subseteq Known
    BY <2>1, ZenonT(60) DEF Known, Notified
  <2>4. QED
    BY <1>3, <1>4, <1>5, <2>1, <2>2, <2>3, ZenonT(60) DEF RefInv, Unreferenced
\* Cancel takes a coroutine from wait_tasks_: if it waits for one descriptor,
\* this one is registered.
<1>10. ASSUME NEW t \in wait_tasks_, Begun(t), wait_tasks_' = wait_tasks_ \ {t},
              wl'.at = "clear", wl'.cur.tk = t, wl'.left = wait_fds_[t], epoll' = epoll
       PROVE  StaysRegistered'
  <2>1. t \in Task
    BY <1>1, Zenon
  <2>2. Len(wait_fds_[t]) \in Nat /\ wait_fds_[t] \in Seq(Fd) /\ sw[t].added \in Seq(Fd)
    BY <1>1, <2>1, SMTT(60) DEF SwitchState
  <2>3. ASSUME NEW f \in Fd, In(wait_fds_[t], f), Len(wait_fds_[t]) <= 1
        PROVE  Has(t, f)
    <3>1. sw[t].at \in {"add", "none"} /\ (sw[t].at = "add" => sw[t].added # <<>>)
      BY <1>1, <1>10, <2>1, ZenonT(60) DEF Begun, SwitchState
    <3>2. PICK g \in Fd : Has(t, g)
      <4>1. CASE sw[t].at = "none"
        BY <1>1, <4>1, ZenonT(60) DEF StaysRegistered
      <4>2. CASE sw[t].at = "add"
        <5>1. Head(sw[t].added) \in Fd /\ In(sw[t].added, Head(sw[t].added))
          BY <2>2, <3>1, <4>2, InTail, ZenonT(60)
        <5>2. QED
          BY <1>1, <4>2, <5>1, ZenonT(60) DEF StaysRegistered
      <4>3. QED
        BY <3>1, <4>1, <4>2, ZenonT(60)
    <3>3. In(wait_fds_[t], g)
      BY <1>1, <3>2, ZenonT(60) DEF RegisteredShape, RegisteredOK, Has
    <3>4. QED
      BY <2>2, <2>3, <3>2, <3>3, InSingle, SMTT(60)
  <2>4. /\ Len(wl'.left) <= Len(wait_fds_'[wl'.cur.tk])
        /\ \A f \in Fd : In(wl'.left, f) =>
             /\ In(wait_fds_'[wl'.cur.tk], f)
             /\ Len(wait_fds_'[wl'.cur.tk]) <= 1 => Has(t, f)'
    BY <1>2, <1>10, <2>2, <2>3, SMTT(60) DEF Has
  <2>5. \A u, f : Has(u, f)' <=> Has(u, f)
    BY <1>10, ZenonT(60) DEF Has
  <2>6. \A u \in wait_tasks_' :
          /\ sw'[u].at = "add" => \A f \in Fd : In(sw'[u].added, f) => Has(u, f)'
          /\ sw'[u].at = "none" => \E f \in Fd : Has(u, f)'
    BY <1>1, <1>2, <1>10, <2>5, ZenonT(60) DEF StaysRegistered
  <2>7. QED
    BY <1>10, <2>4, <2>6, SMTT(60) DEF StaysRegistered
<1>11. CASE LoopCancel
  <2>1. PICK s \in wl.tasks :
          /\ wl.evs = {} /\ wl'.evs = {}
          /\ \/ wl'.at = "events" /\ wl'.tasks = wl.tasks \ {s}
             \/ wl'.at = "erase" /\ wl'.tasks = wl.tasks /\ wl'.cur = s
    BY <1>1, <1>11, CancelFields, ZenonT(60)
  <2>2. UNCHANGED <<epoll, wait_tasks_, place, timer, refvars, deleted>>
    BY <1>11, ZenonT(60) DEF LoopCancel
  <2>3. wl'.at # "clear" /\ Known' \subseteq Known
    BY <2>1, ZenonT(60) DEF Known, Notified
  <2>4. QED
    BY <1>3, <1>4, <1>5, <2>2, <2>3, ZenonT(60) DEF RefInv, Unreferenced
<1>12. ASSUME NEW t \in Task, NEW a \in {"fired", "firing"}, timer' = [timer EXCEPT ![t].at = a]
       PROVE  timer'[t].at = a /\ \A u \in Task \ {t} : timer'[u] = timer[u]
  <2>1. timer[t] \in TimerState /\ timer'[t] = [timer[t] EXCEPT !.at = a]
    BY <1>1, <1>12, ZenonT(60)
  <2>2. QED
    BY <1>1, <1>12, <2>1, SMTT(60) DEF TimerState
<1>13. CASE LoopTimeout
  <2>1. PICK s \in wl.timeouts :
          /\ ~Inactive(s) /\ wl'.evs = wl.evs /\ wl'.tasks = wl.tasks
          /\ wl'.at \in {"fired", "erase"} /\ wl'.cur = s
          /\ timer' = [timer EXCEPT ![s.tk].at = "firing"]
    BY <1>1, <1>13, CancelFields, ZenonT(60)
  <2>2. UNCHANGED <<epoll, wait_tasks_, place, refvars, deleted>>
    BY <1>13, ZenonT(60) DEF LoopTimeout
  <2>3. s.tk \in Task
    BY <1>1, ZenonT(60) DEF LoopState, WaitId
  <2>4. timer[s.tk].at \in Live
    BY <2>1, SMTT(60) DEF Inactive, Live
  <2>5. s.tk \notin deleted
    BY <1>1, <2>3, <2>4, Referenced, SMTT(60)
  <2>6. timer'[s.tk].at \in Live /\ \A u \in Task \ {s.tk} : timer'[u] = timer[u]
    BY <1>12, <2>1, <2>3, ZenonT(60) DEF Live
  <2>7. CountsExact' /\ \A u \in delete_list' \cup deleted : ref_count_'[u] = 0
    <3>1. \A u \in Task \ {s.tk} : /\ place'[u] = "done" <=> place[u] = "done"
                                   /\ timer'[u].at \in Live <=> timer[u].at \in Live
      BY <2>2, <2>6, ZenonT(60)
    <3>2. /\ place'[s.tk] = "done" <=> place[s.tk] = "done"
          /\ timer'[s.tk].at \in Live <=> timer[s.tk].at \in Live
          /\ UNCHANGED refvars /\ epoll' = epoll
      BY <2>2, <2>4, <2>6, ZenonT(60)
    <3>3. QED
      BY <1>1, <2>3, <3>1, <3>2, CountKept, ZenonT(60)
  <2>8. Known' \subseteq Known \cup {s}
    BY <2>1, ZenonT(60) DEF Known, Notified
  <2>9. Unreferenced'
    BY <1>1, <2>2, <2>5, <2>7, <2>8, ZenonT(60) DEF Unreferenced
  <2>10. wl'.at # "clear"
    BY <2>1, Zenon
  <2>11. QED
    BY <1>3, <2>2, <2>7, <2>9, <2>10, ZenonT(60) DEF RefInv
<1>14. CASE CancelErase
  <2>1. PICK t \in Task : t = wl.cur.tk
    BY <1>1, <1>14, Zenon DEF CancelErase
  <2>2. /\ wl.at = "erase" /\ wl'.evs = wl.evs
        /\ \/ /\ t \in wait_tasks_ /\ wl'.at = "clear" /\ wl'.tasks = wl.tasks
              /\ wl'.cur = wl.cur /\ wl'.left = wait_fds_[t]
           \/ t \notin wait_tasks_ /\ Returned
    BY <1>1, <1>14, <2>1, CancelFields, ZenonT(60)
  <2>3. /\ UNCHANGED <<epoll, place, timer, refvars, deleted>>
        /\ wait_tasks_' = wait_tasks_ \ {t}
    BY <1>14, <2>1, ZenonT(60) DEF CancelErase
  <2>4. wl.cur \in Known /\ Known' \subseteq Known
    BY <2>2, ZenonT(60) DEF Known, Notified, Returned
  <2>5. StaysRegistered'
    <3>1. CASE t \in wait_tasks_
      <4>1. Begun(t)
        BY <1>1, <2>1, <2>4, ZenonT(60) DEF KnownBegun
      <4>2. wl'.at = "clear" /\ wl'.cur.tk = t /\ wl'.left = wait_fds_[t]
        BY <2>1, <2>2, <3>1, ZenonT(60)
      <4>3. QED
        BY <1>10, <2>3, <3>1, <4>1, <4>2, ZenonT(60)
    <3>2. CASE t \notin wait_tasks_
      <4>1. wait_tasks_' = wait_tasks_ /\ wl'.at # "clear"
        BY <2>2, <2>3, <3>2, ZenonT(60) DEF Returned
      <4>2. QED
        BY <1>3, <2>3, <4>1, ZenonT(60)
    <3>3. QED
      BY <3>1, <3>2, Zenon
  <2>6. QED
    BY <1>4, <1>5, <2>3, <2>4, <2>5, ZenonT(60) DEF RefInv, Unreferenced
<1>15. CASE CancelClear
  <2>1. PICK t \in Task, f \in Fd : t = wl.cur.tk /\ f = Head(wl.left)
    BY <1>1, <1>15, InTail, SMTT(60) DEF CancelClear, LoopState
  <2>2. /\ wl.at = "clear" /\ wl'.at = "clear" /\ wl'.evs = wl.evs
        /\ wl'.tasks = wl.tasks /\ wl'.cur = wl.cur
        /\ wl.left # <<>> /\ wl'.left = Tail(wl.left)
    BY <1>1, <1>15, CancelFields, ZenonT(60)
  <2>3. wl.left \in Seq(Fd) /\ wait_fds_[t] \in Seq(Fd)
    BY <1>1, SMTT(60) DEF LoopState
  <2>4. /\ In(wl.left, f) /\ Len(wl'.left) = Len(wl.left) - 1
        /\ \A g : In(wl'.left, g) => In(wl.left, g)
    BY <2>1, <2>2, <2>3, InTail, ZenonT(60)
  <2>5. /\ Len(wl.left) \in Nat /\ Len(wait_fds_[t]) \in Nat
        /\ Len(wl.left) <= Len(wait_fds_[t])
    BY <1>1, <2>1, <2>2, <2>3, SMTT(60) DEF StaysRegistered
  <2>6. DeleteFd(t, f) /\ UNCHANGED <<wait_tasks_, timer, place, deleted>>
    BY <1>15, <2>1, SMTT(60) DEF CancelClear
  <2>7. epoll[f] # NULL => epoll[f].tk = t
    BY <1>15, <2>1, ClearsItsOwn, ZenonT(60) DEF RefInv
  <2>8. /\ CountsExact' /\ \A u \in delete_list' \cup deleted : ref_count_'[u] = 0
        /\ \A u \in Task, g \in Fd : Has(u, g) /\ (u # t \/ g # f) => Has(u, g)'
    BY <1>1, <2>6, <2>7, DeleteKept, ZenonT(60)
  <2>9. t \notin wait_tasks_
    BY <1>1, <2>1, <2>2, ZenonT(60) DEF WokenOnce
  <2>10. \A u \in wait_tasks_' :
          /\ sw'[u].at = "add" => \A g \in Fd : In(sw'[u].added, g) => Has(u, g)'
          /\ sw'[u].at = "none" => \E g \in Fd : Has(u, g)'
    BY <1>1, <1>2, <2>6, <2>8, <2>9, ZenonT(60) DEF StaysRegistered
  <2>11. /\ Len(wl'.left) <= Len(wait_fds_[t])
         /\ Len(wait_fds_[t]) <= 1 => \A g : ~In(wl'.left, g)
    <3>1. PICK n : n = Len(wl'.left)
      BY ZenonT(60)
    <3>2. n <= Len(wait_fds_[t]) /\ (Len(wait_fds_[t]) <= 1 => n <= 0)
      BY <2>4, <2>5, <3>1, SMTT(60)
    <3>3. n <= 0 => \A g : ~In(wl'.left, g)
      BY <2>4, <2>5, <3>1, SMTT(60) DEF In
    <3>4. QED
      BY <3>1, <3>2, <3>3, SMTT(60)
  <2>12. \A g \in Fd : In(wl'.left, g) =>
             In(wait_fds_[t], g) /\ (Len(wait_fds_[t]) <= 1 => Has(t, g)')
    BY <1>1, <2>1, <2>2, <2>4, <2>11, ZenonT(60) DEF StaysRegistered
  <2>13. StaysRegistered'
    BY <1>2, <2>1, <2>2, <2>10, <2>11, <2>12, SMTT(60) DEF StaysRegistered
  <2>14. Known' = Known
    BY <2>2, SMTT(60) DEF Known, Notified
  <2>15. QED
    BY <1>4, <2>6, <2>8, <2>13, <2>14, SMTT(60) DEF RefInv, Unreferenced
<1>16. CASE CancelWake
  <2>1. PICK t \in Task : t = wl.cur.tk
    BY <1>1, <1>16, ZenonT(60) DEF CancelWake
  <2>2. /\ wl.at = "clear" /\ wl'.at # "clear" /\ wl'.evs = wl.evs
        /\ wl'.tasks \subseteq wl.tasks /\ wl'.at \notin {"erase", "clear"}
    BY <1>1, <1>16, CancelFields, ZenonT(60) DEF Returned
  <2>3. /\ UNCHANGED <<epoll, wait_tasks_, timer, refvars, deleted>>
        /\ place' = [place EXCEPT ![t] = "runnable"]
    BY <1>16, <2>1, SMTT(60) DEF CancelWake
  <2>4. place[t] = "blocked"
    BY <1>1, <2>1, <2>2, ZenonT(60) DEF WokenOnce
  <2>5. CountsExact' /\ \A u \in delete_list' \cup deleted : ref_count_'[u] = 0
    <3>1. \A u \in Task : place'[u] = "done" <=> place[u] = "done"
      BY <1>1, <2>3, <2>4, ZenonT(60)
    <3>2. QED
      BY <1>1, <2>3, <3>1, CountKept, SMTT(60)
  <2>6. Known' \subseteq Known
    BY <2>2, ZenonT(60) DEF Known, Notified
  <2>7. QED
    BY <1>3, <1>4, <2>2, <2>3, <2>5, <2>6, SMTT(60) DEF RefInv, Unreferenced
<1>17. CASE TimeoutDone
  <2>1. PICK t \in Task : t = wl.cur.tk
    BY <1>1, <1>17, ZenonT(60) DEF TimeoutDone
  <2>2. wl.at = "fired" /\ wl'.at = "timeouts" /\ wl'.evs = wl.evs /\ wl'.tasks = wl.tasks
    BY <1>1, <1>17, CancelFields, SMTT(60)
  <2>3. /\ UNCHANGED <<epoll, wait_tasks_, place, deleted>>
        /\ timer' = [timer EXCEPT ![t].at = "fired"] /\ DecrementRef(t)
    BY <1>17, <2>1, ZenonT(60) DEF TimeoutDone
  <2>4. /\ timer[t].at \in Live /\ timer'[t].at \notin Live
        /\ \A u \in Task \ {t} : timer'[u] = timer[u]
    BY <1>1, <1>12, <2>1, <2>2, <2>3, SMTT(60) DEF LoopShape, Live
  <2>5. CountsExact' /\ \A u \in delete_list' \cup deleted : ref_count_'[u] = 0
    BY <1>1, <2>3, <2>4, CountKept, ZenonT(60)
  <2>6. Known' = Known
    BY <2>2, ZenonT(60) DEF Known, Notified
  <2>7. QED
    BY <1>3, <1>4, <2>2, <2>3, <2>5, <2>6, SMTT(60) DEF RefInv, Unreferenced
<1>18. QED
  BY <1>6, <1>7, <1>8, <1>9, <1>11, <1>13, <1>14, <1>15, <1>16, <1>17, ZenonT(60) DEF WaitLoop

\* Every step of IoWait keeps the account of the references.
LEMMA StepRefInv == Unshared /\ Distinct /\ WokenInv /\ EpollInv /\ RefInv /\ IoStep => RefInv'
<1> SUFFICES ASSUME Unshared, Distinct, WokenInv, EpollInv, RefInv, IoStep PROVE RefInv'
  BY Zenon
<1>1. IoTypeOK'
  BY IoStepTypes, SMTT(60) DEF WokenInv
<1>2. CASE UNCHANGED iovars
  <2>1. UNCHANGED <<epoll, wait_tasks_, wait_fds_, timer, ref_count_, delete_list, deleted,
                    place, sw, wl>>
    BY <1>2, Zenon DEF iovars, waitvars, refvars
  <2>2. StaysRegistered'
    BY <2>1, ZenonT(60) DEF RefInv, StaysRegistered, Has
  <2>3. CountsExact' /\ Unreferenced'
    BY <2>1, Zenon DEF RefInv, CountsExact, RefCountExact, Registered, Unreferenced, Known, Notified
  <2>4. QED
    BY <2>2, <2>3, SMTT(60) DEF RefInv
<1>3. QED
  BY <1>1, <1>2, TaskRefInv, SwitchRefInv, LoopRefInv, SMTT(60) DEF IoStep

\* Where nothing strays, the history stays empty.
LEMMA NoneStray ==
  ASSUME NothingStrayed, NEW w, Stray({}, w) \/ UNCHANGED strayed
  PROVE  NothingStrayed'
<1>1. CASE Stray({}, w)
  <2>1. strayed' = [t \in Task |-> strayed[t]]
    BY <1>1, ZenonT(60) DEF Stray
  <2>2. \A t \in Task : strayed[t] = {}
    BY ZenonT(60) DEF NothingStrayed
  <2>3. QED
    BY <2>1, <2>2, SMTT(60) DEF NothingStrayed
<1>2. QED
  BY <1>1, Zenon DEF NothingStrayed

\* Nothing strays: an event and a Cancel are of the wait the coroutine is in, and
\* Cancel deletes what its coroutine registered.
LEMMA StepStrays ==
  Unshared /\ WokenInv /\ EpollInv /\ RefInv /\ NothingStrayed /\ IoStep => NothingStrayed'
<1> SUFFICES ASSUME Unshared, WokenInv, EpollInv, RefInv, NothingStrayed, IoStep
             PROVE  NothingStrayed'
  BY Zenon
<1>1. IoTypeOK /\ LoopShape /\ KnownBegun /\ SwitchShape /\ StaysRegistered
  BY ZenonT(60) DEF WokenInv, EpollInv, RefInv
<1>2. ASSUME NEW t \in Task, NEW fds, NEW b, CoSwitch(t, fds, b) PROVE NothingStrayed'
  <2>1. strayed' = [strayed EXCEPT ![t] = @ \ {"event"}]
    BY <1>2, Zenon DEF CoSwitch
  <2>2. QED
    BY <2>1, SMTT(60) DEF NothingStrayed
<1>3. ASSUME NEW t \in Task, SwitchRollback(t) PROVE NothingStrayed'
  <2>1. SwitchOK(t)
    BY <1>1, <1>3, ZenonT(60) DEF SwitchShape, SwitchRollback
  <2>2. QED
    BY <1>3, <2>1, ZenonT(60) DEF SwitchRollback, SwitchOK
<1>4. CASE LoopEvent
  <2>1. PICK e \in wl.evs :
          Stray(IF \A s \in wl.tasks \cup {e.st} : s.tk = e.st.tk => s.id = io_block_id_[e.st.tk]
                  THEN {} ELSE {e.st.tk}, "event")
    BY <1>4, ZenonT(60) DEF LoopEvent
  <2>2. \A s \in wl.tasks \cup {e.st} : s \in Known
    BY ZenonT(60) DEF Known, Notified
  <2>3. \A s \in wl.tasks \cup {e.st} : s.tk = e.st.tk => s.id = io_block_id_[e.st.tk]
    BY <1>1, <2>2, ZenonT(60) DEF KnownBegun
  <2>4. Stray({}, "event")
    BY <2>1, <2>3, ZenonT(60)
  <2>5. QED
    BY <2>4, NoneStray, ZenonT(60)
<1>5. CASE CancelErase
  <2>1. wl.at = "erase" /\ wl.cur \in Known
    BY <1>5, ZenonT(60) DEF CancelErase, Known
  <2>2. ~CancelMisses(wl.cur)
    BY <1>1, <2>1, ZenonT(60) DEF KnownBegun, CancelMisses
  <2>3. Stray({}, "cancel") \/ UNCHANGED strayed
    BY <1>5, <2>2, ZenonT(60) DEF CancelErase
  <2>4. QED
    BY <2>3, NoneStray, ZenonT(60)
<1>6. CASE CancelClear
  <2>1. /\ DeleteFd(wl.cur.tk, Head(wl.left))
        /\ epoll[Head(wl.left)] # NULL => epoll[Head(wl.left)].tk = wl.cur.tk
    BY <1>1, <1>6, ClearsItsOwn, ZenonT(60) DEF CancelClear
  <2>2. Stray({}, "delete") \/ UNCHANGED strayed
    BY <2>1, ZenonT(60) DEF DeleteFd
  <2>3. QED
    BY <2>2, NoneStray, ZenonT(60)
<1>7. ASSUME UNCHANGED evvars PROVE NothingStrayed'
  BY <1>7, ZenonT(60) DEF NothingStrayed, evvars
<1>8. ASSUME NEW t \in Task, SchedulerSwitch(t) PROVE NothingStrayed'
  BY <1>3, <1>7, <1>8, ZenonT(60) DEF SchedulerSwitch, SwitchLock, SwitchAdd, SwitchAddFails,
     SwitchExists, SwitchFailed, SwitchDone
<1>9. CASE WaitLoop
  BY <1>4, <1>5, <1>6, <1>7, <1>9, ZenonT(60) DEF WaitLoop, LoopFetch, LoopCancel, LoopSwap,
     LoopSkipTimeout, LoopTimeout, CancelWake, TimeoutDone, LoopDelete
<1>10. CASE UNCHANGED iovars
  BY <1>7, <1>10, ZenonT(60) DEF iovars
<1>11. QED
  BY <1>2, <1>7, <1>8, <1>9, <1>10, ZenonT(60) DEF IoStep, Resume, Finish, Expire

\* The references start balanced: no task is waiting.
LEMMA InitRefInv == HookInit => RefInv /\ NothingStrayed
<1> SUFFICES ASSUME HookInit PROVE RefInv /\ NothingStrayed
  BY ZenonT(60)
<1>1. /\ NoLoop.at = "none" /\ NoLoop.evs = {} /\ NoLoop.tasks = {} /\ NoTimer.at = "none"
  BY SMTT(60) DEF NoLoop, NoTimer
<1>2. /\ wl = NoLoop /\ wait_tasks_ = {} /\ delete_list = {} /\ deleted = {}
      /\ \A t \in Task : timer[t] = NoTimer /\ place[t] = "running" /\ ref_count_[t] = 1
      /\ \A f \in Fd : epoll[f] = NULL
  BY ZenonT(60) DEF HookInit, IoInit
<1>3. StaysRegistered /\ Unreferenced
  BY <1>1, <1>2, ZenonT(60) DEF StaysRegistered, Unreferenced, Known, Notified
<1>4. CountsExact
  <2> SUFFICES ASSUME NEW t \in Task
               PROVE  ref_count_[t] = (IF place[t] = "done" THEN 0 ELSE 1) + Cardinality(Registered(t))
                        + (IF timer[t].at \in {"set", "expired", "firing"} THEN 1 ELSE 0)
    BY ZenonT(60) DEF CountsExact, RefCountExact
  <2>1. Registered(t) = {}
    BY <1>2, SMTT(60) DEF Registered
  <2>2. Cardinality(Registered(t)) = 0
    BY <2>1, RegisteredFinite, SMTT(60)
  <2>3. QED
    BY <1>1, <1>2, <2>2, SMTT(60)
<1>5. NothingStrayed
  BY ZenonT(60) DEF HookInit, IoInit, NothingStrayed
<1>6. QED
  BY <1>3, <1>4, <1>5, Zenon DEF RefInv

\* The counts are exact and the descriptors registered, by these two invariants.
LEMMA RefInvSuffices == FlagInv /\ EpollInv /\ RefInv => RefCountSafe /\ RegisteredWhileWaiting
<1> SUFFICES ASSUME FlagInv, EpollInv, RefInv PROVE RefCountSafe /\ RegisteredWhileWaiting
  BY ZenonT(60)
<1>1. /\ IoTypeOK /\ WokenOnce /\ RegisteredShape /\ CountsExact /\ Unreferenced /\ StaysRegistered
      /\ wait_tasks_ \subseteq Task /\ deleted \subseteq Task
      /\ epoll \in [Fd -> WaitId \cup {NULL}]
  BY ZenonT(60) DEF FlagInv, WokenInv, EpollInv, RefInv, IoTypeOK
<1>2. \A t \in Task : place[t] # "blocked" => Registered(t) = {}
  BY <1>1, ZenonT(60) DEF RegisteredShape, RegisteredOK, Registered, WokenOnce
<1>3. \A t \in wait_tasks_ : sw[t].at = "none" => \E f \in Registered(t) : epoll[f].id = io_block_id_[t]
  BY <1>1, SMTT(60) DEF StaysRegistered, Has, RegisteredShape, RegisteredOK, Registered
<1>4. RegisteredWhileWaiting
  BY <1>2, <1>3, ZenonT(60) DEF RegisteredWhileWaiting
<1>5. ASSUME NEW t \in deleted
      PROVE  place[t] = "done" /\ Registered(t) = {} /\ timer[t].at \notin {"set", "expired", "firing"}
  <2>1. ref_count_[t] = 0 /\ t \in Task
    BY <1>1, ZenonT(60) DEF Unreferenced
  <2>2. 0 = (IF place[t] = "done" THEN 0 ELSE 1) + Cardinality(Registered(t))
              + (IF timer[t].at \in {"set", "expired", "firing"} THEN 1 ELSE 0)
    BY <1>1, <2>1, SMTT(60) DEF CountsExact, RefCountExact
  <2>3. Cardinality(Registered(t)) \in Nat /\ (Cardinality(Registered(t)) = 0 <=> Registered(t) = {})
    BY <2>1, RegisteredFinite, ZenonT(60)
  <2>4. QED
    BY <2>2, <2>3, SMTT(60)
<1>6. ASSUME NEW t \in deleted
      PROVE  t \notin wait_tasks_ /\ (\A e \in wl.evs : e.st.tk # t) /\ (\A s \in wl.tasks : s.tk # t)
  BY <1>1, <1>5, SMTT(60) DEF WokenOnce, Unreferenced, Known, Notified
<1>7. \A t \in Task : DeletedUnreachable(t)
  BY <1>5, <1>6, ZenonT(60) DEF DeletedUnreachable
<1>8. QED
  BY <1>1, <1>4, <1>7, ZenonT(60) DEF RefCountSafe, CountsExact

\* What the two theorems below rest on.
CountInv == FlagInv /\ EpollInv /\ RefInv /\ NothingStrayed

\* It holds initially and every step keeps it.
LEMMA CountInvInductive ==
  ASSUME Unshared, Distinct
  PROVE  /\ HookInit => CountInv
         /\ CountInv /\ [HookNext]_hvars => CountInv'
<1>1. HookInit => CountInv
  BY InitFlagInv, InitEpollInv, InitRefInv, ZenonT(60) DEF CountInv
<1>2. ASSUME CountInv, [HookNext]_hvars PROVE CountInv'
  <2>1. FlagInv /\ WokenInv /\ EpollInv /\ RefInv /\ NothingStrayed
    BY <1>2, Zenon DEF CountInv, FlagInv
  <2>2. FlagInv' /\ IoStep
    BY <1>2, <2>1, StepFlagInv, SpecStep, ZenonT(60)
  <2>3. EpollInv' /\ RefInv'
    BY <2>1, <2>2, StepEpollInv, StepRefInv, ZenonT(60)
  <2>4. NothingStrayed'
    BY <2>1, <2>2, StepStrays, ZenonT(60)
  <2>5. QED
    BY <2>2, <2>3, <2>4, Zenon DEF CountInv
<1>3. QED
  BY <1>1, <1>2, Zenon

\* Every reference to a Task is counted once, by IncrementRef where a
\* descriptor or a timer is added and by DecrementRef where it is removed, and
\* the Task that WaitLoop deletes is known to no epoll, event, timer or list, if
\* the waits on several descriptors share none with another coroutine and name
\* none twice.  RefCountSafe then makes no exception: nothing ever strays.
THEOREM ReferencesCounted ==
  ASSUME Unshared, Distinct PROVE HookSpec => [](RefCountSafe /\ NothingStrayed)
<1>1. (HookInit => CountInv) /\ (CountInv /\ [HookNext]_hvars => CountInv')
  BY CountInvInductive, Zenon
<1>2. CountInv => RefCountSafe /\ NothingStrayed
  BY RefInvSuffices, Zenon DEF CountInv
<1>3. QED
  BY <1>1, <1>2, PTL DEF HookSpec

\* When a coroutine runs again IoWait::Cancel has taken its last descriptor out
\* of the epolls, and one that waits has a descriptor registered for this wait,
\* under the same condition, where no Cancel meant for one wait of a coroutine
\* ends another and so RegisteredWhileWaiting makes no exception either.
THEOREM WaitersRegistered ==
  ASSUME Unshared, Distinct PROVE HookSpec => [](RegisteredWhileWaiting /\ NothingStrayed)
<1>1. (HookInit => CountInv) /\ (CountInv /\ [HookNext]_hvars => CountInv')
  BY CountInvInductive, Zenon
<1>2. CountInv => RegisteredWhileWaiting /\ NothingStrayed
  BY RefInvSuffices, Zenon DEF CountInv
<1>3. QED
  BY <1>1, <1>2, PTL DEF HookSpec
=============================================================================
