---------------------------- MODULE CoTimerProofs ----------------------------
(***************************************************************************)
(* Proofs about CoTimer, for any number of timers, scheduler threads and   *)
(* cancellers: what a cancel promises, and that every timer is in one      *)
(* place, hold in every behaviour.                                         *)
(***************************************************************************)
EXTENDS CoTimer, Integers, FiniteSetTheorems, TLAPS

\* The part of the type invariant that the proofs use.
TimerTypeOK ==
  /\ active_ \in [Timer -> BOOLEAN]
  /\ fn_lock_ \in [Timer -> Thread \cup Canceller \cup {NULL}]
  /\ timers_ \subseteq Timer
  /\ deadlines_ \in Seq(Timer)
  /\ batch \in [Thread -> Seq(Timer)]
  /\ running \in [Thread -> Timer \cup {NULL}]
  /\ call \in [Canceller -> [at : {"none", "locked", "erase"},
                             timer : Timer \cup {NULL}, block : BOOLEAN]]
  /\ \A c \in Canceller : call[c].at # "none" => call[c].timer \in Timer
  /\ unborn \subseteq Timer
  /\ fired \in [Timer -> Nat]
  /\ cancelled \in [Timer -> Nat]
  /\ settled \subseteq Timer

\* fn_lock_ belongs to the thread in the callback and to the locked canceller.
LockHeld ==
  /\ \A h \in Thread : running[h] # NULL => fn_lock_[running[h]] = h
  /\ \A c \in Canceller : call[c].at = "locked" => fn_lock_[call[c].timer] = c

\* active_ is spent by the one call or the one cancel that found it true.
SpentOnce ==
  \A m \in Timer : fired[m] + cancelled[m] = IF active_[m] THEN 0 ELSE 1

\* The inductive invariant: SettledIsOver needs that a settled timer is spent,
\* and that who takes its lock finds nobody in the callback.
CancelInv ==
  /\ TimerTypeOK
  /\ LockHeld
  /\ SpentOnce
  /\ \A m \in settled : ~active_[m]
  /\ SettledIsOver

USE CoTimerAssumption

-----------------------------------------------------------------------------
(* The lists *)

In(q, m) == \E i \in 1..Len(q) : q[i] = m
NoRepeat(q) == \A i, j \in 1..Len(q) : q[i] = q[j] => i = j
Sorted(q, f) == \A i, j \in 1..Len(q) : i < j => f[q[i]] <= f[q[j]]

\* r is what is left of q when some of its entries are taken out.
Part(r, q) ==
  \E old \in [1..Len(r) -> 1..Len(q)] :
    \A i \in 1..Len(r) :
      r[i] = q[old[i]] /\ \A j \in 1..Len(r) : i < j => old[i] < old[j]

\* A part of a list holds only its elements, and keeps it free of repeats and sorted.
LEMMA PartKeeps ==
  ASSUME NEW T, NEW q \in Seq(T), NEW r \in Seq(T), Part(r, q)
  PROVE  /\ \A u : In(r, u) => In(q, u)
         /\ NoRepeat(q) => NoRepeat(r)
         /\ \A f : Sorted(q, f) => Sorted(r, f)
<1>1. PICK old \in [1..Len(r) -> 1..Len(q)] :
        \A i \in 1..Len(r) :
          r[i] = q[old[i]] /\ \A j \in 1..Len(r) : i < j => old[i] < old[j]
  BY SMTT(60) DEF Part
<1>2. \A i \in 1..Len(r) : old[i] \in 1..Len(q)
  BY <1>1, Zenon
<1>3. \A u : In(r, u) => In(q, u)
  BY <1>1, <1>2, Zenon DEF In
<1>4. ASSUME NoRepeat(q), NEW i \in 1..Len(r), NEW j \in 1..Len(r), r[i] = r[j]
      PROVE  i = j
  <2>1. old[i] = old[j]
    BY <1>1, <1>2, <1>4 DEF NoRepeat
  <2>2. i \in Int /\ j \in Int /\ old[i] \in Int /\ old[j] \in Int
    BY <1>2
  <2>3. ~(i < j) /\ ~(j < i)
    BY <1>1, <2>1, <2>2
  <2>4. QED
    BY <2>2, <2>3
<1>5. \A f : Sorted(q, f) => Sorted(r, f)
  BY <1>1, <1>2, ZenonT(60) DEF Sorted
<1>6. QED
  BY <1>3, <1>4, <1>5, Zenon DEF NoRepeat

\* GetExpired cuts a list in two.
LEMMA CutFacts ==
  ASSUME NEW T, NEW q \in Seq(T), NEW n, n = Len(q), NEW k \in 0..n
  PROVE  LET a == SubSeq(q, 1, k)
             b == SubSeq(q, k + 1, n)
         IN /\ n \in Nat
            /\ a \in Seq(T) /\ Len(a) = k /\ \A j \in 1..k : a[j] = q[j]
            /\ b \in Seq(T) /\ Len(b) = n - k /\ \A j \in 1..(n - k) : b[j] = q[k + j]
OBVIOUS

\* The two halves of a list cut at k are parts of it, as when the due timers are cut off.
LEMMA CutKeeps ==
  ASSUME NEW T, NEW q \in Seq(T), NEW a \in Seq(T), NEW b \in Seq(T),
         NEW n \in Nat, NEW k \in 0..n,
         Len(q) = n, Len(a) = k, Len(b) = n - k,
         \A j \in 1..k : a[j] = q[j],
         \A j \in 1..(n - k) : b[j] = q[k + j],
         NoRepeat(q)
  PROVE  /\ Part(a, q) /\ Part(b, q)
         /\ \A u : In(q, u) <=> In(a, u) \/ In(b, u)
         /\ \A u : ~(In(a, u) /\ In(b, u))
<1>1. Part(a, q)
  <2> PICK old : old = [j \in 1..k |-> j]
    BY ZenonT(60)
  <2>1. old \in [1..k -> 1..n] /\ \A j \in 1..k : old[j] = j
    OBVIOUS
  <2>2. QED
    BY <2>1, SMTT(60) DEF Part
<1>2. Part(b, q)
  <2> PICK old : old = [j \in 1..(n - k) |-> k + j]
    BY ZenonT(60)
  <2>1. old \in [1..(n - k) -> 1..n] /\ \A j \in 1..(n - k) : old[j] = k + j
    OBVIOUS
  <2>2. \A i \in 1..(n - k) :
          b[i] = q[old[i]] /\ \A j \in 1..(n - k) : i < j => old[i] < old[j]
    BY <2>1
  <2>3. QED
    BY <2>1, <2>2, ZenonT(60) DEF Part
<1>3. ASSUME NEW j \in 1..n PROVE In(a, q[j]) \/ In(b, q[j])
  <2>1. CASE j <= k
    BY <2>1 DEF In
  <2>2. CASE j > k
    <3>1. j - k \in 1..(n - k) /\ k + (j - k) = j
      BY <2>2
    <3>2. b[j - k] = q[j]
      BY <3>1, Zenon
    <3>3. QED
      BY <3>1, <3>2, Zenon DEF In
  <2>3. QED
    BY <2>1, <2>2
<1>4. \A u : In(q, u) <=> In(a, u) \/ In(b, u)
  <2>1. \A u : In(a, u) \/ In(b, u) => In(q, u)
    BY <1>1, <1>2, PartKeeps, ZenonT(60)
  <2>2. \A u : In(q, u) => In(a, u) \/ In(b, u)
    BY <1>3, ZenonT(60) DEF In
  <2>3. QED
    BY <2>1, <2>2, ZenonT(60)
<1>5. ASSUME NEW i \in 1..k, NEW j \in 1..(n - k) PROVE a[i] # b[j]
  <2>1. i \in 1..n /\ k + j \in 1..n /\ i # k + j
    OBVIOUS
  <2>2. q[i] # q[k + j]
    BY <2>1, Zenon DEF NoRepeat
  <2>3. QED
    BY <2>2, Zenon
<1>6. \A u : ~(In(a, u) /\ In(b, u))
  BY <1>5, ZenonT(60) DEF In
<1>7. QED
  BY <1>1, <1>2, <1>4, <1>6, Zenon

\* What GetExpired leaves and what it takes.
LEMMA Cut ==
  ASSUME NEW T, NEW q \in Seq(T), NEW k \in 0..Len(q), NoRepeat(q)
  PROVE  LET a == SubSeq(q, 1, k)
             b == SubSeq(q, k + 1, Len(q))
         IN /\ a \in Seq(T) /\ Len(a) = k /\ b \in Seq(T)
            /\ Part(a, q) /\ Part(b, q)
            /\ \A u : In(q, u) <=> In(a, u) \/ In(b, u)
            /\ \A u : ~(In(a, u) /\ In(b, u))
<1> DEFINE n == Len(q)
           a == SubSeq(q, 1, k)
           b == SubSeq(q, k + 1, n)
<1>1. /\ n \in Nat
      /\ a \in Seq(T) /\ Len(a) = k /\ \A j \in 1..k : a[j] = q[j]
      /\ b \in Seq(T) /\ Len(b) = n - k /\ \A j \in 1..(n - k) : b[j] = q[k + j]
  BY CutFacts
<1>2. Len(q) = n /\ k \in 0..n
  BY Zenon
<1> HIDE DEF a, b, n
<1>3. /\ Part(a, q) /\ Part(b, q)
      /\ \A u : In(q, u) <=> In(a, u) \/ In(b, u)
      /\ \A u : ~(In(a, u) /\ In(b, u))
  BY <1>1, <1>2, CutKeeps, ZenonT(60)
<1>4. QED
  BY <1>1, <1>3, Zenon DEF a, b, n

\* multimap::insert puts an element in the middle.
Inserted(r, q, i, m) ==
  /\ Len(r) = Len(q) + 1
  /\ \A j \in 1..i : r[j] = q[j]
  /\ r[i + 1] = m
  /\ \A j \in (i + 1)..Len(q) : r[j + 1] = q[j]

\* What the insertion of an element behind place i yields.
LEMMA InsertFacts ==
  ASSUME NEW T, NEW q \in Seq(T), NEW i \in 0..Len(q), NEW m \in T
  PROVE  LET r == SubSeq(q, 1, i) \o <<m>> \o SubSeq(q, i + 1, Len(q)) IN
         r \in Seq(T) /\ Inserted(r, q, i, m)
<1> DEFINE n == Len(q)
           a == SubSeq(q, 1, i)
           b == SubSeq(q, i + 1, n)
           c == a \o <<m>>
           r == c \o b
<1>1. /\ n \in Nat /\ a \in Seq(T) /\ Len(a) = i /\ \A j \in 1..i : a[j] = q[j]
      /\ b \in Seq(T) /\ Len(b) = n - i /\ \A j \in 1..(n - i) : b[j] = q[i + j]
  BY CutFacts
<1> HIDE DEF a, b
<1>2. /\ c \in Seq(T) /\ Len(c) = i + 1 /\ c[i + 1] = m
      /\ \A j \in 1..i : c[j] = a[j]
  BY <1>1
<1> HIDE DEF c
<1>3. /\ r \in Seq(T) /\ Len(r) = n + 1
      /\ \A j \in 1..(i + 1) : r[j] = c[j]
      /\ \A j \in 1..(n - i) : r[(i + 1) + j] = b[j]
  BY <1>1, <1>2, SMTT(60)
<1> HIDE DEF r
<1>4. (\A j \in 1..i : r[j] = q[j]) /\ r[i + 1] = m
  BY <1>1, <1>2, <1>3
<1>5. ASSUME NEW j \in (i + 1)..n PROVE r[j + 1] = q[j]
  <2>1. j - i \in 1..(n - i) /\ (i + 1) + (j - i) = j + 1 /\ i + (j - i) = j
    BY <1>1
  <2>2. r[(i + 1) + (j - i)] = b[j - i] /\ b[j - i] = q[i + (j - i)]
    BY <1>1, <1>3, <2>1, ZenonT(60)
  <2>3. QED
    BY <2>1, <2>2, ZenonT(60)
<1>6. r \in Seq(T) /\ Inserted(r, q, i, m)
  BY <1>3, <1>4, <1>5, Zenon DEF Inserted
<1>7. QED
  BY <1>6, Zenon DEF a, b, c, r

\* By f, m belongs behind the first i entries of q.
Fits(q, i, m, f) ==
  /\ Sorted(q, f)
  /\ \A j \in 1..i : f[q[j]] <= f[m]
  /\ \A j \in (i + 1)..Len(q) : f[m] <= f[q[j]]

\* An insertion at a fitting place adds that element only, and keeps the list sorted.
LEMMA InsertKeeps ==
  ASSUME NEW T, NEW q \in Seq(T), NEW r \in Seq(T), NEW m \in T,
         NEW i \in 0..Len(q), Inserted(r, q, i, m), NoRepeat(q), ~In(q, m)
  PROVE  /\ NoRepeat(r)
         /\ \A u : In(r, u) <=> In(q, u) \/ u = m
         /\ \A f : Fits(q, i, m, f) => Sorted(r, f)
<1> PICK n : n = Len(q)
  BY Zenon
<1>0. /\ n \in Nat /\ i \in 0..n /\ Len(r) = n + 1
      /\ \A j \in 1..i : r[j] = q[j]
      /\ r[i + 1] = m
      /\ \A j \in (i + 1)..n : r[j + 1] = q[j]
  BY DEF Inserted
<1>1. ASSUME NEW j \in 1..(n + 1), j # i + 1
      PROVE  \E l \in 1..n : r[j] = q[l] /\ (j < i + 1 => l = j) /\ (j > i + 1 => l = j - 1)
  <2>1. CASE j <= i
    BY <1>0, <2>1
  <2>2. CASE j > i
    <3>1. j - 1 \in (i + 1)..n /\ j - 1 \in 1..n /\ (j - 1) + 1 = j
      BY <1>0, <1>1, <2>2
    <3>2. r[(j - 1) + 1] = q[j - 1]
      BY <1>0, <3>1, Zenon
    <3>3. QED
      BY <1>0, <2>2, <3>1, <3>2
  <2>3. QED
    BY <1>0, <2>1, <2>2
<1>2. \A l \in 1..n : q[l] # m
  BY <1>0, Zenon DEF In
<1>3. ASSUME NEW j \in 1..(n + 1), NEW l \in 1..(n + 1), r[j] = r[l] PROVE j = l
  <2>1. CASE j = i + 1 \/ l = i + 1
    BY <1>0, <1>1, <1>2, <1>3, <2>1
  <2>2. CASE j # i + 1 /\ l # i + 1
    <3>1. PICK x \in 1..n : r[j] = q[x] /\ (j < i + 1 => x = j) /\ (j > i + 1 => x = j - 1)
      BY <1>0, <1>1, <2>2, Zenon
    <3>2. PICK y \in 1..n : r[l] = q[y] /\ (l < i + 1 => y = l) /\ (l > i + 1 => y = l - 1)
      BY <1>0, <1>1, <2>2, Zenon
    <3>3. x = y
      BY <1>0, <1>3, <3>1, <3>2, ZenonT(60) DEF NoRepeat
    <3>4. QED
      BY <1>0, <2>2, <3>1, <3>2, <3>3
  <2>3. QED
    BY <1>0, <2>1, <2>2, Zenon
<1>4. \A u : In(r, u) <=> In(q, u) \/ u = m
  <2>1. ASSUME NEW j \in 1..(n + 1) PROVE In(q, r[j]) \/ r[j] = m
    BY <1>0, <1>1, ZenonT(60) DEF In
  <2>2. In(r, m)
    <3>1. i + 1 \in 1..(n + 1)
      BY <1>0
    <3>2. QED
      BY <1>0, <3>1, Zenon DEF In
  <2>3. ASSUME NEW j \in 1..n PROVE In(r, q[j])
    <3>1. j \in 1..(n + 1) /\ j + 1 \in 1..(n + 1)
      BY <1>0
    <3>2. r[j] = q[j] \/ r[j + 1] = q[j]
      BY <1>0
    <3>3. QED
      BY <1>0, <3>1, <3>2, SMTT(60) DEF In
  <2>4. \A u : In(r, u) => In(q, u) \/ u = m
    BY <1>0, <2>1 DEF In
  <2>5. \A u : In(q, u) => In(r, u)
    BY <1>0, <2>3, Zenon DEF In
  <2>6. QED
    BY <2>2, <2>4, <2>5, ZenonT(60)
<1>5. ASSUME NEW f, Sorted(q, f), \A j \in 1..i : f[q[j]] <= f[m],
             \A j \in (i + 1)..n : f[m] <= f[q[j]],
             NEW j \in 1..(n + 1), NEW l \in 1..(n + 1), j < l
      PROVE  f[r[j]] <= f[r[l]]
  <2>1. CASE j = i + 1
    <3>1. PICK y \in 1..n : r[l] = q[y] /\ (l < i + 1 => y = l) /\ (l > i + 1 => y = l - 1)
      BY <1>0, <1>1, <1>5, <2>1
    <3>2. y \in (i + 1)..n
      BY <1>0, <1>5, <2>1, <3>1
    <3>3. QED
      BY <1>0, <1>5, <2>1, <3>1, <3>2, Zenon
  <2>2. CASE l = i + 1
    <3>1. j \in 1..i
      BY <1>0, <1>5, <2>2
    <3>2. QED
      BY <1>0, <1>5, <2>2, <3>1, Zenon
  <2>3. CASE j # i + 1 /\ l # i + 1
    <3>1. PICK x \in 1..n : r[j] = q[x] /\ (j < i + 1 => x = j) /\ (j > i + 1 => x = j - 1)
      BY <1>0, <1>1, <2>3, Zenon
    <3>2. PICK y \in 1..n : r[l] = q[y] /\ (l < i + 1 => y = l) /\ (l > i + 1 => y = l - 1)
      BY <1>0, <1>1, <2>3, Zenon
    <3>3. x < y
      BY <1>0, <1>5, <2>3, <3>1, <3>2, SMTT(60)
    <3>4. f[q[x]] <= f[q[y]]
      BY <1>0, <1>5, <3>3, Zenon DEF Sorted
    <3>5. QED
      BY <1>0, <3>1, <3>2, <3>4, SMTT(60)
  <2>4. QED
    BY <1>0, <2>1, <2>2, <2>3, Zenon
<1>6. NoRepeat(r)
  BY <1>0, <1>3, Zenon DEF NoRepeat
<1>7. ASSUME NEW f, Fits(q, i, m, f) PROVE Sorted(r, f)
  <2>1. /\ Sorted(q, f)
        /\ \A j \in 1..i : f[q[j]] <= f[m]
        /\ \A j \in (i + 1)..n : f[m] <= f[q[j]]
    BY <1>7, Zenon DEF Fits
  <2>2. \A j, l \in 1..(n + 1) : j < l => f[r[j]] <= f[r[l]]
    BY <1>5, <2>1, ZenonT(60)
  <2>3. QED
    BY <1>0, <2>2, ZenonT(60) DEF Sorted
<1>8. QED
  BY <1>4, <1>6, <1>7, Zenon

\* multimap::erase takes an element out of the middle.
Removed(r, q, i) ==
  /\ Len(r) = Len(q) - 1
  /\ \A j \in 1..(i - 1) : r[j] = q[j]
  /\ \A j \in i..(Len(q) - 1) : r[j] = q[j + 1]

\* What the removal of the element at place i yields.
LEMMA RemoveFacts ==
  ASSUME NEW T, NEW q \in Seq(T), NEW i \in 1..Len(q)
  PROVE  LET r == SubSeq(q, 1, i - 1) \o SubSeq(q, i + 1, Len(q)) IN
         r \in Seq(T) /\ Removed(r, q, i)
<1> PICK n : n = Len(q)
  BY Zenon
<1> DEFINE a == SubSeq(q, 1, i - 1)
           b == SubSeq(q, i + 1, n)
           r == a \o b
<1>1. /\ n \in Nat /\ a \in Seq(T) /\ Len(a) = i - 1 /\ \A j \in 1..(i - 1) : a[j] = q[j]
      /\ b \in Seq(T) /\ Len(b) = n - i /\ \A j \in 1..(n - i) : b[j] = q[i + j]
  OBVIOUS
<1> HIDE DEF a, b
<1>2. /\ r \in Seq(T) /\ Len(r) = n - 1
      /\ \A j \in 1..(i - 1) : r[j] = a[j]
      /\ \A j \in 1..(n - i) : r[(i - 1) + j] = b[j]
  <2>0. a \in Seq(T) /\ b \in Seq(T)
    BY <1>1, Zenon
  <2>1. r \in Seq(T) /\ Len(r) = Len(a) + Len(b)
    BY <2>0
  <2>2. (i - 1) + (n - i) = n - 1
    BY <1>1
  <2>3. \A j \in 1..Len(a) : r[j] = a[j]
    BY <1>1
  <2>4. \A j \in 1..Len(b) : r[Len(a) + j] = b[j]
    BY <1>1, SMTT(60)
  <2>5. QED
    BY <1>1, <2>1, <2>2, <2>3, <2>4, ZenonT(60)
<1> HIDE DEF r
<1>3. \A j \in 1..(i - 1) : r[j] = q[j]
  BY <1>1, <1>2, Zenon
<1>4. ASSUME NEW j \in i..(n - 1) PROVE r[j] = q[j + 1]
  <2>1. j - (i - 1) \in 1..(n - i) /\ (i - 1) + (j - (i - 1)) = j /\ i + (j - (i - 1)) = j + 1
    BY <1>1
  <2>2. r[(i - 1) + (j - (i - 1))] = b[j - (i - 1)] /\ b[j - (i - 1)] = q[i + (j - (i - 1))]
    BY <1>1, <1>2, <2>1, ZenonT(60)
  <2>3. QED
    BY <2>1, <2>2, ZenonT(60)
<1>5. r \in Seq(T) /\ Removed(r, q, i)
  BY <1>2, <1>3, <1>4, Zenon DEF Removed
<1>6. QED
  BY <1>5, Zenon DEF a, b, r

\* A removal takes that element only.
LEMMA RemoveKeeps ==
  ASSUME NEW T, NEW q \in Seq(T), NEW r \in Seq(T), NEW i \in 1..Len(q),
         Removed(r, q, i), NoRepeat(q)
  PROVE  Part(r, q) /\ \A u : In(r, u) <=> In(q, u) /\ u # q[i]
<1> PICK n : n = Len(q)
  BY Zenon
<1> PICK old : old = [j \in 1..(n - 1) |-> IF j < i THEN j ELSE j + 1]
  BY ZenonT(60)
<1>0. /\ n \in Nat /\ i \in 1..n /\ Len(r) = n - 1
      /\ \A j \in 1..(i - 1) : r[j] = q[j]
      /\ \A j \in i..(n - 1) : r[j] = q[j + 1]
  BY DEF Removed
<1>1. /\ old \in [1..(n - 1) -> 1..n]
      /\ \A j \in 1..(n - 1) : old[j] = IF j < i THEN j ELSE j + 1
  BY <1>0
<1>2. \A j \in 1..(n - 1) : old[j] \in 1..n /\ old[j] # i /\ r[j] = q[old[j]]
  BY <1>0, <1>1
<1>3. \A j, l \in 1..(n - 1) : j < l => old[j] < old[l]
  BY <1>0, <1>1
<1>4. Part(r, q)
  BY <1>0, <1>1, <1>2, <1>3, ZenonT(60) DEF Part
<1>5. ASSUME NEW j \in 1..(n - 1) PROVE In(q, r[j]) /\ r[j] # q[i]
  BY <1>0, <1>2 DEF NoRepeat, In
<1>6. ASSUME NEW j \in 1..n, j # i PROVE In(r, q[j])
  <2>1. CASE j < i
    <3>1. j \in 1..(n - 1) /\ r[j] = q[j]
      BY <1>0, <2>1
    <3>2. QED
      BY <1>0, <3>1, Zenon DEF In
  <2>2. CASE j > i
    <3>1. j - 1 \in i..(n - 1) /\ j - 1 \in 1..(n - 1) /\ (j - 1) + 1 = j
      BY <1>0, <2>2
    <3>2. r[j - 1] = q[j]
      BY <1>0, <3>1, Zenon
    <3>3. QED
      BY <1>0, <3>1, <3>2, Zenon DEF In
  <2>3. QED
    BY <1>0, <1>6, <2>1, <2>2
<1>7. \A u : In(r, u) => In(q, u) /\ u # q[i]
  BY <1>0, <1>5, ZenonT(60) DEF In
<1>8. \A u : In(q, u) /\ u # q[i] => In(r, u)
  BY <1>0, <1>6, ZenonT(60) DEF In
<1>9. QED
  BY <1>4, <1>7, <1>8, ZenonT(60)

\* Counting some of the positions of a sequence gives at most its length.
LEMMA CountBounded ==
  ASSUME NEW n \in Nat, NEW S \in SUBSET (1..n)
  PROVE  Cardinality(S) \in 0..n
<1>1. IsFiniteSet(1..n) /\ Cardinality(1..n) = IF 1 > n THEN 0 ELSE n - 1 + 1
  BY FS_Interval
<1>2. IsFiniteSet(S) /\ Cardinality(S) <= Cardinality(1..n)
  BY <1>1, FS_Subset, ZenonT(60)
<1>3. Cardinality(S) \in Nat
  BY <1>2, FS_CardinalityType, Zenon
<1>4. QED
  BY <1>1, <1>2, <1>3

\* Nothing has been added, called or cancelled.
LEMMA InitCancelInv == TInit => CancelInv
<1> SUFFICES ASSUME TInit PROVE CancelInv
  BY Zenon
<1>1. TimerTypeOK
  BY DEF TInit, TimerTypeOK, NoCall
<1>2. LockHeld /\ SpentOnce /\ SettledIsOver
  BY DEF TInit, LockHeld, SpentOnce, SettledIsOver, NoCall
<1>3. QED
  BY <1>1, <1>2, Zenon DEF TInit, CancelInv

\* The steps that change only the tables, the batches and the clock.
LEMMA TablesKeepCancelInv ==
  ASSUME CancelInv, TimerTypeOK',
         UNCHANGED <<active_, fn_lock_, running, call, fired, cancelled, settled>>
  PROVE  CancelInv'
  BY SMTT(60) DEF CancelInv, LockHeld, SpentOnce, SettledIsOver

\* ExpireAt puts a timer in the tables.
LEMMA ExpireAtCancelInv ==
  ASSUME CancelInv, NEW m \in Timer, NEW d \in Delay, ExpireAt(m, d)
  PROVE  CancelInv'
<1> DEFINE S == {j \in 1..Len(deadlines_) : next_time_point_[deadlines_[j]] <= now + d}
           i == Cardinality(S)
<1>1. deadlines_ \in Seq(Timer) /\ Len(deadlines_) \in Nat
  BY DEF CancelInv, TimerTypeOK
<1>2. i \in 0..Len(deadlines_)
  BY <1>1, CountBounded, ZenonT(60)
<1> HIDE DEF i
<1>3. deadlines_' = SubSeq(deadlines_, 1, i) \o <<m>>
                      \o SubSeq(deadlines_, i + 1, Len(deadlines_))
  BY Zenon DEF ExpireAt, i
<1>4. deadlines_' \in Seq(Timer)
  BY <1>1, <1>2, <1>3, InsertFacts, SMTT(60)
<1>5. TimerTypeOK'
  BY <1>4, ZenonT(60) DEF CancelInv, TimerTypeOK, ExpireAt, ghosts
<1>6. QED
  BY <1>5, TablesKeepCancelInv, Zenon DEF ExpireAt, ghosts

\* GetExpired moves timers from the tables to the batch of a thread.
LEMMA GetExpiredCancelInv ==
  ASSUME CancelInv, NEW h \in Thread, GetExpired(h)
  PROVE  CancelInv'
<1> DEFINE S == {j \in 1..Len(deadlines_) : next_time_point_[deadlines_[j]] <= now}
           due == Cardinality(S)
           k == IF due < Batch THEN due ELSE Batch
<1>1. deadlines_ \in Seq(Timer) /\ Len(deadlines_) \in Nat
  BY DEF CancelInv, TimerTypeOK
<1>2. due \in 0..Len(deadlines_)
  BY <1>1, CountBounded, Zenon
<1> HIDE DEF due
<1>3. k \in 0..Len(deadlines_)
  BY <1>1, <1>2
<1>4. /\ batch' = [batch EXCEPT ![h] = SubSeq(deadlines_, 1, k)]
      /\ deadlines_' = SubSeq(deadlines_, k + 1, Len(deadlines_))
      /\ timers_' \subseteq timers_
  BY Zenon DEF GetExpired, due
<1> HIDE DEF k
<1>5. /\ SubSeq(deadlines_, 1, k) \in Seq(Timer)
      /\ SubSeq(deadlines_, k + 1, Len(deadlines_)) \in Seq(Timer)
  BY <1>1, <1>3, CutFacts, Zenon
<1>6. UNCHANGED <<unborn, active_, fn_lock_, running, call, fired, cancelled, settled>>
  BY Zenon DEF GetExpired, ghosts
<1>7. TimerTypeOK'
  BY <1>4, <1>5, <1>6, SMTT(60) DEF CancelInv, TimerTypeOK
<1>8. QED
  BY <1>6, <1>7, TablesKeepCancelInv, Zenon

\* operator() without a call only shortens the batch.
LEMMA SkipCallbackCancelInv ==
  ASSUME CancelInv, NEW h \in Thread, SkipCallback(h)
  PROVE  CancelInv'
<1>1. batch[h] \in Seq(Timer) /\ batch[h] # <<>>
  BY Zenon DEF CancelInv, TimerTypeOK, SkipCallback
<1>2. Tail(batch[h]) \in Seq(Timer)
  BY <1>1
<1>3. TimerTypeOK'
  BY <1>2, SMTT(60) DEF CancelInv, TimerTypeOK, SkipCallback, mgrvars, ghosts
<1>4. QED
  BY <1>3, TablesKeepCancelInv, Zenon DEF SkipCallback, ghosts

\* operator() enters fn_() with the lock, and spends active_: the timer is
\* not settled, as it was active.
LEMMA EnterCallbackCancelInv ==
  ASSUME CancelInv, NEW h \in Thread, EnterCallback(h)
  PROVE  CancelInv'
<1> DEFINE m == Head(batch[h])
<1>1. batch[h] \in Seq(Timer) /\ batch[h] # <<>>
  BY Zenon DEF CancelInv, TimerTypeOK, EnterCallback
<1>2. m \in Timer /\ Tail(batch[h]) \in Seq(Timer)
  BY <1>1
<1>3. /\ running[h] = NULL /\ fn_lock_[m] = NULL /\ active_[m]
      /\ fn_lock_' = [fn_lock_ EXCEPT ![m] = h]
      /\ active_' = [active_ EXCEPT ![m] = FALSE]
      /\ batch' = [batch EXCEPT ![h] = Tail(@)]
      /\ running' = [running EXCEPT ![h] = m]
      /\ fired' = [fired EXCEPT ![m] = @ + 1]
      /\ UNCHANGED <<timers_, deadlines_, unborn, call, cancelled, settled>>
  BY Zenon DEF EnterCallback, mgrvars
<1> HIDE DEF m
<1>4. TimerTypeOK'
  BY <1>2, <1>3, SMTT(60) DEF CancelInv, TimerTypeOK
<1>5. LockHeld'
  BY <1>2, <1>3, SMTT(60) DEF CancelInv, TimerTypeOK, LockHeld
<1>6. SpentOnce'
  BY <1>2, <1>3, SMTT(60) DEF CancelInv, TimerTypeOK, SpentOnce
<1>7. (\A n \in settled : ~active_[n])' /\ SettledIsOver'
  BY <1>2, <1>3, SMTT(60) DEF CancelInv, TimerTypeOK, SettledIsOver
<1>8. QED
  BY <1>4, <1>5, <1>6, <1>7, Zenon DEF CancelInv

\* A callback that ends, by returning or by throwing, gives the lock back.
LEMMA EndCallbackCancelInv ==
  ASSUME CancelInv, NEW h \in Thread, LeaveCallback(h) \/ ThrowCallback(h)
  PROVE  CancelInv'
<1>1. /\ running[h] # NULL
      /\ fn_lock_' = [fn_lock_ EXCEPT ![running[h]] = NULL]
      /\ running' = [running EXCEPT ![h] = NULL]
      /\ batch' = batch \/ batch' = [batch EXCEPT ![h] = <<>>]
      /\ UNCHANGED <<timers_, deadlines_, unborn, active_, call, fired, cancelled, settled>>
  BY Zenon DEF LeaveCallback, ThrowCallback, mgrvars, ghosts
<1>2. running[h] \in Timer /\ fn_lock_[running[h]] = h
  BY <1>1, Zenon DEF CancelInv, TimerTypeOK, LockHeld
<1>3. TimerTypeOK'
  <2>1. <<>> \in Seq(Timer)
    OBVIOUS
  <2>2. batch' \in [Thread -> Seq(Timer)]
    BY <1>1, <2>1, ZenonT(60) DEF CancelInv, TimerTypeOK
  <2>3. fn_lock_' \in [Timer -> Thread \cup Canceller \cup {NULL}]
    BY <1>1, Zenon DEF CancelInv, TimerTypeOK
  <2>4. QED
    BY <1>1, <2>2, <2>3, ZenonT(60) DEF CancelInv, TimerTypeOK
<1>4. LockHeld'
  BY <1>1, <1>2 DEF CancelInv, TimerTypeOK, LockHeld
<1>5. SpentOnce' /\ (\A n \in settled : ~active_[n])' /\ SettledIsOver'
  BY <1>1, <1>2, SMTT(60) DEF CancelInv, TimerTypeOK, SpentOnce, SettledIsOver
<1>6. QED
  BY <1>3, <1>4, <1>5, Zenon DEF CancelInv

\* Cancel and BlockCancel take a free lock: nobody is in the callback.
LEMMA CancelLockCancelInv ==
  ASSUME CancelInv, NEW c \in Canceller, NEW m \in Timer, NEW b \in BOOLEAN,
         CancelLock(c, m, b)
  PROVE  CancelInv'
<1>1. /\ fn_lock_[m] = NULL
      /\ fn_lock_' = [fn_lock_ EXCEPT ![m] = c]
      /\ call' = [call EXCEPT ![c] = [at |-> "locked", timer |-> m, block |-> b]]
      /\ UNCHANGED <<timers_, deadlines_, unborn, active_, batch, running,
                     fired, cancelled, settled>>
  BY Zenon DEF CancelLock, mgrvars, ghosts
<1>2. TimerTypeOK'
  BY <1>1, Zenon DEF CancelInv, TimerTypeOK
<1>3. LockHeld'
  BY <1>1 DEF CancelInv, TimerTypeOK, LockHeld
<1>4. SpentOnce' /\ (\A n \in settled : ~active_[n])' /\ SettledIsOver'
  BY <1>1, Zenon DEF CancelInv, SpentOnce, SettledIsOver
<1>5. QED
  BY <1>2, <1>3, <1>4, Zenon DEF CancelInv

\* The locked part: the lock is the canceller's, so no thread is in the
\* callback when the timer is settled, and active_ is spent once.
LEMMA CancelSetCancelInv ==
  ASSUME CancelInv, NEW c \in Canceller, CancelSet(c)
  PROVE  CancelInv'
<1> DEFINE m == call[c].timer
           ok == active_[m]
<1>1. /\ call[c].at = "locked"
      /\ active_' = [active_ EXCEPT ![m] = FALSE]
      /\ fn_lock_' = [fn_lock_ EXCEPT ![m] = NULL]
      /\ cancelled' = [cancelled EXCEPT ![m] = IF ok THEN @ + 1 ELSE @]
      /\ settled' = IF call[c].block THEN settled \cup {m} ELSE settled
      /\ call' = [call EXCEPT ![c] = IF ok THEN [@ EXCEPT !.at = "erase"] ELSE NoCall]
      /\ UNCHANGED <<timers_, deadlines_, unborn, batch, running, fired>>
  BY Zenon DEF CancelSet, mgrvars
<1>2. m \in Timer /\ fn_lock_[m] = c
  BY <1>1, Zenon DEF CancelInv, TimerTypeOK, LockHeld
<1>3. \A h \in Thread : running[h] # m
  BY <1>2, ZenonT(60) DEF CancelInv, TimerTypeOK, LockHeld
<1>4. TimerTypeOK'
  <2>1. call' \in [Canceller -> [at : {"none", "locked", "erase"},
                                 timer : Timer \cup {NULL}, block : BOOLEAN]]
    <3> DEFINE Call == [at : {"none", "locked", "erase"},
                        timer : Timer \cup {NULL}, block : BOOLEAN]
    <3>1. call \in [Canceller -> Call]
      BY Zenon DEF CancelInv, TimerTypeOK
    <3>2. [call[c] EXCEPT !.at = "erase"] \in Call /\ NoCall \in Call
      BY <3>1, Zenon DEF NoCall
    <3> HIDE DEF Call
    <3>3. call' \in [Canceller -> Call]
      BY <1>1, <3>1, <3>2, Zenon
    <3>4. QED
      BY <3>3, Zenon DEF Call
  <2>2. \A e \in Canceller : call'[e].at # "none" => call'[e].timer \in Timer
    BY <1>1, <1>2 DEF CancelInv, TimerTypeOK, NoCall
  <2>3. /\ active_' \in [Timer -> BOOLEAN]
        /\ fn_lock_' \in [Timer -> Thread \cup Canceller \cup {NULL}]
        /\ cancelled' \in [Timer -> Nat]
        /\ settled' \subseteq Timer
    BY <1>1, <1>2 DEF CancelInv, TimerTypeOK
  <2>4. QED
    BY <1>1, <2>1, <2>2, <2>3, Zenon DEF CancelInv, TimerTypeOK
<1>5. LockHeld'
  <2>1. \A h \in Thread : running'[h] # NULL => fn_lock_'[running'[h]] = h
    BY <1>1, <1>2, <1>3, Zenon DEF CancelInv, TimerTypeOK, LockHeld
  <2>2. ASSUME NEW e \in Canceller, call'[e].at = "locked"
        PROVE  fn_lock_'[call'[e].timer] = e
    <3>1. e # c
      BY <1>1, <2>2 DEF CancelInv, TimerTypeOK, NoCall
    <3>2. call'[e] = call[e] /\ fn_lock_[call[e].timer] = e
      BY <1>1, <2>2, <3>1, Zenon DEF CancelInv, TimerTypeOK, LockHeld
    <3>3. call[e].timer # m
      BY <1>2, <3>1, <3>2, Zenon
    <3>4. QED
      BY <1>1, <2>2, <3>2, <3>3, SMTT(60) DEF CancelInv, TimerTypeOK
  <2>3. QED
    BY <2>1, <2>2, Zenon DEF LockHeld
<1>6. SpentOnce'
  BY <1>1, <1>2 DEF CancelInv, TimerTypeOK, SpentOnce
<1>7. (\A n \in settled : ~active_[n])' /\ SettledIsOver'
  BY <1>1, <1>2, <1>3 DEF CancelInv, TimerTypeOK, SettledIsOver
<1>8. QED
  BY <1>4, <1>5, <1>6, <1>7, Zenon DEF CancelInv

\* __Cancel only takes the timer out of the tables.
LEMMA CancelEraseCancelInv ==
  ASSUME CancelInv, NEW c \in Canceller, CancelErase(c)
  PROVE  CancelInv'
<1> DEFINE m == call[c].timer
<1>1. /\ timers_' \subseteq timers_
      /\ deadlines_' = WithoutDeadline(m) \/ deadlines_' = deadlines_
      /\ call' = [call EXCEPT ![c] = NoCall]
      /\ UNCHANGED <<unborn, active_, fn_lock_, batch, running, fired, cancelled, settled>>
  BY Zenon DEF CancelErase, ghosts
<1>2. WithoutDeadline(m) \in Seq(Timer)
  <2> DEFINE at == {i \in 1..Len(deadlines_) : deadlines_[i] = m}
             i == CHOOSE j \in at : TRUE
  <2>1. deadlines_ \in Seq(Timer) /\ Len(deadlines_) \in Nat
    BY DEF CancelInv, TimerTypeOK
  <2>2. CASE at = {}
    BY <2>1, <2>2, Zenon DEF WithoutDeadline
  <2>3. CASE at # {}
    <3>1. i \in 1..Len(deadlines_)
      BY <2>3, SMTT(60)
    <3>2. WithoutDeadline(m) = SubSeq(deadlines_, 1, i - 1)
                                 \o SubSeq(deadlines_, i + 1, Len(deadlines_))
      BY <2>3, ZenonT(60) DEF WithoutDeadline
    <3> HIDE DEF i
    <3>3. QED
      BY <2>1, <3>1, <3>2, RemoveFacts, Zenon
  <2>4. QED
    BY <2>2, <2>3, Zenon
<1>3. TimerTypeOK'
  <2>1. deadlines_' \in Seq(Timer)
    BY <1>1, <1>2, Zenon DEF CancelInv, TimerTypeOK
  <2>2. QED
    BY <1>1, <2>1, Zenon DEF CancelInv, TimerTypeOK, NoCall
<1>4. LockHeld'
  BY <1>1, Zenon DEF CancelInv, TimerTypeOK, LockHeld, NoCall
<1>5. SpentOnce' /\ (\A n \in settled : ~active_[n])' /\ SettledIsOver'
  BY <1>1, Zenon DEF CancelInv, SpentOnce, SettledIsOver
<1>6. QED
  BY <1>3, <1>4, <1>5, Zenon DEF CancelInv

\* One step per action of the timers.
LEMMA StepCancelInv == CancelInv /\ [TNext]_tvars => CancelInv'
<1> SUFFICES ASSUME CancelInv, [TNext]_tvars PROVE CancelInv'
  BY Zenon
<1>1. CASE Tick
  <2>1. TimerTypeOK'
    BY <1>1, Zenon DEF CancelInv, TimerTypeOK, Tick, mgrvars, ghosts
  <2>2. QED
    BY <1>1, <2>1, TablesKeepCancelInv, Zenon DEF Tick, mgrvars, ghosts
<1>2. ASSUME NEW m \in Timer, NEW d \in Delay, ExpireAt(m, d) PROVE CancelInv'
  BY <1>2, ExpireAtCancelInv, Zenon
<1>3. ASSUME NEW h \in Thread, Serve(h) PROVE CancelInv'
  BY Zenon, <1>3, GetExpiredCancelInv, SkipCallbackCancelInv, EnterCallbackCancelInv,
     EndCallbackCancelInv DEF Serve
<1>4. ASSUME NEW c \in Canceller, NEW m \in Timer, NEW b \in BOOLEAN, CancelLock(c, m, b)
      PROVE  CancelInv'
  BY <1>4, CancelLockCancelInv, Zenon
<1>5. ASSUME NEW c \in Canceller, CancelSet(c) \/ CancelErase(c) PROVE CancelInv'
  BY <1>5, CancelSetCancelInv, CancelEraseCancelInv, Zenon
<1>6. CASE UNCHANGED tvars
  <2>1. TimerTypeOK'
    BY <1>6, Zenon DEF CancelInv, TimerTypeOK, tvars, mgrvars, ghosts
  <2>2. QED
    BY <1>6, <2>1, TablesKeepCancelInv, Zenon DEF tvars, mgrvars, ghosts
<1>7. QED
  BY <1>1, <1>2, <1>3, <1>4, <1>5, <1>6, Zenon DEF TNext

\* A cancel that returned true excludes the callback, and after BlockCancel
\* has returned no thread is in the callback, for every number of timers,
\* scheduler threads and cancellers, and with callbacks that throw
\* (CoTimer::operator(), Cancel and BlockCancel).
THEOREM CancelKeepsPromise == TSafety => []CancelExact
<1>1. CancelInv => CancelExact
  <2> SUFFICES ASSUME CancelInv PROVE CancelExact
    BY Zenon
  <2>1. ASSUME NEW m \in Timer PROVE fired[m] + cancelled[m] <= 1
    <3>1. fired[m] + cancelled[m] = IF active_[m] THEN 0 ELSE 1
      BY Zenon DEF CancelInv, SpentOnce
    <3>2. QED
      BY <3>1
  <2>2. QED
    BY <2>1, Zenon DEF CancelInv, CancelExact, FiredOrCancelled
<1>2. QED
  BY <1>1, InitCancelInv, StepCancelInv, PTL DEF TSafety

\* A settled timer stays settled and spent, so its callback is not entered
\* again: no step calls back a timer for which BlockCancel has returned.
THEOREM SettledNeverFires ==
  TSafety => [][\A m \in settled : fired'[m] = fired[m]]_tvars
<1>1. CancelInv /\ [TNext]_tvars
        => [\A m \in settled : fired'[m] = fired[m]]_tvars
  <2> SUFFICES ASSUME CancelInv, TNext, NEW m \in settled PROVE fired'[m] = fired[m]
    BY Zenon DEF tvars
  <2>1. ~active_[m]
    BY Zenon DEF CancelInv
  <2>2. ASSUME NEW h \in Thread, EnterCallback(h) PROVE fired'[m] = fired[m]
    <3>1. Head(batch[h]) # m
      BY <2>1, <2>2, Zenon DEF EnterCallback
    <3>2. QED
      BY <2>2, <3>1, Zenon DEF EnterCallback, CancelInv, TimerTypeOK
  <2>3. CASE UNCHANGED fired
    BY <2>3, SMTT(60)
  <2>4. UNCHANGED fired \/ \E h \in Thread : EnterCallback(h)
    BY ZenonT(60) DEF TNext, Serve, Tick, ExpireAt, GetExpired, SkipCallback, LeaveCallback,
       ThrowCallback, CancelLock, CancelSet, CancelErase, ghosts
  <2>5. QED
    BY <2>2, <2>3, <2>4, Zenon
<1>2. QED
  BY <1>1, InitCancelInv, StepCancelInv, PTL DEF TSafety

-----------------------------------------------------------------------------
(* The tables *)

\* deadlines_ lists the timers of timers_, each once, in order.
DeadlinesExact ==
  /\ NoRepeat(deadlines_)
  /\ \A m \in Timer : In(deadlines_, m) <=> m \in timers_
  /\ Sorted(deadlines_, next_time_point_)

\* A timer is not added yet, in the tables, in one batch or lost, or it has left
\* them all.
TimerInOnePlace ==
  /\ timers_ \cap unborn = {} /\ dropped \cap (timers_ \cup unborn) = {}
  /\ \A h \in Thread : NoRepeat(batch[h])
  /\ \A h \in Thread, m \in Timer :
       In(batch[h], m) => m \notin timers_ \cup unborn \cup dropped
  /\ \A h, g \in Thread, m \in Timer : In(batch[h], m) /\ In(batch[g], m) => h = g

\* A timer that was called has left them all.
CalledIsGone ==
  \A m \in Timer : fired[m] # 0 =>
    m \notin timers_ \cup unborn \cup dropped /\ \A h \in Thread : ~In(batch[h], m)

\* The inductive invariant for TimerExact.
TableInv ==
  /\ now \in Nat /\ next_time_point_ \in [Timer -> Nat] /\ dropped \subseteq Timer
  /\ DeadlinesExact
  /\ TimerInOnePlace
  /\ CalledIsGone

\* Positions that are closed downwards are the first ones.
LEMMA CountIsPrefix ==
  ASSUME NEW n \in Nat, NEW S \in SUBSET (1..n), \A j \in S : 1..j \subseteq S
  PROVE  S = 1..Cardinality(S)
<1> DEFINE c == Cardinality(S)
<1>1. c \in 0..n
  BY CountBounded, Zenon
<1>2. \A j \in Nat : IsFiniteSet(1..j) /\ Cardinality(1..j) = j
  BY FS_Interval
<1>3. IsFiniteSet(S)
  BY <1>2, FS_Subset, ZenonT(60)
<1> HIDE DEF c
<1>4. ASSUME NEW j \in S PROVE j <= c
  <2>1. j \in Nat /\ 1..j \subseteq S
    OBVIOUS
  <2>2. Cardinality(1..j) <= Cardinality(S)
    BY <1>3, <2>1, FS_Subset, Zenon
  <2>3. QED
    BY <1>2, <2>1, <2>2, Zenon DEF c
<1>5. S \subseteq 1..c
  BY <1>1, <1>4
<1>6. IsFiniteSet(1..c) /\ Cardinality(1..c) = Cardinality(S)
  BY <1>1, <1>2 DEF c
<1>7. S = 1..c
  BY <1>5, <1>6, FS_Subset, ZenonT(60)
<1>8. QED
  BY <1>7, Zenon DEF c

\* A list without repetitions has as many elements as positions.
LEMMA LengthIsSize ==
  ASSUME NEW T, NEW q \in Seq(T), NoRepeat(q)
  PROVE  Len(q) = Cardinality({q[i] : i \in 1..Len(q)})
<1> DEFINE D == 1..Len(q)
           R == {q[i] : i \in D}
           f == [i \in D |-> q[i]]
<1>1. Len(q) \in Nat /\ IsFiniteSet(D) /\ Cardinality(D) = Len(q)
  BY FS_Interval
<1>2. f \in Bijection(D, R)
  <2>1. f \in [D -> R] /\ \A i \in D : f[i] = q[i]
    BY Zenon
  <2>2. \A i, j \in D : f[i] = f[j] => i = j
    BY <2>1, Zenon DEF NoRepeat
  <2>3. \A u \in R : \E i \in D : f[i] = u
    BY <2>1, Zenon
  <2> HIDE DEF f, D, R
  <2>4. QED
    BY <2>1, <2>2, <2>3, Zenon DEF Bijection, Injection, Surjection, IsInjective
<1>3. ExistsBijection(D, R)
  BY <1>2, Zenon DEF ExistsBijection
<1>4. QED
  BY <1>1, <1>3, FS_Bijection, ZenonT(60)

\* ExpireAt: the timers before the place of insertion are not due later, those
\* behind it are.
LEMMA ExpireAtTableInv ==
  ASSUME CancelInv, TableInv, NEW m \in Timer, NEW d \in Delay, ExpireAt(m, d)
  PROVE  TableInv'
<1> DEFINE due == now + d
           S == {j \in 1..Len(deadlines_) : next_time_point_[deadlines_[j]] <= due}
<1> PICK n : n = Len(deadlines_)
  BY ZenonT(60)
<1> PICK i : i = Cardinality(S)
  BY ZenonT(60)
<1>1. /\ deadlines_ \in Seq(Timer) /\ n \in Nat /\ due \in Nat
      /\ \A j \in 1..n : deadlines_[j] \in Timer
  BY CoTimerAssumption, SMTT(60) DEF CancelInv, TimerTypeOK, TableInv
<1>2. S \in SUBSET (1..n) /\ \A j \in S : 1..j \subseteq S
  <2> SUFFICES ASSUME NEW j \in S, NEW l \in 1..j PROVE l \in S
    BY <1>1, Zenon
  <2>1. j \in 1..n /\ l \in 1..n /\ next_time_point_[deadlines_[j]] <= due
    BY <1>1, SMTT(60)
  <2>2. next_time_point_[deadlines_[l]] <= next_time_point_[deadlines_[j]]
    <3>1. j = l \/ l < j
      BY <1>1, <2>1
    <3>2. QED
      BY <1>1, <2>1, <3>1 DEF TableInv, DeadlinesExact, Sorted
  <2>3. /\ next_time_point_[deadlines_[l]] \in Nat
        /\ next_time_point_[deadlines_[j]] \in Nat
    BY <1>1, <2>1, Zenon DEF TableInv
  <2>4. QED
    BY <1>1, <2>1, <2>2, <2>3, SMTT(60)
<1>3. S = 1..i /\ i \in 0..n
  BY <1>1, <1>2, CountIsPrefix, CountBounded, ZenonT(60)
<1>4. /\ \A j \in 1..i : next_time_point_[deadlines_[j]] <= due
      /\ \A j \in (i + 1)..n : due <= next_time_point_[deadlines_[j]]
  <2>1. \A j \in 1..n : j \in S <=> next_time_point_[deadlines_[j]] <= due
    BY Zenon
  <2>2. \A j \in 1..n : next_time_point_[deadlines_[j]] \in Nat
    BY <1>1, Zenon DEF TableInv
  <2>3. \A j \in 1..i : j \in 1..n /\ j \in S
    BY <1>1, <1>3, Zenon
  <2> HIDE DEF S, due
  <2>4. \A j \in (i + 1)..n : j \in 1..n /\ j \notin S
    <3>1. \A j \in (i + 1)..n : j \in 1..n /\ j \notin 1..i
      BY <1>1, <1>3, SMTT(60)
    <3>2. QED
      BY <1>3, <3>1, ZenonT(60)
  <2>5. QED
    BY <1>1, <2>1, <2>2, <2>3, <2>4
<1>5. /\ m \in unborn /\ unborn' = unborn \ {m}
      /\ next_time_point_' = [next_time_point_ EXCEPT ![m] = due]
      /\ timers_' = timers_ \cup {m}
      /\ deadlines_' = SubSeq(deadlines_, 1, i) \o <<m>> \o SubSeq(deadlines_, i + 1, n)
      /\ UNCHANGED <<now, batch, fired, dropped>>
  BY ZenonT(60) DEF ExpireAt, ghosts
<1> HIDE DEF S, due
<1>6. NoRepeat(deadlines_) /\ ~In(deadlines_, m)
  BY <1>5, ZenonT(60) DEF TableInv, DeadlinesExact, TimerInOnePlace
<1>7. /\ NoRepeat(deadlines_')
      /\ \A u : In(deadlines_', u) <=> In(deadlines_, u) \/ u = m
      /\ \A f : Fits(deadlines_, i, m, f) => Sorted(deadlines_', f)
  <2>1. deadlines_' \in Seq(Timer) /\ Inserted(deadlines_', deadlines_, i, m)
    BY <1>1, <1>3, <1>5, InsertFacts, ZenonT(60)
  <2>2. i \in 0..Len(deadlines_)
    BY <1>3, Zenon
  <2>3. QED
    BY <1>1, <1>6, <2>1, <2>2, InsertKeeps, SMTT(60)
<1>8. DeadlinesExact'
  <2>1. /\ \A j \in 1..n : next_time_point_'[deadlines_[j]] = next_time_point_[deadlines_[j]]
        /\ next_time_point_'[m] = due
    BY <1>1, <1>5, <1>6, ZenonT(60) DEF TableInv, In
  <2>2. Sorted(deadlines_, next_time_point_')
    BY <2>1, Zenon DEF TableInv, DeadlinesExact, Sorted
  <2>3. /\ \A j \in 1..i : j \in 1..n
        /\ \A j \in (i + 1)..n : j \in 1..n
    BY <1>1, <1>3
  <2>4. Sorted(deadlines_', next_time_point_')
    <3>1. Fits(deadlines_, i, m, next_time_point_')
      BY <1>4, <2>1, <2>2, <2>3, SMTT(60) DEF Fits
    <3>2. QED
      BY <1>7, <3>1, ZenonT(60)
  <2>5. \A u \in Timer : In(deadlines_', u) <=> u \in timers_'
    BY <1>5, <1>7, ZenonT(60) DEF TableInv, DeadlinesExact
  <2>6. QED
    BY <1>7, <2>4, <2>5, ZenonT(60) DEF DeadlinesExact
<1>9. TimerInOnePlace' /\ CalledIsGone'
  BY <1>5, Zenon DEF TableInv, TimerInOnePlace, CalledIsGone
<1>10. now' \in Nat /\ next_time_point_' \in [Timer -> Nat] /\ dropped' \subseteq Timer
  BY <1>1, <1>5, ZenonT(60) DEF TableInv
<1>11. QED
  BY <1>8, <1>9, <1>10, Zenon DEF TableInv

\* GetExpired: the first k entries go to the batch of the thread.
LEMMA GetExpiredTableInv ==
  ASSUME CancelInv, TableInv, NEW h \in Thread, GetExpired(h)
  PROVE  TableInv'
<1> DEFINE S == {j \in 1..Len(deadlines_) : next_time_point_[deadlines_[j]] <= now}
           due == Cardinality(S)
<1> PICK n : n = Len(deadlines_)
  BY ZenonT(60)
<1> PICK k : k = IF due < Batch THEN due ELSE Batch
  BY ZenonT(60)
<1>1. deadlines_ \in Seq(Timer) /\ n \in Nat /\ \A j \in 1..n : deadlines_[j] \in Timer
  BY DEF CancelInv, TimerTypeOK
<1>2. k \in 0..n
  <2>1. due \in 0..n
    BY <1>1, CountBounded, Zenon
  <2> HIDE DEF due
  <2>2. QED
    BY <1>1, <2>1, CoTimerAssumption, SMTT(60)
<1> PICK a : a = SubSeq(deadlines_, 1, k)
  BY ZenonT(60)
<1>3. /\ deadlines_' = SubSeq(deadlines_, k + 1, n)
      /\ batch[h] = <<>> /\ batch' = [batch EXCEPT ![h] = a]
      /\ timers_' = timers_ \ {a[j] : j \in 1..k}
      /\ UNCHANGED <<now, next_time_point_, unborn, fired, dropped>>
  BY Zenon DEF GetExpired, ghosts
<1> HIDE DEF due
<1>4. NoRepeat(deadlines_)
  BY ZenonT(60) DEF TableInv, DeadlinesExact
<1>5. /\ a \in Seq(Timer) /\ Len(a) = k /\ deadlines_' \in Seq(Timer)
      /\ Part(a, deadlines_) /\ Part(deadlines_', deadlines_)
      /\ \A u : In(deadlines_, u) <=> In(a, u) \/ In(deadlines_', u)
      /\ \A u : ~(In(a, u) /\ In(deadlines_', u))
  BY <1>1, <1>2, <1>3, <1>4, Cut, Zenon
<1>6. /\ NoRepeat(a) /\ NoRepeat(deadlines_')
      /\ Sorted(deadlines_', next_time_point_)
  BY <1>1, <1>5, PartKeeps, ZenonT(60) DEF TableInv, DeadlinesExact
<1>7. \A u \in Timer : In(a, u) => u \in timers_
  BY <1>5, Zenon DEF TableInv, DeadlinesExact
<1>8. \A u : u \in timers_' <=> u \in timers_ /\ ~In(a, u)
  <2>1. \A u : In(a, u) <=> u \in {a[j] : j \in 1..k}
    <3>1. Len(a) = k
      BY <1>5, Zenon
    <3>2. QED
      BY <3>1, ZenonT(60) DEF In
  <2>2. QED
    BY <1>3, <2>1, ZenonT(60)
<1>9. DeadlinesExact'
  <2>1. \A u \in Timer : In(deadlines_', u) <=> u \in timers_'
    BY <1>5, <1>8, Zenon DEF TableInv, DeadlinesExact
  <2>2. QED
    BY <1>3, <1>6, <2>1, ZenonT(60) DEF DeadlinesExact
<1>10. batch'[h] = a /\ \A g \in Thread : g # h => batch'[g] = batch[g]
  BY <1>3, ZenonT(60) DEF CancelInv, TimerTypeOK
<1>11. \A u : ~In(batch[h], u)
  BY <1>3 DEF In
<1>12. TimerInOnePlace'
  <2>1. \A g \in Thread : NoRepeat(batch'[g])
    BY <1>6, <1>10, ZenonT(60) DEF TableInv, TimerInOnePlace
  <2>2. \A g \in Thread, u \in Timer :
          In(batch'[g], u) => u \notin timers_' \cup unborn' \cup dropped'
    <3> SUFFICES ASSUME NEW g \in Thread, NEW u \in Timer, In(batch'[g], u)
                 PROVE  u \notin timers_' \cup unborn \cup dropped
      BY <1>3, ZenonT(60)
    <3>1. CASE g = h
      BY <1>7, <1>8, <1>10, <3>1, ZenonT(60) DEF TableInv, TimerInOnePlace
    <3>2. CASE g # h
      BY <1>8, <1>10, <3>2, Zenon DEF TableInv, TimerInOnePlace
    <3>3. QED
      BY <3>1, <3>2, Zenon
  <2>3. \A f, g \in Thread, u \in Timer : In(batch'[f], u) /\ In(batch'[g], u) => f = g
    BY <1>7, <1>10, ZenonT(60) DEF TableInv, TimerInOnePlace
  <2>4. QED
    BY <1>3, <1>8, <2>1, <2>2, <2>3, ZenonT(60) DEF TableInv, TimerInOnePlace
<1>13. CalledIsGone'
  BY <1>3, <1>7, <1>8, <1>10, ZenonT(60) DEF TableInv, CalledIsGone
<1>14. QED
  BY <1>3, <1>9, <1>12, <1>13, Zenon DEF TableInv

\* What is left of a list without its head.
LEMMA TailFacts ==
  ASSUME NEW T, NEW q \in Seq(T), q # <<>>, NoRepeat(q)
  PROVE  /\ Head(q) \in T /\ In(q, Head(q)) /\ NoRepeat(Tail(q))
         /\ ~In(Tail(q), Head(q))
         /\ \A m : In(Tail(q), m) => In(q, m)
<1> PICK n : n = Len(q)
  BY Zenon
<1>1. /\ n \in Nat \ {0} /\ Head(q) = q[1] /\ q[1] \in T /\ Len(Tail(q)) = n - 1
      /\ \A j \in 1..(n - 1) : Tail(q)[j] = q[j + 1]
  OBVIOUS
<1>2. \A j \in 1..(n - 1) : j + 1 \in 1..n /\ j + 1 # 1
  BY <1>1
<1>3. 1 \in 1..n
  BY <1>1
<1>4. NoRepeat(Tail(q))
  BY <1>1, <1>2, SMTT(60) DEF NoRepeat
<1>5. QED
  BY <1>1, <1>2, <1>3, <1>4 DEF NoRepeat, In

\* SkipCallback and EnterCallback: the head leaves the batch, called or not.
LEMMA CallTableInv ==
  ASSUME CancelInv, TableInv, NEW h \in Thread, SkipCallback(h) \/ EnterCallback(h)
  PROVE  TableInv'
<1> PICK m : m = Head(batch[h])
  BY ZenonT(60)
<1>1. /\ batch[h] # <<>> /\ batch' = [batch EXCEPT ![h] = Tail(@)]
      /\ fired' = fired \/ fired' = [fired EXCEPT ![m] = @ + 1]
      /\ UNCHANGED <<now, next_time_point_, timers_, deadlines_, unborn, dropped>>
  BY ZenonT(60) DEF SkipCallback, EnterCallback, mgrvars, ghosts
<1>2. /\ batch \in [Thread -> Seq(Timer)] /\ fired \in [Timer -> Nat]
      /\ \A g \in Thread : NoRepeat(batch[g])
  BY ZenonT(60) DEF CancelInv, TimerTypeOK, TableInv, TimerInOnePlace
<1>3. /\ m \in Timer /\ In(batch[h], m) /\ NoRepeat(Tail(batch[h]))
      /\ ~In(Tail(batch[h]), m)
      /\ \A u : In(Tail(batch[h]), u) => In(batch[h], u)
  <2>1. batch[h] \in Seq(Timer) /\ NoRepeat(batch[h])
    BY <1>2, SMTT(60)
  <2>2. QED
    BY <1>1, <2>1, TailFacts, Zenon
<1>4. /\ \A g \in Thread : NoRepeat(batch'[g])
      /\ \A g \in Thread, u \in Timer : In(batch'[g], u) => In(batch[g], u)
      /\ ~In(batch'[h], m)
      /\ \A g \in Thread : g # h => batch'[g] = batch[g]
  BY <1>1, <1>2, <1>3, ZenonT(60)
<1>5. TimerInOnePlace'
  BY <1>1, <1>4, ZenonT(60) DEF TableInv, TimerInOnePlace
<1>6. \A g \in Thread : ~In(batch'[g], m)
  BY <1>3, <1>4, ZenonT(60) DEF TableInv, TimerInOnePlace
<1>7. m \notin timers_ \cup unborn \cup dropped
  BY <1>3, ZenonT(60) DEF TableInv, TimerInOnePlace
<1>8. CalledIsGone'
  <2>1. \A u \in Timer : u # m => fired'[u] = fired[u]
    BY <1>1, <1>2, <1>3, Zenon
  <2>2. QED
    BY <1>1, <1>4, <1>6, <1>7, <2>1, SMTT(60) DEF TableInv, CalledIsGone
<1>9. QED
  BY <1>1, <1>5, <1>8, Zenon DEF TableInv, DeadlinesExact

\* A callback that throws takes its batch with it.
LEMMA EndTableInv ==
  ASSUME CancelInv, TableInv, NEW h \in Thread, LeaveCallback(h) \/ ThrowCallback(h)
  PROVE  TableInv'
<1>1. CASE LeaveCallback(h)
  BY <1>1, SMTT(60) DEF LeaveCallback, mgrvars, ghosts, TableInv, DeadlinesExact,
     TimerInOnePlace, CalledIsGone
<1>2. CASE ThrowCallback(h)
  <2>1. /\ batch' = [batch EXCEPT ![h] = <<>>]
        /\ dropped' = dropped \cup {batch[h][i] : i \in 1..Len(batch[h])}
        /\ UNCHANGED <<now, next_time_point_, timers_, deadlines_, unborn, fired>>
    BY <1>2, Zenon DEF ThrowCallback, mgrvars
  <2>2. batch \in [Thread -> Seq(Timer)]
    BY Zenon DEF CancelInv, TimerTypeOK
  <2>3. \A u : u \in dropped' <=> u \in dropped \/ In(batch[h], u)
    BY <2>1, Zenon DEF In
  <2>4. \A u : In(batch[h], u) => u \in Timer
    BY <2>2 DEF In
  <2>5. /\ \A u : ~In(batch'[h], u)
        /\ NoRepeat(batch'[h])
        /\ \A g \in Thread : g # h => batch'[g] = batch[g]
    BY <2>1, <2>2, SMTT(60) DEF In, NoRepeat
  <2>6. TimerInOnePlace'
    BY <2>1, <2>3, <2>4, <2>5, ZenonT(60) DEF TableInv, TimerInOnePlace
  <2>7. CalledIsGone'
    BY <2>1, <2>3, <2>5, SMTT(60) DEF TableInv, CalledIsGone
  <2>8. QED
    BY <2>1, <2>3, <2>4, <2>6, <2>7, SMTT(60) DEF TableInv, DeadlinesExact
<1>3. QED
  BY <1>1, <1>2, ZenonT(60)

\* __Cancel: the entry of the timer leaves deadlines_ together with it.
LEMMA CancelEraseTableInv ==
  ASSUME CancelInv, TableInv, NEW c \in Canceller, CancelErase(c)
  PROVE  TableInv'
<1> PICK m : m = call[c].timer
  BY Zenon
<1> PICK n : n = Len(deadlines_)
  BY ZenonT(60)
<1>1. /\ m \in Timer /\ deadlines_ \in Seq(Timer) /\ n \in Nat
      /\ \A j \in 1..n : deadlines_[j] \in Timer
  BY SMTT(60) DEF CancelInv, TimerTypeOK, CancelErase
<1>2. UNCHANGED <<now, next_time_point_, unborn, batch, fired, dropped>>
  BY ZenonT(60) DEF CancelErase, ghosts
<1>3. CASE m \notin timers_
  <2>1. UNCHANGED <<timers_, deadlines_>>
    BY <1>3, ZenonT(60) DEF CancelErase
  <2>2. QED
    BY <1>2, <2>1, ZenonT(60) DEF TableInv, DeadlinesExact, TimerInOnePlace, CalledIsGone
<1>4. CASE m \in timers_
  <2>1. timers_' = timers_ \ {m} /\ deadlines_' = WithoutDeadline(m)
    BY <1>4, ZenonT(60) DEF CancelErase
  <2> DEFINE at == {j \in 1..n : deadlines_[j] = m}
  <2>2. at # {}
    BY <1>1, <1>4, SMTT(60) DEF TableInv, DeadlinesExact, In
  <2> PICK i : i = CHOOSE j \in at : TRUE
    BY Zenon
  <2>3. i \in 1..n /\ deadlines_[i] = m
    BY <2>2, SMTT(60)
  <2>4. deadlines_' = SubSeq(deadlines_, 1, i - 1) \o SubSeq(deadlines_, i + 1, n)
    BY <2>1, <2>2, ZenonT(60) DEF WithoutDeadline
  <2> HIDE DEF at
  <2>5. /\ deadlines_' \in Seq(Timer) /\ Part(deadlines_', deadlines_)
        /\ \A u : In(deadlines_', u) <=> In(deadlines_, u) /\ u # m
    <3>1. NoRepeat(deadlines_)
      BY Zenon DEF TableInv, DeadlinesExact
    <3>2. deadlines_' \in Seq(Timer) /\ Removed(deadlines_', deadlines_, i)
      BY <1>1, <2>3, <2>4, RemoveFacts, ZenonT(60)
    <3>3. QED
      BY <1>1, <2>3, <3>1, <3>2, RemoveKeeps, SMTT(60)
  <2>6. NoRepeat(deadlines_') /\ Sorted(deadlines_', next_time_point_)
    BY <1>1, <2>5, PartKeeps, ZenonT(60) DEF TableInv, DeadlinesExact
  <2>7. \A u \in Timer : In(deadlines_', u) <=> u \in timers_'
    BY <2>1, <2>5, Zenon DEF TableInv, DeadlinesExact
  <2>8. DeadlinesExact'
    BY <1>2, <2>6, <2>7, ZenonT(60) DEF DeadlinesExact
  <2>9. TimerInOnePlace' /\ CalledIsGone'
    BY <1>2, <2>1, Zenon DEF TableInv, TimerInOnePlace, CalledIsGone
  <2>10. QED
    BY <1>2, <2>8, <2>9, SMTT(60) DEF TableInv
<1>5. QED
  BY <1>3, <1>4, Zenon

\* The timers start with exact tables.
LEMMA InitTableInv == TInit => TableInv
<1> SUFFICES ASSUME TInit PROVE TableInv
  BY Zenon
<1>1. DeadlinesExact
  BY DEF TInit, DeadlinesExact, NoRepeat, In, Sorted
<1>2. TimerInOnePlace /\ CalledIsGone
  BY DEF TInit, TimerInOnePlace, CalledIsGone, NoRepeat, In
<1>3. QED
  BY <1>1, <1>2, Zenon DEF TInit, TableInv

\* No step of the timer, a callback or a cancel breaks the tables.
LEMMA StepTableInv == CancelInv /\ TableInv /\ [TNext]_tvars => TableInv'
<1> SUFFICES ASSUME CancelInv, TableInv, [TNext]_tvars PROVE TableInv'
  BY ZenonT(60)
<1>1. CASE Tick
  BY <1>1 DEF Tick, mgrvars, ghosts, TableInv, DeadlinesExact, TimerInOnePlace, CalledIsGone
<1>2. ASSUME NEW m \in Timer, NEW d \in Delay, ExpireAt(m, d) PROVE TableInv'
  BY <1>2, ExpireAtTableInv, Zenon
<1>3. ASSUME NEW h \in Thread, Serve(h) PROVE TableInv'
  BY <1>3, GetExpiredTableInv, CallTableInv, EndTableInv, Zenon DEF Serve
<1>4. ASSUME NEW c \in Canceller, CancelErase(c) PROVE TableInv'
  BY <1>4, CancelEraseTableInv, ZenonT(60)
<1>5. CASE UNCHANGED <<now, next_time_point_, timers_, deadlines_, unborn, batch, fired, dropped>>
  BY <1>5, Zenon DEF TableInv, DeadlinesExact, TimerInOnePlace, CalledIsGone
<1>6. QED
  BY <1>1, <1>2, <1>3, <1>4, <1>5, SMTT(60) DEF TNext, tvars, mgrvars, ghosts, CancelLock,
     CancelSet

\* timers_ and deadlines_ list the same timers, the latter in the order of their
\* time points, and a timer lost to a throwing callback is lost for good, for any
\* number of timers, threads and cancellers (ExpireAt, GetExpired, __Cancel and
\* the loop of DoTimer).
THEOREM TimersStayExact == TSafety => []TimerExact
<1>1. CancelInv /\ TableInv => TimerExact
  <2> SUFFICES ASSUME CancelInv, TableInv PROVE TimerExact
    BY SMTT(60)
  <2>1. deadlines_ \in Seq(Timer) /\ timers_ \subseteq Timer /\ dropped \subseteq Timer
    BY Zenon DEF CancelInv, TimerTypeOK, TableInv
  <2>2. {deadlines_[i] : i \in 1..Len(deadlines_)} = timers_
    BY <2>1, SMTT(60) DEF TableInv, DeadlinesExact, In
  <2>3. Len(deadlines_) = Cardinality(timers_)
    BY <2>1, <2>2, LengthIsSize, SMTT(60) DEF TableInv, DeadlinesExact
  <2>4. TablesAgree
    BY <2>2, <2>3, ZenonT(60) DEF TablesAgree, TableInv, DeadlinesExact, Sorted
  <2>5. DroppedNeverRuns
    BY <2>1, Zenon DEF DroppedNeverRuns, TableInv, TimerInOnePlace, CalledIsGone, In
  <2>6. QED
    BY <2>4, <2>5, Zenon DEF TimerExact
<1>2. QED
  BY <1>1, InitCancelInv, StepCancelInv, InitTableInv, StepTableInv, PTL DEF TSafety
=============================================================================
