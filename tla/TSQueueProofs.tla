--------------------------- MODULE TSQueueProofs ---------------------------
(***************************************************************************)
(* The pointers of TSQueue and SList stand for sequences, for every set of *)
(* elements, queues and owners: the inductive invariant, that push, pop,   *)
(* the two erase and the iterator preserve it, then the operations on an   *)
(* SList, and the theorem.                                                 *)
(***************************************************************************)
EXTENDS TSQueue, Integers, TLAPS

QTypeOK ==
  /\ prev \in [Hook -> Hook \cup {null}]
  /\ next \in [Hook -> Elem \cup {null}]
  /\ check_ \in [Elem -> Queue \cup {null}]
  /\ tail_ \in [Queue -> Hook]
  /\ count_ \in [Queue -> Nat]
  /\ piece \in [Owner -> [head_ : Elem \cup {null}, tail_ : Elem \cup {null},
                          count_ : Nat, check_ : Queue \cup {null}]]
  /\ it \in [Owner -> Elem \cup {null}]
  /\ loop \in [Owner -> [q : Queue \cup {null}, n : Nat, c : Nat,
                         last : Elem \cup {null}]]
  /\ list \in [Holder -> Seq(Elem)]
  /\ pos \in [Owner -> Nat \ {0}]

\* An element is in one list, at one place.
Once ==
  \A x, y \in Holder : \A i \in 1..Len(list[x]), j \in 1..Len(list[y]) :
    list[x][i] = list[y][j] => x = y /\ i = j

\* An owner without an SList has no elements, and one inside pop(n) is such.
PieceOwned ==
  \A o \in Owner :
    /\ piece[o].check_ = null => piece[o] = NoPiece /\ list[o] = <<>>
    /\ loop[o].q # null => piece[o].check_ = null
    /\ pos[o] <= Len(list[o]) + 1

\* The loop of pop(n) is at element c of the queue, which nobody else is in.
LoopExact ==
  \A o \in Owner :
    /\ loop[o].q = null => loop[o] = NoLoop
    /\ loop[o].q # null =>
         /\ loop[o].c \in 1..Len(list[loop[o].q])
         /\ loop[o].last = list[loop[o].q][loop[o].c]
         /\ \A p \in Owner : loop[p].q = loop[o].q => p = o

QInv == QTypeOK /\ Once /\ PieceOwned /\ LoopExact /\ ListsLinked

-----------------------------------------------------------------------------

\* What Append, \o, SubSeq and Without return, element by element.
LEMMA AppendFacts ==
  ASSUME NEW S, NEW s \in Seq(S), NEW e \in S
  PROVE  /\ Append(s, e) \in Seq(S)
         /\ Len(Append(s, e)) = Len(s) + 1
         /\ \A i \in 1..Len(s) : Append(s, e)[i] = s[i]
         /\ Append(s, e)[Len(s) + 1] = e
  BY SMT

\* What a list holds once an element is appended.
LEMMA AppendIn ==
  ASSUME NEW S, NEW s \in Seq(S), NEW e \in S, NEW x
  PROVE  In(x, Append(s, e)) <=> x = e \/ In(x, s)
  <1>1. Len(s) \in Nat
    OBVIOUS
  <1> DEFINE t == Append(s, e)
  <1>2. /\ Len(t) = Len(s) + 1
        /\ \A i \in 1..Len(s) : t[i] = s[i]
        /\ t[Len(s) + 1] = e
    BY AppendFacts
  <1> HIDE DEF t
  <1>3. In(x, t) => x = e \/ In(x, s)
    BY <1>1, <1>2 DEF In
  <1>4. In(x, s) => In(x, t)
    BY <1>1, <1>2 DEF In
  <1>5. x = e => In(x, t)
    BY <1>1, <1>2 DEF In
  <1> QED
    BY <1>3, <1>4, <1>5, Zenon DEF t

\* The length and the elements of two lists joined.
LEMMA CatFacts ==
  ASSUME NEW S, NEW s \in Seq(S), NEW t \in Seq(S)
  PROVE  /\ s \o t \in Seq(S)
         /\ Len(s \o t) = Len(s) + Len(t)
         /\ \A i \in 1..Len(s) : (s \o t)[i] = s[i]
         /\ \A i \in 1..Len(t) : (s \o t)[Len(s) + i] = t[i]
  BY SMT

\* The length and the elements of the two parts of a list cut behind place c.
LEMMA SubFacts ==
  ASSUME NEW S, NEW s \in Seq(S), NEW c \in 1..Len(s)
  PROVE  /\ SubSeq(s, 1, c) \in Seq(S) /\ Len(SubSeq(s, 1, c)) = c
         /\ \A i \in 1..c : SubSeq(s, 1, c)[i] = s[i]
         /\ SubSeq(s, c + 1, Len(s)) \in Seq(S)
         /\ Len(SubSeq(s, c + 1, Len(s))) = Len(s) - c
         /\ \A i \in 1..(Len(s) - c) : SubSeq(s, c + 1, Len(s))[i] = s[c + i]
  <1>1. Len(s) \in Nat
    OBVIOUS
  <1>2. \A i \in 1..Len(s) : s[i] \in S
    OBVIOUS
  <1>3. SubSeq(s, 1, c) = [i \in 1..c |-> s[i]]
    BY <1>1, SMT
  <1>4. SubSeq(s, c + 1, Len(s)) = [i \in 1..(Len(s) - c) |-> s[c + i]]
    BY <1>1, SMT
  <1>5. SubSeq(s, 1, c) \in Seq(S) /\ SubSeq(s, c + 1, Len(s)) \in Seq(S)
    BY <1>1, <1>2, <1>3, <1>4
  <1> QED
    BY <1>1, <1>3, <1>4, <1>5

\* The length and the elements of a list without its i-th element.
LEMMA WithoutFacts ==
  ASSUME NEW S, NEW s \in Seq(S), NEW i \in 1..Len(s)
  PROVE  /\ Without(s, i) \in Seq(S)
         /\ Len(Without(s, i)) = Len(s) - 1
         /\ \A j \in 1..(Len(s) - 1) :
              Without(s, i)[j] = IF j < i THEN s[j] ELSE s[j + 1]
  <1>1. Len(s) \in Nat /\ Len(s) - 1 \in Nat
    OBVIOUS
  <1>2. \A j \in 1..Len(s) : s[j] \in S
    OBVIOUS
  <1>3. Without(s, i) \in [1..(Len(s) - 1) -> S]
    BY <1>1, <1>2 DEF Without
  <1>4. Without(s, i) \in Seq(S)
    BY <1>1, <1>3
  <1>5. Len(Without(s, i)) = Len(s) - 1
    BY <1>1, <1>3, <1>4
  <1> QED
    BY <1>4, <1>5, Zenon DEF Without

\* The queues start empty and linked.
LEMMA QInitInv == QInit => QInv
  <1> SUFFICES ASSUME QInit PROVE QInv
    BY Zenon
  <1> USE TSQueueAssumption
  <1>1. QTypeOK
    BY DEF QInit, QTypeOK, Hook, Holder, NoPiece, NoLoop
  <1>2. \A x \in Holder : list[x] = <<>> /\ Len(list[x]) = 0
    BY Zenon DEF QInit, Holder
  <1>3. Once /\ PieceOwned /\ LoopExact
    BY <1>2 DEF QInit, Once, PieceOwned, LoopExact, NoPiece, NoLoop, Holder
  <1>4. ASSUME NEW q \in Queue PROVE QueueLinked(q)
    BY <1>2 DEF QInit, QueueLinked, Links, Hook, Holder
  <1>5. ASSUME NEW o \in Owner PROVE PieceLinked(o)
    BY <1>2 DEF QInit, PieceLinked, Links, NoPiece, Holder
  <1>6. CheckExact
    BY <1>2 DEF QInit, CheckExact, In, NoPiece, Holder
  <1> QED
    BY <1>1, <1>3, <1>4, <1>5, <1>6, Zenon DEF QInv, ListsLinked

\* The elements of a list are elements, and hooks; a null is neither.
LEMMA ListFacts ==
  ASSUME QTypeOK
  PROVE  /\ \A x \in Holder : list[x] \in Seq(Elem) /\ Len(list[x]) \in Nat
         /\ \A x \in Holder : list[x] = <<>> <=> Len(list[x]) = 0
         /\ \A x \in Holder : \A i \in 1..Len(list[x]) :
              list[x][i] \in Elem /\ list[x][i] \in Hook
         /\ Queue \subseteq Holder /\ Owner \subseteq Holder
         /\ Elem \subseteq Hook /\ Queue \subseteq Hook
         /\ null \notin Hook /\ Elem \cap Queue = {} /\ Queue \cap Owner = {}
  <1>1. \A x \in Holder : list[x] \in Seq(Elem)
    BY Zenon DEF QTypeOK
  <1> QED
    BY <1>1, TSQueueAssumption DEF Hook, Holder

\* A queue, or an SList, none of whose hooks changes keeps its pointers.
LEMMA QueueFrame ==
  ASSUME QTypeOK, NEW x \in Queue, QueueLinked(x),
         list'[x] = list[x], tail_'[x] = tail_[x], count_'[x] = count_[x],
         next'[x] = next[x],
         \A i \in 1..Len(list[x]) : /\ next'[list[x][i]] = next[list[x][i]]
                                    /\ prev'[list[x][i]] = prev[list[x][i]]
  PROVE  QueueLinked(x)'
  BY DEF QueueLinked, Links

\* The same of an SList.
LEMMA PieceFrame ==
  ASSUME QTypeOK, NEW o \in Owner, PieceLinked(o),
         list'[o] = list[o], piece'[o] = piece[o], it'[o] = it[o], pos'[o] = pos[o],
         \A i \in 1..Len(list[o]) : /\ next'[list[o][i]] = next[list[o][i]]
                                    /\ prev'[list[o][i]] = prev[list[o][i]]
  PROVE  PieceLinked(o)'
  BY DEF PieceLinked, Links

\* A step that leaves the elements, check_ and the SLists where they are.
LEMMA SameLists ==
  ASSUME Once, CheckExact, UNCHANGED <<list, check_, piece>>
  PROVE  Once' /\ CheckExact'
  <1>1. list' = list /\ check_' = check_ /\ piece' = piece
    BY Zenon
  <1>2. Once'
    BY <1>1, Zenon DEF Once
  <1>3. CheckExact'
    BY <1>1 DEF CheckExact, In
  <1> QED
    BY <1>2, <1>3, Zenon

\* An owner without an SList has null pointers and no elements.
LEMMA NoPieceFields ==
  NoPiece.head_ = null /\ NoPiece.tail_ = null /\ NoPiece.count_ = 0 /\ NoPiece.check_ = null
  BY DEF NoPiece

\* push keeps the invariant.
LEMMA PushInv ==
  ASSUME QInv, NEW q \in Queue, NEW e \in Elem, push(q, e)
  PROVE  QInv'
  <1> DEFINE s == list[q]
             t == Append(s, e)
  <1>a. QTypeOK /\ Once /\ PieceOwned /\ LoopExact /\ CheckExact
    BY Zenon DEF QInv, ListsLinked
  <1>b. \A x \in Queue : QueueLinked(x)
    BY Zenon DEF QInv, ListsLinked
  <1>c. \A o \in Owner : PieceLinked(o)
    BY Zenon DEF QInv, ListsLinked
  <1>1. /\ t \in Seq(Elem) /\ Len(t) = Len(s) + 1 /\ t # <<>>
        /\ \A i \in 1..Len(s) : t[i] = s[i]
        /\ t[Len(s) + 1] = e
    <2>1. s \in Seq(Elem) /\ Len(s) \in Nat
      BY <1>a, ListFacts, Zenon
    <2> HIDE DEF s
    <2>2. /\ t \in Seq(Elem) /\ Len(t) = Len(s) + 1
          /\ \A i \in 1..Len(s) : t[i] = s[i]
          /\ t[Len(s) + 1] = e
      BY <2>1, AppendFacts
    <2> HIDE DEF t
    <2>3. t # <<>>
      BY <2>1, <2>2
    <2> QED
      BY <2>2, <2>3, Zenon
  <1> USE <1>a, ListFacts
  <1>2. /\ list' = [list EXCEPT ![q] = t]
        /\ list'[q] = t /\ \A x \in Holder : x # q => list'[x] = list[x]
    BY Zenon DEF push, QTypeOK
  <1>3. \A x \in Holder : \A i \in 1..Len(list[x]) : list[x][i] # e
    BY Zenon DEF push, Unlinked, In
  <1>4. \A o \in Owner : loop[o].q # q
    BY Zenon DEF push, Locked
  <1>5. tail_[q] = IF s = <<>> THEN q ELSE s[Len(s)]
    BY <1>b, Zenon DEF QueueLinked
  <1> HIDE DEF s, t
  <1>6. tail_[q] \in Hook /\ tail_[q] # e
    BY <1>3, <1>5 DEF s, QTypeOK
  <1>7. /\ next'[tail_[q]] = e /\ next'[e] = null
        /\ \A x \in Hook : x # e /\ x # tail_[q] => next'[x] = next[x]
        /\ prev'[e] = tail_[q] /\ \A x \in Hook : x # e => prev'[x] = prev[x]
    BY <1>6, Zenon DEF push, QTypeOK
  <1>8. /\ check_'[e] = q /\ \A x \in Elem : x # e => check_'[x] = check_[x]
        /\ tail_'[q] = e /\ \A x \in Queue : x # q => tail_'[x] = tail_[x]
        /\ count_'[q] = count_[q] + 1
        /\ \A x \in Queue : x # q => count_'[x] = count_[x]
        /\ UNCHANGED <<piece, it, pos, loop>>
    BY Zenon DEF push, pieces, QTypeOK
  <1>9. \A x \in Holder : x # q => \A i \in 1..Len(list[x]) :
           list[x][i] # tail_[q]
    BY <1>5 DEF Once, s
  <1>10. QTypeOK'
    <2>1. prev' \in [Hook -> Hook \cup {null}] /\ next' \in [Hook -> Elem \cup {null}]
      BY <1>6, SMTT(60) DEF push, QTypeOK
    <2>2. list' \in [Holder -> Seq(Elem)]
      BY <1>1, <1>2, Zenon DEF QTypeOK
    <2>3. /\ check_' \in [Elem -> Queue \cup {null}]
          /\ tail_' \in [Queue -> Hook] /\ count_' \in [Queue -> Nat]
      BY DEF push, QTypeOK
    <2> QED
      BY <2>1, <2>2, <2>3, <1>8, Zenon DEF QTypeOK
  <1>11. Once'
    BY <1>1, <1>2, <1>3, SMTT(60) DEF Once, s
  <1>12. PieceOwned'
    BY <1>2, <1>8, ZenonT(60) DEF PieceOwned
  <1>13. LoopExact'
    BY <1>2, <1>4, <1>8, SMTT(60) DEF LoopExact, QTypeOK
  <1>14. ASSUME NEW x \in Queue PROVE QueueLinked(x)'
    <2>1. CASE x = q
      <3>1. QueueLinked(q)
        BY <1>b, Zenon
      <3>2. count_'[q] = Len(t) /\ tail_'[q] = t[Len(t)]
        BY <1>1, <1>8, <3>1, Zenon DEF QueueLinked, s
      <3>3. next'[q] = t[1]
        BY <1>1, <1>5, <1>7, <3>1 DEF QueueLinked, s
      <3>4. ASSUME NEW i \in 1..Len(t)
            PROVE  /\ prev'[t[i]] = IF i = 1 THEN q ELSE t[i - 1]
                   /\ next'[t[i]] = IF i = Len(t) THEN null ELSE t[i + 1]
        <4>1. CASE i = Len(s) + 1
          BY <4>1, <1>1, <1>5, <1>7, SMTT(60) DEF s
        <4>2. CASE i \in 1..Len(s)
          <5>1. /\ prev[s[i]] = IF i = 1 THEN q ELSE s[i - 1]
                /\ next[s[i]] = IF i = Len(s) THEN null ELSE s[i + 1]
            BY <4>2, <3>1, Zenon DEF QueueLinked, Links, s
          <5>2. s[i] # e /\ s[i] \in Hook /\ (i < Len(s) => s[i] # tail_[q])
            BY <4>2, <1>3, <1>5 DEF s, Once
          <5>3. i = Len(s) => s[i] = tail_[q]
            BY <4>2, <1>5 DEF s
          <5> QED
            BY <4>2, <1>1, <1>7, <5>1, <5>2, <5>3, SMTT(60) DEF s
        <4> QED
          BY <1>1, <4>1, <4>2 DEF s
      <3>5. list'[q] = t /\ t # <<>>
        BY <1>1, <1>2
      <3> QED
        BY <2>1, <3>2, <3>3, <3>4, <3>5, Zenon DEF QueueLinked, Links
    <2>2. CASE x # q
      <3>1. QueueLinked(x)
        BY <1>b, Zenon
      <3>2. x # e /\ x # tail_[q]
        BY <2>2, <1>5 DEF s
      <3> QED
        BY <2>2, <1>2, <1>3, <1>7, <1>8, <1>9, <3>1, <3>2, QueueFrame
    <2> QED
      BY <2>1, <2>2, Zenon
  <1>15. ASSUME NEW o \in Owner PROVE PieceLinked(o)'
    BY <1>c, <1>2, <1>3, <1>7, <1>8, <1>9, PieceFrame
  <1>16. CheckExact'
    <2>1. ASSUME NEW x \in Elem, NEW y \in Queue
          PROVE  (check_'[x] = y) <=>
                    \/ In(x, list'[y])
                    \/ \E o \in Owner : piece'[o].check_ = y /\ In(x, list'[o])
      <3>1. check_[x] = y <=>
              In(x, list[y]) \/ \E o \in Owner : piece[o].check_ = y /\ In(x, list[o])
        BY Zenon DEF CheckExact
      <3>2. \A o \in Owner : list'[o] = list[o]
        BY <1>2, Zenon
      <3>3. In(x, t) <=> (x = e \/ In(x, s))
        BY <1>1, AppendIn, Zenon DEF s, t
      <3>4. ~In(e, list[y]) /\ \A o \in Owner : ~In(e, list[o])
        BY <1>3, ZenonT(60) DEF In
      <3> QED
        BY <1>2, <1>8, <3>1, <3>2, <3>3, <3>4 DEF s
    <2> QED
      BY <2>1, ZenonT(60) DEF CheckExact, In
  <1> QED
    BY <1>10, <1>11, <1>12, <1>13, <1>14, <1>15, <1>16, Zenon DEF QInv, ListsLinked

\* What the first hook of a list links back to.
Before(x) == IF x \in Queue THEN x ELSE null

\* The hook number i of the list of x is unlinked: what pop and the two erase do.
Unlink(x, i) ==
  LET e == list[x][i] IN
  /\ next' = [Put(next, prev[e], next[e]) EXCEPT ![e] = null]
  /\ prev' = [Put(prev, next[e], prev[e]) EXCEPT ![e] = null]
  /\ list' = [list EXCEPT ![x] = Without(list[x], i)]

\* What is so after it.
IsUnlinked(x, i) ==
  /\ prev' \in [Hook -> Hook \cup {null}]
  /\ next' \in [Hook -> Elem \cup {null}]
  /\ list' \in [Holder -> Seq(Elem)]
  /\ Once'
  /\ Links(list[x], Before(x))'
  /\ x \in Queue => next'[x] = IF list'[x] = <<>> THEN null ELSE list'[x][1]
  /\ list'[x] = Without(list[x], i)
  /\ \A y \in Holder : y # x =>
       /\ list'[y] = list[y]
       /\ \A j \in 1..Len(list[y]) : /\ next'[list[y][j]] = next[list[y][j]]
                                     /\ prev'[list[y][j]] = prev[list[y][j]]
  /\ \A y \in Queue : y # x => next'[y] = next[y]
  /\ \A z \in Elem : In(z, list'[x]) <=> In(z, list[x]) /\ z # list[x][i]

\* Unlinking an element joins its neighbours and changes no other pointer.
LEMMA UnlinkFacts ==
  ASSUME QTypeOK, Once, NEW x \in Holder, Links(list[x], Before(x)),
         x \in Queue => next[x] = IF list[x] = <<>> THEN null ELSE list[x][1],
         NEW i \in 1..Len(list[x]), Unlink(x, i)
  PROVE  IsUnlinked(x, i)
  <1> DEFINE s == list[x]
             t == Without(list[x], i)
             e == list[x][i]
             n == Len(list[x])
  <1>1. n \in Nat /\ i \in 1..n /\ n - 1 \in Nat
    BY ListFacts
  <1>2. /\ t \in Seq(Elem) /\ Len(t) = n - 1
        /\ \A j \in 1..(n - 1) : t[j] = IF j < i THEN s[j] ELSE s[j + 1]
    BY WithoutFacts, ListFacts, ZenonT(60)
  <1>3. \A j \in 1..n : s[j] \in Elem /\ s[j] \in Hook /\ s[j] # null
    BY ListFacts, Zenon
  <1>4. \A j, k \in 1..n : s[j] = s[k] => j = k
    BY ZenonT(60) DEF Once
  <1>5. \A j \in 1..n : /\ prev[s[j]] = IF j = 1 THEN Before(x) ELSE s[j - 1]
                        /\ next[s[j]] = IF j = n THEN null ELSE s[j + 1]
    BY Zenon DEF Links
  <1>6. Before(x) \in Queue \cup {null} /\ Before(x) \notin Elem
    BY ListFacts, Zenon DEF Before
  <1>7. list'[x] = t /\ \A y \in Holder : y # x => list'[y] = list[y]
    BY Zenon DEF Unlink, QTypeOK
  <1>8. \A y \in Holder : y # x =>
          \A j \in 1..Len(list[y]), k \in 1..n : list[y][j] # s[k]
    BY Zenon DEF Once
  <1>9. /\ e = s[i]
        /\ prev[e] = IF i = 1 THEN Before(x) ELSE s[i - 1]
        /\ next[e] = IF i = n THEN null ELSE s[i + 1]
    BY <1>5, Zenon
  <1>10. /\ next \in [Hook -> Elem \cup {null}] /\ prev \in [Hook -> Hook \cup {null}]
         /\ next' = [Put(next, prev[e], next[e]) EXCEPT ![e] = null]
         /\ prev' = [Put(prev, next[e], prev[e]) EXCEPT ![e] = null]
    BY Zenon DEF Unlink, QTypeOK
  <1>11. list' \in [Holder -> Seq(Elem)]
    BY <1>2, Zenon DEF Unlink, QTypeOK
  <1>12. \A y \in Holder : y # x => \A j \in 1..Len(list[y]) : list[y][j] \in Elem /\ list[y][j] \in Hook
    BY ListFacts, Zenon
  <1>13. \A y \in Queue : y \in Hook /\ y \notin Elem /\ y # null
    BY ListFacts, Zenon
  <1> HIDE DEF s, t, e, n
  <1>a. e \in Hook /\ null \notin Hook
    BY ListFacts, Zenon DEF e
  <1>b. \A j \in 1..(n - 1) :
          /\ j \in 1..n /\ j + 1 \in 1..n
          /\ j < i => t[j] = s[j]
          /\ j >= i => t[j] = s[j + 1]
    BY <1>1, <1>2
  <1>14. prev[e] \in Hook \cup {null} /\ next[e] \in Elem \cup {null} /\ e \in Elem
    BY <1>a, <1>1, <1>3, <1>9, <1>10, Zenon
  <1>15. /\ next' \in [Hook -> Elem \cup {null}]
         /\ next'[e] = null
         /\ prev[e] # null /\ prev[e] # e => next'[prev[e]] = next[e]
         /\ \A h \in Hook : h # e /\ h # prev[e] => next'[h] = next[h]
    BY <1>a, <1>10, <1>14, Zenon DEF Put
  <1>16. /\ prev' \in [Hook -> Hook \cup {null}]
         /\ prev'[e] = null
         /\ next[e] # null /\ next[e] # e => prev'[next[e]] = prev[e]
         /\ \A h \in Hook : h # e /\ h # next[e] => prev'[h] = prev[h]
    <2>1. next[e] # null => next[e] \in Hook
      BY <1>14, ListFacts, Zenon
    <2>2. CASE next[e] = null
      BY <2>2, <1>a, <1>10, <1>14, Zenon DEF Put
    <2>3. CASE next[e] # null
      BY <2>1, <2>3, <1>a, <1>10, <1>14, Zenon DEF Put
    <2> QED
      BY <2>2, <2>3, Zenon
  <1>17. Once'
    <2> SUFFICES ASSUME NEW y \in Holder, NEW z \in Holder,
                        NEW j \in 1..Len(list'[y]), NEW k \in 1..Len(list'[z]),
                        list'[y][j] = list'[z][k]
                 PROVE  y = z /\ j = k
      BY Zenon DEF Once
    <2>a. y = x => \E k1 \in 1..n : list'[y][j] = s[k1] /\ k1 = IF j < i THEN j ELSE j + 1
      BY <1>1, <1>2, <1>7, <1>b
    <2>b. z = x => \E k1 \in 1..n : list'[z][k] = s[k1] /\ k1 = IF k < i THEN k ELSE k + 1
      BY <1>1, <1>2, <1>7, <1>b, SMTT(60)
    <2>1. CASE y = x /\ z = x
      <3>1. (IF j < i THEN j ELSE j + 1) = (IF k < i THEN k ELSE k + 1)
        BY <2>1, <2>a, <2>b, <1>4, Zenon
      <3>2. j \in 1..(n - 1) /\ k \in 1..(n - 1)
        BY <2>1, <1>2, <1>7, Zenon
      <3> QED
        BY <2>1, <3>1, <3>2, <1>1
    <2>2. CASE y = x /\ z # x
      BY <2>2, <2>a, <1>7, <1>8
    <2>3. CASE y # x /\ z = x
      BY <2>3, <2>b, <1>7, <1>8
    <2>4. CASE y # x /\ z # x
      BY <2>4, <1>7, SMTT(60) DEF Once
    <2> QED
      BY <2>1, <2>2, <2>3, <2>4, Zenon
  <1>18. ASSUME NEW j \in 1..(n - 1)
         PROVE  /\ prev'[t[j]] = IF j = 1 THEN Before(x) ELSE t[j - 1]
                /\ next'[t[j]] = IF j = n - 1 THEN null ELSE t[j + 1]
    <2>a. j \in 1..n /\ j + 1 \in 1..n /\ j \in Int
      BY <1>1
    <2>1. prev'[t[j]] = IF j = 1 THEN Before(x) ELSE t[j - 1]
      <3>1. CASE j < i
        <4>1. t[j] = s[j] /\ s[j] # e /\ s[j] \in Hook
          BY <3>1, <2>a, <1>1, <1>3, <1>4, <1>9, <1>b
        <4>2. s[j] # next[e]
          BY <3>1, <2>a, <1>1, <1>3, <1>4, <1>9, SMTT(60)
        <4>3. prev'[t[j]] = IF j = 1 THEN Before(x) ELSE s[j - 1]
          BY <4>1, <4>2, <2>a, <1>5, <1>16, SMTT(60)
        <4>4. j # 1 => j - 1 \in 1..(n - 1) /\ j - 1 < i
          BY <3>1, <1>1
        <4> QED
          BY <4>3, <4>4, <1>b, Zenon
      <3>2. CASE j = i
        <4>1. t[j] = s[i + 1] /\ next[e] = s[i + 1] /\ next[e] # e /\ next[e] # null
          BY <3>2, <2>a, <1>1, <1>3, <1>4, <1>9, <1>b, SMTT(60)
        <4>2. prev'[t[j]] = IF i = 1 THEN Before(x) ELSE s[i - 1]
          BY <4>1, <1>9, <1>16, ZenonT(60)
        <4>3. i # 1 => i - 1 \in 1..(n - 1) /\ i - 1 < i
          BY <1>1, SMTT(60)
        <4> QED
          BY <3>2, <4>2, <4>3, <1>b, Zenon
      <3>3. CASE j > i
        <4>1. t[j] = s[j + 1] /\ s[j + 1] # e /\ s[j + 1] # next[e] /\ s[j + 1] \in Hook
          BY <3>3, <2>a, <1>1, <1>3, <1>4, <1>9, <1>b
        <4>2. prev[s[j + 1]] = s[j]
          BY <2>a, <1>5
        <4>3. j - 1 \in 1..(n - 1) /\ j - 1 >= i /\ (j - 1) + 1 = j
          BY <3>3, <1>1
        <4>4. t[j - 1] = s[j]
          BY <4>3, <1>b, ZenonT(60)
        <4> QED
          BY <3>3, <4>1, <4>2, <4>4, <1>1, <1>16
      <3> QED
        BY <1>1, <3>1, <3>2, <3>3
    <2>2. next'[t[j]] = IF j = n - 1 THEN null ELSE t[j + 1]
      <3>1. CASE j < i - 1
        <4>1. t[j] = s[j] /\ s[j] # e /\ s[j] # prev[e] /\ s[j] \in Hook
          BY <3>1, <2>a, <1>1, <1>3, <1>4, <1>6, <1>9, <1>b, SMTT(60)
        <4>2. j # n - 1 /\ j # n /\ j + 1 \in 1..(n - 1) /\ j + 1 < i
          BY <3>1, <1>1, SMTT(60)
        <4>3. next[s[j]] = s[j + 1] /\ t[j + 1] = s[j + 1]
          BY <4>2, <2>a, <1>5, <1>b, Zenon
        <4> QED
          BY <4>1, <4>2, <4>3, <1>15, ZenonT(60)
      <3>2. CASE j = i - 1
        <4>1. t[j] = s[j] /\ prev[e] = s[j] /\ prev[e] # e /\ prev[e] # null
          BY <3>2, <2>a, <1>1, <1>3, <1>4, <1>9, <1>b, SMTT(60)
        <4>2. CASE i = n
          BY <3>2, <4>1, <4>2, <1>1, <1>9, <1>15, ZenonT(60)
        <4>3. CASE i # n
          <5>1. j + 1 = i /\ j # n - 1 /\ i \in 1..(n - 1)
            BY <3>2, <4>3, <1>1
          <5>2. next[e] = s[i + 1] /\ t[i] = s[i + 1]
            BY <4>3, <5>1, <1>9, <1>b, SMTT(60)
          <5> QED
            BY <4>1, <5>1, <5>2, <1>15, Zenon
        <4> QED
          BY <4>2, <4>3, ZenonT(60)
      <3>3. CASE j >= i
        <4>1. t[j] = s[j + 1] /\ s[j + 1] # e /\ s[j + 1] # prev[e] /\ s[j + 1] \in Hook
          BY <3>3, <2>a, <1>1, <1>3, <1>4, <1>6, <1>9, <1>b, SMTT(60)
        <4>2. next[s[j + 1]] = IF j + 1 = n THEN null ELSE s[(j + 1) + 1]
          BY <2>a, <1>5, Zenon
        <4>3. j + 1 # n => j + 1 \in 1..(n - 1) /\ j + 1 >= i
          BY <3>3, <1>1
        <4>4. j + 1 # n => t[j + 1] = s[(j + 1) + 1]
          BY <4>3, <1>b, SMTT(60)
        <4> QED
          BY <4>1, <4>2, <4>4, <1>1, <1>15, SMTT(60)
      <3> QED
        BY <1>1, <3>1, <3>2, <3>3, SMTT(60)
    <2> QED
      BY <2>1, <2>2, Zenon
  <1>19. Links(list[x], Before(x))'
    BY <1>2, <1>7, <1>18, ZenonT(60) DEF Links, Before
  <1>20. x \in Queue => next'[x] = IF t = <<>> THEN null ELSE t[1]
    <2> SUFFICES ASSUME x \in Queue PROVE next'[x] = IF t = <<>> THEN null ELSE t[1]
      BY Zenon
    <2>1. x \in Hook /\ x # e /\ x # null /\ Before(x) = x /\ next[x] = s[1]
      BY <1>1, <1>13, <1>14 DEF Before, s, n
    <2>2. t = <<>> <=> n = 1
      BY <1>1, <1>2, SMTT(60)
    <2>3. CASE i = 1
      <3>1. next'[x] = next[e]
        BY <2>1, <2>3, <1>9, <1>15, Zenon
      <3> QED
        BY <3>1, <2>2, <2>3, <1>1, <1>2, <1>9, SMTT(60)
    <2>4. CASE i # 1
      <3>1. prev[e] # x
        BY <2>4, <2>1, <1>1, <1>3, <1>9, <1>13, SMTT(60)
      <3>2. next'[x] = s[1]
        BY <3>1, <2>1, <1>15, ZenonT(60)
      <3> QED
        BY <3>2, <2>2, <2>4, <1>1, <1>2
    <2> QED
      BY <2>3, <2>4, Zenon
  <1>21. ASSUME NEW y \in Holder, y # x, NEW j \in 1..Len(list[y])
         PROVE  next'[list[y][j]] = next[list[y][j]] /\ prev'[list[y][j]] = prev[list[y][j]]
    <2>1. \A k \in 1..n : list[y][j] # s[k]
      BY <1>8, <1>21, Zenon
    <2>2. list[y][j] \in Elem /\ list[y][j] \in Hook /\ list[y][j] # null
      BY <1>12, <1>21, <1>a, Zenon
    <2>3. list[y][j] # e /\ list[y][j] # prev[e] /\ list[y][j] # next[e]
      BY <2>1, <2>2, <1>1, <1>6, <1>9, SMTT(60)
    <2> QED
      BY <2>2, <2>3, <1>15, <1>16, ZenonT(60)
  <1>22. ASSUME NEW y \in Queue, y # x PROVE next'[y] = next[y]
    <2>1. y # prev[e]
      BY <1>22, <1>1, <1>3, <1>9, <1>13 DEF Before
    <2> QED
      BY <2>1, <1>13, <1>14, <1>15, ZenonT(60)
  <1>23. ASSUME NEW z \in Elem PROVE In(z, t) <=> In(z, s) /\ z # e
    <2>1. In(z, t) => In(z, s) /\ z # e
      <3> SUFFICES ASSUME NEW j \in 1..(n - 1), t[j] = z PROVE In(z, s) /\ z # e
        BY <1>2, Zenon DEF In
      <3>1. PICK k \in 1..n : z = s[k] /\ k # i
        BY <1>1, <1>b
      <3> QED
        BY <3>1, <1>1, <1>4, <1>9, Zenon DEF In, s, n
    <2>2. In(z, s) /\ z # e => In(z, t)
      <3> SUFFICES ASSUME NEW j \in 1..n, s[j] = z, z # e PROVE In(z, t)
        BY Zenon DEF In, s, n
      <3>1. j # i
        BY <1>9, Zenon
      <3>2. CASE j < i
        BY <3>2, <1>1, <1>2, SMTT(60) DEF In
      <3>3. CASE j > i
        <4>1. j - 1 \in 1..(n - 1) /\ t[j - 1] = s[j]
          BY <3>3, <1>1, <1>2, SMTT(60)
        <4> QED
          BY <4>1, <1>2, Zenon DEF In
      <3> QED
        BY <3>1, <3>2, <3>3, <1>1
    <2> QED
      BY <2>1, <2>2, Zenon
  <1> QED
    BY <1>7, <1>11, <1>15, <1>16, <1>17, <1>19, <1>20, <1>21, <1>22, <1>23, SMTT(60)
    DEF s, t, e, IsUnlinked

\* With check_ reset, the other elements keep theirs.
LEMMA UnlinkCheck ==
  ASSUME QTypeOK, Once, CheckExact, NEW x \in Holder, NEW i \in 1..Len(list[x]),
         \A y \in Holder : y # x => list'[y] = list[y],
         \A z \in Elem : In(z, list'[x]) <=> In(z, list[x]) /\ z # list[x][i],
         check_' = [check_ EXCEPT ![list[x][i]] = null],
         \A o \in Owner : piece'[o].check_ = piece[o].check_
  PROVE  CheckExact'
  <1> DEFINE e == list[x][i]
  <1>1. e \in Elem /\ In(e, list[x])
    BY ListFacts, Zenon DEF In
  <1>2. \A y \in Holder : y # x => ~In(e, list[y])
    BY ListFacts, ZenonT(60) DEF In, Once
  <1>3. \A y \in Holder : ~In(e, list'[y])
    BY <1>1, <1>2, Zenon
  <1>4. \A y \in Holder : \A z \in Elem : z # e => (In(z, list'[y]) <=> In(z, list[y]))
    BY Zenon
  <1>5. check_'[e] = null /\ \A z \in Elem : z # e => check_'[z] = check_[z]
    BY <1>1, ZenonT(60) DEF QTypeOK
  <1> HIDE DEF e
  <1>6. ASSUME NEW z \in Elem, NEW y \in Queue
        PROVE  (check_'[z] = y) <=>
                 \/ In(z, list'[y])
                 \/ \E o \in Owner : piece'[o].check_ = y /\ In(z, list'[o])
    <2>1. y \in Holder /\ y # null /\ \A o \in Owner : o \in Holder
      BY ListFacts, ZenonT(60)
    <2>2. CASE z = e
      BY <2>1, <2>2, <1>3, <1>5, ZenonT(60)
    <2>3. CASE z # e
      <3>1. check_[z] = y <=>
              In(z, list[y]) \/ \E o \in Owner : piece[o].check_ = y /\ In(z, list[o])
        BY DEF CheckExact
      <3> QED
        BY <2>1, <2>3, <3>1, <1>4, <1>5, ZenonT(60)
    <2> QED
      BY <2>2, <2>3, Zenon
  <1> QED
    BY <1>6, Zenon DEF CheckExact, In

\* What pop and erase do besides unlinking hook number i of a queue.
Leave(q, i) ==
  /\ check_' = [check_ EXCEPT ![list[q][i]] = null]
  /\ tail_' = [tail_ EXCEPT ![q] = IF i = Len(list[q]) THEN prev[list[q][i]] ELSE @]
  /\ count_' = [count_ EXCEPT ![q] = @ - 1]
  /\ UNCHANGED <<piece, it, pos, loop>>

\* Taking an element out of an unlocked queue keeps the invariant.
LEMMA UnlinkQueue ==
  ASSUME QInv, NEW q \in Queue, ~Locked(q), NEW i \in 1..Len(list[q]),
         Unlink(q, i), Leave(q, i)
  PROVE  QInv'
  <1>a. QTypeOK /\ Once /\ PieceOwned /\ LoopExact /\ CheckExact
    BY Zenon DEF QInv, ListsLinked
  <1>b. \A x \in Queue : QueueLinked(x)
    BY Zenon DEF QInv, ListsLinked
  <1>c. \A o \in Owner : PieceLinked(o)
    BY Zenon DEF QInv, ListsLinked
  <1> DEFINE s == list[q]
             t == Without(list[q], i)
             n == Len(list[q])
  <1>d. UNCHANGED <<piece, it, pos, loop>>
    BY ZenonT(60) DEF Leave
  <1>1. /\ q \in Holder /\ Before(q) = q /\ Links(list[q], Before(q))
        /\ next[q] = IF list[q] = <<>> THEN null ELSE list[q][1]
    BY <1>a, <1>b, ListFacts, ZenonT(60) DEF QueueLinked, Before
  <1>u. IsUnlinked(q, i)
    BY <1>a, <1>1, UnlinkFacts, ZenonT(60)
  <1>2. /\ prev' \in [Hook -> Hook \cup {null}]
        /\ next' \in [Hook -> Elem \cup {null}]
        /\ list' \in [Holder -> Seq(Elem)]
        /\ Once'
        /\ Links(list[q], Before(q))'
        /\ next'[q] = IF list'[q] = <<>> THEN null ELSE list'[q][1]
        /\ list'[q] = t
    BY <1>u, <1>1, ZenonT(60) DEF IsUnlinked
  <1>3. \A y \in Holder : y # q =>
          /\ list'[y] = list[y]
          /\ \A j \in 1..Len(list[y]) : /\ next'[list[y][j]] = next[list[y][j]]
                                        /\ prev'[list[y][j]] = prev[list[y][j]]
    BY <1>u, <1>1, ZenonT(60) DEF IsUnlinked
  <1>4. \A y \in Queue : y # q => next'[y] = next[y]
    BY <1>u, <1>1, ZenonT(60) DEF IsUnlinked
  <1>5. \A z \in Elem : In(z, list'[q]) <=> In(z, list[q]) /\ z # list[q][i]
    BY <1>u, <1>1, Zenon DEF IsUnlinked
  <1>6. /\ t \in Seq(Elem) /\ Len(t) = n - 1 /\ n \in Nat /\ i \in 1..n
        /\ \A j \in 1..(n - 1) : t[j] = IF j < i THEN s[j] ELSE s[j + 1]
        /\ t = <<>> <=> n = 1
    <2>1. s \in Seq(Elem) /\ n \in Nat
      BY <1>a, <1>1, ListFacts, Zenon
    <2> HIDE DEF s
    <2>2. /\ t \in Seq(Elem) /\ Len(t) = n - 1
          /\ \A j \in 1..(n - 1) : t[j] = IF j < i THEN s[j] ELSE s[j + 1]
      BY <2>1, WithoutFacts, ZenonT(60) DEF s
    <2> HIDE DEF t, n
    <2>3. i \in 1..n
      BY ZenonT(60) DEF n
    <2> QED
      BY <2>1, <2>2, <2>3
  <1>7. /\ tail_[q] = s[n] /\ count_[q] = n
        /\ prev[s[i]] = IF i = 1 THEN q ELSE s[i - 1]
    BY <1>b, <1>6 DEF QueueLinked, Links
  <1>8. CheckExact'
    <2>1. check_' = [check_ EXCEPT ![list[q][i]] = null] /\ piece' = piece
      BY ZenonT(60) DEF Leave
    <2> QED
      BY <2>1, <1>a, <1>1, <1>3, <1>5, UnlinkCheck, ZenonT(60)
  <1>9. \A j \in 1..n : s[j] \in Elem
    BY <1>a, <1>1, ListFacts, ZenonT(60)
  <1> HIDE DEF s, t, n
  <1>10. /\ tail_'[q] = IF i = n THEN prev[s[i]] ELSE s[n]
         /\ \A y \in Queue : y # q => tail_'[y] = tail_[y]
         /\ count_'[q] = n - 1 /\ n - 1 \in Nat
         /\ \A y \in Queue : y # q => count_'[y] = count_[y]
    BY <1>a, <1>6, <1>7, SMTT(60) DEF Leave, QTypeOK, s, n
  <1>11. QTypeOK'
    <2>1. tail_' \in [Queue -> Hook]
      <3>1. i = n => prev[s[i]] \in Hook
        BY <1>6, <1>7, <1>9, SMTT(60) DEF Hook
      <3> QED
        BY <1>a, <3>1, ZenonT(60) DEF Leave, QTypeOK, s, n
    <2>2. count_' \in [Queue -> Nat]
      BY <1>a, <1>10, Zenon DEF Leave, QTypeOK
    <2>3. check_' \in [Elem -> Queue \cup {null}]
      BY <1>a, ZenonT(60) DEF Leave, QTypeOK
    <2> QED
      BY <1>a, <1>d, <1>2, <2>1, <2>2, <2>3, ZenonT(60) DEF QTypeOK
  <1>12. PieceOwned'
    <2>1. \A o \in Owner : list'[o] = list[o]
      BY <1>a, <1>3, ListFacts, ZenonT(60)
    <2> QED
      BY <1>a, <1>d, <2>1, Zenon DEF PieceOwned
  <1>13. LoopExact'
    <2>1. ASSUME NEW o \in Owner, loop[o].q # null PROVE list'[loop[o].q] = list[loop[o].q]
      <3>1. loop[o].q \in Queue /\ loop[o].q # q
        BY <1>a, <2>1, Zenon DEF QTypeOK, Locked
      <3> QED
        BY <1>a, <1>3, <3>1, ListFacts, Zenon
    <2> QED
      BY <1>a, <1>d, <2>1, ZenonT(60) DEF LoopExact
  <1>14. ASSUME NEW x \in Queue PROVE QueueLinked(x)'
    <2>1. CASE x = q
      <3>1. tail_'[q] = IF t = <<>> THEN q ELSE t[n - 1]
        <4>1. n \in Nat /\ i \in 1..n /\ (t = <<>> <=> n = 1)
          BY <1>6, Zenon
        <4>2. tail_'[q] = IF i = n THEN prev[s[i]] ELSE s[n]
          BY <1>10, Zenon
        <4>3. CASE n = 1
          <5>1. i = n /\ i = 1
            BY <4>1, <4>3
          <5> QED
            BY <4>1, <4>2, <4>3, <5>1, <1>7, Zenon
        <4>4. CASE n # 1 /\ i = n
          <5>1. n - 1 \in 1..(n - 1) /\ n - 1 < i
            BY <4>1, <4>4
          <5>2. t[n - 1] = s[n - 1]
            BY <5>1, <1>6, Zenon
          <5>3. prev[s[i]] = s[n - 1]
            BY <4>4, <1>7, Zenon
          <5> QED
            BY <4>1, <4>2, <4>4, <5>2, <5>3, Zenon
        <4>5. CASE i # n
          <5>1. n # 1 /\ n - 1 \in 1..(n - 1) /\ ~(n - 1 < i) /\ (n - 1) + 1 = n
            BY <4>1, <4>5
          <5>2. t[n - 1] = s[n]
            BY <5>1, <1>6, ZenonT(60)
          <5> QED
            BY <4>1, <4>2, <4>5, <5>1, <5>2, Zenon
        <4> QED
          BY <4>3, <4>4, <4>5, Zenon
      <3>2. Links(list[q], q)'
        BY <1>1, <1>2, ZenonT(60)
      <3>3. /\ next'[q] = IF list'[q] = <<>> THEN null ELSE list'[q][1]
            /\ list'[q] = t /\ Len(t) = n - 1 /\ count_'[q] = n - 1
        BY <1>2, <1>6, <1>10, Zenon
      <3>4. /\ tail_'[q] = IF list'[q] = <<>> THEN q ELSE list'[q][Len(list'[q])]
            /\ count_'[q] = Len(list'[q])
        BY <3>1, <3>3, ZenonT(60)
      <3> QED
        BY <2>1, <3>2, <3>3, <3>4, ZenonT(60) DEF QueueLinked
    <2>2. CASE x # q
      <3>1. x \in Holder
        BY <1>a, ListFacts, ZenonT(60)
      <3> QED
        BY <2>2, <3>1, <1>a, <1>b, <1>3, <1>4, <1>10, QueueFrame, ZenonT(60)
    <2> QED
      BY <2>1, <2>2, ZenonT(60)
  <1>15. ASSUME NEW o \in Owner PROVE PieceLinked(o)'
    <2>1. o \in Holder /\ o # q
      BY <1>a, ListFacts, ZenonT(60)
    <2> QED
      BY <2>1, <1>a, <1>c, <1>d, <1>3, PieceFrame, SMTT(60)
  <1> QED
    BY <1>2, <1>8, <1>11, <1>12, <1>13, <1>14, <1>15, Zenon DEF QInv, ListsLinked

\* pop keeps the invariant.
LEMMA PopInv ==
  ASSUME QInv, NEW q \in Queue, pop(q)
  PROVE  QInv'
  <1> DEFINE s == list[q]
             e == list[q][1]
  <1>a. QTypeOK /\ QueueLinked(q)
    BY ZenonT(60) DEF QInv, ListsLinked
  <1>1. /\ s \in Seq(Elem) /\ s # <<>> /\ Len(s) \in Nat /\ 1 \in 1..Len(s) /\ e \in Elem
        /\ next[q] = e /\ prev[e] = q /\ q # null
    <2>1. s # <<>>
      BY <1>a, Zenon DEF pop, QueueLinked
    <2>2. s \in Seq(Elem) /\ Len(s) \in Nat /\ q # null
      BY <1>a, ListFacts, Zenon
    <2>3. Len(s) >= 1 /\ e \in Elem
      BY <2>1, <2>2
    <2> QED
      BY <1>a, <2>1, <2>2, <2>3, SMTT(60) DEF QueueLinked, Links
  <1>2. Tail(s) = Without(s, 1)
    <2>1. Tail(s) = [j \in 1..(Len(s) - 1) |-> s[j + 1]]
      BY <1>1
    <2>2. Without(s, 1) = [j \in 1..(Len(s) - 1) |-> s[j + 1]]
      BY <1>1, SMTT(60) DEF Without
    <2> QED
      BY <2>1, <2>2, ZenonT(60)
  <1>3. Unlink(q, 1)
    <2>1. next' = [Put(next, prev[e], next[e]) EXCEPT ![e] = null]
      BY <1>1, Zenon DEF pop, Put
    <2>2. prev' = [Put(prev, next[e], prev[e]) EXCEPT ![e] = null]
      BY <1>1, Zenon DEF pop
    <2>3. list' = [list EXCEPT ![q] = Without(list[q], 1)]
      BY <1>2, ZenonT(60) DEF pop
    <2> QED
      BY <2>1, <2>2, <2>3, SMTT(60) DEF Unlink
  <1>4. (e = tail_[q]) <=> (1 = Len(s))
    <2>1. \A j \in 1..Len(s) : s[j] = e => j = 1
      BY <1>a, <1>1, ListFacts, SMTT(60) DEF QInv, Once
    <2>2. tail_[q] = s[Len(s)] /\ Len(s) \in 1..Len(s)
      BY <1>a, <1>1 DEF QueueLinked
    <2> QED
      BY <2>1, <2>2, ZenonT(60)
  <1>5. tail_' = [tail_ EXCEPT ![q] = IF 1 = Len(list[q]) THEN prev[list[q][1]] ELSE @]
    BY <1>1, <1>4, ZenonT(60) DEF pop
  <1>6. Leave(q, 1) /\ ~Locked(q)
    BY <1>1, <1>5, ZenonT(60) DEF pop, pieces, Leave
  <1> QED
    BY <1>1, <1>3, <1>6, UnlinkQueue, Zenon

\* erase keeps the invariant.
LEMMA EraseInv ==
  ASSUME QInv, NEW q \in Queue, NEW e \in Elem, erase(q, e)
  PROVE  QInv'
  <1> DEFINE s == list[q]
  <1>a. QTypeOK /\ QueueLinked(q)
    BY Zenon DEF QInv, ListsLinked
  <1>1. PICK i \in 1..Len(s) : s[i] = e /\ list' = [list EXCEPT ![q] = Without(@, i)]
    BY ZenonT(60) DEF erase
  <1>2. Unlink(q, i)
    BY <1>1, ZenonT(60) DEF erase, Unlink
  <1>3. (next[e] = null /\ e = tail_[q]) <=> (i = Len(s))
    <2>1. /\ Len(s) \in Nat /\ s # <<>> /\ \A j \in 1..Len(s) : s[j] # null
          /\ \A j \in 1..Len(s) : s[j] = s[i] => j = i
      BY <1>a, ListFacts DEF QInv, Once
    <2>2. next[e] = IF i = Len(s) THEN null ELSE s[i + 1]
      BY <1>a, <1>1, Zenon DEF QueueLinked, Links
    <2> QED
      BY <1>a, <1>1, <2>1, <2>2, SMTT(60) DEF QueueLinked
  <1>4. tail_' = [tail_ EXCEPT ![q] = IF i = Len(list[q]) THEN prev[list[q][i]] ELSE @]
    BY <1>1, <1>3, ZenonT(60) DEF erase
  <1>5. Leave(q, i) /\ ~Locked(q)
    BY <1>1, <1>4, ZenonT(60) DEF erase, pieces, Leave
  <1> QED
    BY <1>1, <1>2, <1>5, UnlinkQueue, Zenon

\* SList::erase, at the iterator, keeps the invariant.
LEMMA SListEraseInv ==
  ASSUME QInv, NEW o \in Owner, slist_erase(o)
  PROVE  QInv'
  <1>a. QTypeOK /\ Once /\ PieceOwned /\ LoopExact /\ CheckExact
    BY Zenon DEF QInv, ListsLinked
  <1>b. \A x \in Queue : QueueLinked(x)
    BY Zenon DEF QInv, ListsLinked
  <1>c. \A p \in Owner : PieceLinked(p)
    BY ZenonT(60) DEF QInv, ListsLinked
  <1> DEFINE s == list[o]
             i == pos[o]
             e == list[o][pos[o]]
             t == Without(list[o], pos[o])
             n == Len(list[o])
  <1>1. /\ o \in Holder /\ o \notin Queue /\ s \in Seq(Elem) /\ n \in Nat
        /\ i \in 1..n /\ it[o] = e /\ e \in Elem
        /\ Before(o) = null /\ Links(list[o], Before(o))
    <2>1. o \in Holder /\ o \notin Queue /\ s \in Seq(Elem) /\ n \in Nat
      BY <1>a, ListFacts, Zenon
    <2>2. i \in Nat \ {0} /\ it[o] # null
      BY <1>a, ZenonT(60) DEF QTypeOK, slist_erase
    <2>3. i <= n /\ it[o] = e
      BY <1>c, <2>2, ZenonT(60) DEF PieceLinked
    <2>4. i \in 1..n
      BY <2>1, <2>2, <2>3
    <2>5. e \in Elem
      BY <1>a, <2>1, <2>4, ListFacts, SMTT(60)
    <2> QED
      BY <1>c, <2>1, <2>3, <2>4, <2>5, Zenon DEF PieceLinked, Before
  <1>2. Unlink(o, i)
    BY <1>1, ZenonT(60) DEF slist_erase, Unlink
  <1>u. IsUnlinked(o, i)
    BY <1>a, <1>1, <1>2, UnlinkFacts, ZenonT(60)
  <1>3. /\ prev' \in [Hook -> Hook \cup {null}]
        /\ next' \in [Hook -> Elem \cup {null}]
        /\ list' \in [Holder -> Seq(Elem)]
        /\ Once'
        /\ Links(list[o], Before(o))'
        /\ list'[o] = t
    BY <1>u, <1>1, ZenonT(60) DEF IsUnlinked
  <1>4. \A y \in Holder : y # o =>
          /\ list'[y] = list[y]
          /\ \A j \in 1..Len(list[y]) : /\ next'[list[y][j]] = next[list[y][j]]
                                        /\ prev'[list[y][j]] = prev[list[y][j]]
    BY <1>u, <1>1, ZenonT(60) DEF IsUnlinked
  <1>5. \A y \in Queue : next'[y] = next[y]
    BY <1>u, <1>1, ZenonT(60) DEF IsUnlinked
  <1>6. \A z \in Elem : In(z, list'[o]) <=> In(z, list[o]) /\ z # list[o][i]
    BY <1>u, <1>1, Zenon DEF IsUnlinked
  <1>7. /\ t \in Seq(Elem) /\ Len(t) = n - 1
        /\ \A j \in 1..(n - 1) : t[j] = IF j < i THEN s[j] ELSE s[j + 1]
    BY <1>1, WithoutFacts, ZenonT(60)
  <1>8. /\ piece[o].head_ = s[1] /\ piece[o].tail_ = s[n] /\ piece[o].count_ = n
        /\ prev[e] = IF i = 1 THEN null ELSE s[i - 1]
        /\ next[e] = IF i = n THEN null ELSE s[i + 1]
        /\ next[s[1]] = IF n = 1 THEN null ELSE s[2]
        /\ prev[s[n]] = IF n = 1 THEN null ELSE s[n - 1]
    <2>1. PieceLinked(o) /\ s # <<>> /\ 1 \in 1..n /\ n \in 1..n
      BY <1>c, <1>1, SMTT(60)
    <2>2. \A j \in 1..n : /\ prev[s[j]] = IF j = 1 THEN null ELSE s[j - 1]
                          /\ next[s[j]] = IF j = n THEN null ELSE s[j + 1]
      BY <2>1, Zenon DEF PieceLinked, Links
    <2>3. piece[o].head_ = s[1] /\ piece[o].tail_ = s[n] /\ piece[o].count_ = n
      BY <2>1, ZenonT(60) DEF PieceLinked
    <2> HIDE DEF s, n, i
    <2>4. next[s[1]] = (IF n = 1 THEN null ELSE s[2]) /\ prev[s[n]] = (IF n = 1 THEN null ELSE s[n - 1])
      BY <2>1, <2>2, <1>1, SMTT(60)
    <2> QED
      BY <2>2, <2>3, <2>4, <1>1, ZenonT(60) DEF s, i
  <1>9. \A j \in 1..n : s[j] \in Elem /\ s[j] # null
    BY <1>a, <1>1, ListFacts, SMTT(60)
  <1>10. /\ piece' = [piece EXCEPT
                        ![o].head_ = IF prev[e] = null THEN next[@] ELSE @,
                        ![o].tail_ = IF next[e] = null THEN prev[@] ELSE @,
                        ![o].count_ = @ - 1]
         /\ it' = [it EXCEPT ![o] = next[e]]
         /\ check_' = [check_ EXCEPT ![e] = null]
         /\ UNCHANGED <<tail_, count_, pos, loop>>
    BY <1>1, ZenonT(60) DEF slist_erase, queues
  <1> HIDE DEF s, i, e, t, n
  <1>11. piece'[o].check_ = piece[o].check_ /\ piece'[o].count_ = n - 1
    BY <1>a, <1>8, <1>10 DEF QTypeOK
  <1>12. /\ piece'[o].head_ = IF prev[e] = null THEN next[s[1]] ELSE s[1]
         /\ piece'[o].tail_ = IF next[e] = null THEN prev[s[n]] ELSE s[n]
    BY <1>a, <1>8, <1>10 DEF QTypeOK
  <1>13. /\ \A p \in Owner : p # o => piece'[p] = piece[p] /\ it'[p] = it[p]
         /\ it'[o] = next[e]
    BY <1>a, <1>10, Zenon DEF QTypeOK
  <1>14. /\ piece'[o].head_ = IF t = <<>> THEN null ELSE t[1]
         /\ piece'[o].tail_ = IF t = <<>> THEN null ELSE t[n - 1]
         /\ it'[o] = IF i <= n - 1 THEN t[i] ELSE null
    <2>1. t = <<>> <=> n = 1
      BY <1>1, <1>7, SMTT(60)
    <2>2. prev[e] = null <=> i = 1
      BY <1>1, <1>8, <1>9, SMTT(60)
    <2>3. next[e] = null <=> i = n
      BY <1>1, <1>8, <1>9, SMTT(60)
    <2>4. piece'[o].head_ = IF t = <<>> THEN null ELSE t[1]
      BY <2>1, <2>2, <1>1, <1>7, <1>8, <1>12, SMTT(60)
    <2>5. piece'[o].tail_ = IF t = <<>> THEN null ELSE t[n - 1]
      BY <2>1, <2>3, <1>1, <1>7, <1>8, <1>12, SMTT(60)
    <2>6. it'[o] = IF i <= n - 1 THEN t[i] ELSE null
      BY <1>1, <1>7, <1>8, <1>13, SMTT(60)
    <2> QED
      BY <2>4, <2>5, <2>6, SMTT(60)
  <1>15. n - 1 \in Nat /\ \A j \in 1..(n - 1) : t[j] \in Elem
    BY <1>1, <1>7, <1>9, SMTT(60)
  <1>16. QTypeOK'
    <2>1. /\ piece'[o].head_ \in Elem \cup {null} /\ piece'[o].tail_ \in Elem \cup {null}
          /\ piece'[o].count_ \in Nat
      BY <1>1, <1>7, <1>11, <1>14, <1>15
    <2>2. piece' \in [Owner -> [head_ : Elem \cup {null}, tail_ : Elem \cup {null},
                                count_ : Nat, check_ : Queue \cup {null}]]
      <3> DEFINE hd == IF prev[e] = null THEN next[piece[o].head_] ELSE piece[o].head_
                 tl == IF next[e] = null THEN prev[piece[o].tail_] ELSE piece[o].tail_
                 r == [piece[o] EXCEPT !.head_ = hd, !.tail_ = tl, !.count_ = @ - 1]
      <3>1. piece' = [piece EXCEPT ![o] = r]
        BY <1>10, ZenonT(60)
      <3>2. piece[o] \in [head_ : Elem \cup {null}, tail_ : Elem \cup {null},
                          count_ : Nat, check_ : Queue \cup {null}]
        BY <1>a, ZenonT(60) DEF QTypeOK
      <3>3. hd = piece'[o].head_ /\ tl = piece'[o].tail_
        BY <1>8, <1>12, Zenon
      <3> HIDE DEF hd, tl
      <3>4. r \in [head_ : Elem \cup {null}, tail_ : Elem \cup {null},
                   count_ : Nat, check_ : Queue \cup {null}]
        BY <2>1, <3>2, <3>3, <1>8, <1>15, ZenonT(60)
      <3> HIDE DEF r
      <3> QED
        BY <3>1, <3>4, <1>a, Zenon DEF QTypeOK
    <2>3. it' \in [Owner -> Elem \cup {null}] /\ check_' \in [Elem -> Queue \cup {null}]
      <3>1. next[e] \in Elem \cup {null}
        BY <1>1, <1>8, <1>9
      <3> QED
        BY <3>1, <1>a, <1>10, ZenonT(60) DEF QTypeOK
    <2> QED
      BY <2>2, <2>3, <1>a, <1>3, <1>10, ZenonT(60) DEF QTypeOK
  <1>17. PieceOwned'
    <2>1. piece[o].check_ # null
      BY <1>a, <1>1 DEF PieceOwned, s, n
    <2>2. ASSUME NEW p \in Owner, p # o
          PROVE  piece'[p] = piece[p] /\ list'[p] = list[p]
      BY <2>2, <1>a, <1>4, <1>13, ListFacts, SMTT(60)
    <2>3. pos'[o] <= Len(list'[o]) + 1
      BY <1>1, <1>3, <1>7, <1>10, SMTT(60) DEF i
    <2>4. piece'[o].check_ # null /\ loop[o].q = null
      BY <2>1, <1>a, <1>11, SMTT(60) DEF PieceOwned
    <2> QED
      BY <2>2, <2>3, <2>4, <1>a, <1>10, ZenonT(60) DEF PieceOwned
  <1>18. LoopExact'
    <2>1. ASSUME NEW p \in Owner, loop[p].q # null PROVE list'[loop[p].q] = list[loop[p].q]
      <3>1. loop[p].q \in Queue
        BY <1>a, <2>1, SMTT(60) DEF QTypeOK
      <3> QED
        BY <1>a, <1>1, <1>4, <3>1, ListFacts, SMTT(60)
    <2> QED
      BY <1>a, <2>1, <1>10, ZenonT(60) DEF LoopExact
  <1>19. ASSUME NEW x \in Queue PROVE QueueLinked(x)'
    <2>1. x \in Holder /\ x # o
      BY <1>a, <1>1, ListFacts, Zenon
    <2> QED
      BY <2>1, <1>a, <1>b, <1>4, <1>5, <1>10, QueueFrame, SMTT(60)
  <1>20. ASSUME NEW p \in Owner PROVE PieceLinked(p)'
    <2>1. CASE p = o
      BY <2>1, <1>1, <1>3, <1>7, <1>10, <1>11, <1>14, Zenon DEF PieceLinked, i
    <2>2. CASE p # o
      <3>1. p \in Holder
        BY <1>a, ListFacts, Zenon
      <3> QED
        BY <2>2, <3>1, <1>a, <1>c, <1>4, <1>10, <1>13, PieceFrame, ZenonT(60)
    <2> QED
      BY <2>1, <2>2, ZenonT(60)
  <1>21. CheckExact'
    <2>1. \A p \in Owner : piece'[p].check_ = piece[p].check_
      BY <1>11, <1>13, SMTT(60)
    <2>2. \A y \in Holder : y # o => list'[y] = list[y]
      BY <1>4, SMTT(60)
    <2> QED
      BY <2>1, <2>2, <1>a, <1>1, <1>6, <1>10, UnlinkCheck, ZenonT(60) DEF e, i, n
  <1> QED
    BY <1>3, <1>16, <1>17, <1>18, <1>19, <1>20, <1>21, Zenon DEF QInv, ListsLinked

\* A step of an SList's iterator keeps the invariant.
LEMMA AdvanceInv ==
  ASSUME QInv, NEW o \in Owner, advance(o)
  PROVE  QInv'
  <1>a. QTypeOK /\ Once /\ PieceOwned /\ LoopExact /\ CheckExact
    BY Zenon DEF QInv, ListsLinked
  <1>b. \A x \in Queue : QueueLinked(x)
    BY Zenon DEF QInv, ListsLinked
  <1>c. \A p \in Owner : PieceLinked(p)
    BY Zenon DEF QInv, ListsLinked
  <1> DEFINE s == list[o]
             i == pos[o]
             n == Len(list[o])
  <1>1. UNCHANGED <<prev, next, check_, tail_, count_, piece, loop, list>>
    BY ZenonT(60) DEF advance, links, queues
  <1>2. it[o] \in Elem /\ pos[o] \in Nat \ {0} /\ n \in Nat
    BY <1>a, ListFacts, SMTT(60) DEF advance, QTypeOK
  <1>3. i \in 1..n /\ it[o] = s[i]
    <2>1. i <= n /\ it[o] = s[i]
      BY <1>a, <1>c, <1>2, ListFacts, ZenonT(60) DEF PieceLinked
    <2> QED
      BY <2>1, <1>2, SMTT(60)
  <1>4. next[s[i]] = IF i = n THEN null ELSE s[i + 1]
    BY <1>c, <1>3, ZenonT(60) DEF PieceLinked, Links
  <1>5. /\ it'[o] = next[it[o]] /\ pos'[o] = i + 1
        /\ \A p \in Owner : p # o => it'[p] = it[p] /\ pos'[p] = pos[p]
        /\ next[it[o]] \in Elem \cup {null}
    BY <1>a, <1>2, ListFacts, ZenonT(60) DEF advance, QTypeOK
  <1>6. QTypeOK'
    <2>1. it' \in [Owner -> Elem \cup {null}]
      BY <1>a, <1>5, Zenon DEF QTypeOK, advance
    <2>2. pos[o] + 1 \in Nat \ {0}
      BY <1>2
    <2>3. pos' \in [Owner -> Nat \ {0}]
      BY <1>a, <2>2, Zenon DEF QTypeOK, advance
    <2> QED
      BY <1>a, <1>1, <2>1, <2>3, Zenon DEF QTypeOK
  <1>7. Once' /\ LoopExact' /\ CheckExact'
    <2>1. Once' /\ CheckExact'
      BY <1>a, <1>1, SameLists, Zenon
    <2>2. LoopExact'
      BY <1>a, <1>1, Zenon DEF LoopExact
    <2> QED
      BY <2>1, <2>2, Zenon
  <1>8. PieceOwned'
    BY <1>a, <1>1, <1>2, <1>3, <1>5, SMTT(60) DEF PieceOwned
  <1>9. ASSUME NEW x \in Queue PROVE QueueLinked(x)'
    BY <1>a, <1>b, <1>1, QueueFrame, SMTT(60)
  <1>10. ASSUME NEW p \in Owner PROVE PieceLinked(p)'
    <2>1. Links(list[p], null)'
      <3>1. list' = list /\ prev' = prev /\ next' = next
        BY <1>1, ZenonT(60)
      <3>2. Links(list[p], null)
        BY <1>c, ZenonT(60) DEF PieceLinked
      <3> QED
        BY <3>1, <3>2, ZenonT(60) DEF Links
    <2>2. it'[p] = IF pos'[p] <= Len(list[p]) THEN list[p][pos'[p]] ELSE null
      <3>1. CASE p = o
        BY <3>1, <1>2, <1>3, <1>4, <1>5, SMTT(60)
      <3>2. CASE p # o
        BY <3>2, <1>c, <1>5, Zenon DEF PieceLinked
      <3> QED
        BY <3>1, <3>2, ZenonT(60)
    <2> QED
      BY <2>1, <2>2, <1>c, <1>1, ZenonT(60) DEF PieceLinked
  <1> QED
    BY <1>6, <1>7, <1>8, <1>9, <1>10, SMTT(60) DEF QInv, ListsLinked

-----------------------------------------------------------------------------
(* pop_all and pop(n), which cut an SList off a queue *)

\* An element of a list is in one of its two parts.
LEMMA SubIn ==
  ASSUME NEW S, NEW s \in Seq(S), NEW c \in 1..Len(s), NEW z
  PROVE  In(z, s) <=> In(z, SubSeq(s, 1, c)) \/ In(z, SubSeq(s, c + 1, Len(s)))
  <1> DEFINE u == SubSeq(s, 1, c)
             v == SubSeq(s, c + 1, Len(s))
  <1>1. Len(s) \in Nat
    OBVIOUS
  <1>2. /\ Len(u) = c /\ \A i \in 1..c : u[i] = s[i]
        /\ Len(v) = Len(s) - c /\ \A i \in 1..(Len(s) - c) : v[i] = s[c + i]
    BY SubFacts
  <1> HIDE DEF u, v
  <1>3. In(z, u) => In(z, s)
    BY <1>1, <1>2 DEF In
  <1>4. In(z, v) => In(z, s)
    <2> SUFFICES ASSUME NEW i \in 1..(Len(s) - c), v[i] = z PROVE In(z, s)
      BY <1>2, ZenonT(60) DEF In
    <2>1. c + i \in 1..Len(s) /\ s[c + i] = z
      BY <1>1, <1>2
    <2> QED
      BY <2>1, Zenon DEF In
  <1>5. In(z, s) => In(z, u) \/ In(z, v)
    <2> SUFFICES ASSUME NEW i \in 1..Len(s), s[i] = z PROVE In(z, u) \/ In(z, v)
      BY Zenon DEF In
    <2>1. CASE i <= c
      BY <2>1, <1>1, <1>2 DEF In
    <2>2. CASE i > c
      <3>1. i - c \in 1..(Len(s) - c) /\ c + (i - c) = i
        BY <2>2, <1>1
      <3>2. v[i - c] = z
        BY <3>1, <1>2, Zenon
      <3> QED
        BY <3>1, <3>2, <1>2, Zenon DEF In
    <2> QED
      BY <2>1, <2>2, <1>1
  <1> QED
    BY <1>3, <1>4, <1>5, Zenon DEF u, v

\* The first c hooks of q become o's SList: what pop_all and the end of pop(n) do.
Cut(q, o, c) ==
  LET s == list[q] IN
  /\ piece[o].check_ = null
  /\ \A p \in Owner : p # o => loop[p].q # q
  /\ next' = [next EXCEPT ![q] = next[s[c]], ![s[c]] = null]
  /\ prev' = [Put(prev, next[s[c]], q) EXCEPT ![s[1]] = null]
  /\ tail_' = [tail_ EXCEPT ![q] = IF c = Len(s) THEN q ELSE @]
  /\ count_' = [count_ EXCEPT ![q] = @ - c]
  /\ Take(o, q, s[1], s[c], c)
  /\ list' = [list EXCEPT ![q] = SubSeq(s, c + 1, Len(s)), ![o] = SubSeq(s, 1, c)]
  /\ loop' = [loop EXCEPT ![o] = NoLoop]
  /\ UNCHANGED check_

\* Cutting the first c elements off a queue into an SList keeps the invariant.
LEMMA CutInv ==
  ASSUME QInv, NEW q \in Queue, NEW o \in Owner, NEW c \in 1..Len(list[q]), Cut(q, o, c)
  PROVE  QInv'
  <1>a. QTypeOK /\ Once /\ PieceOwned /\ LoopExact /\ CheckExact
    BY Zenon DEF QInv, ListsLinked
  <1>b. \A x \in Queue : QueueLinked(x)
    BY Zenon DEF QInv, ListsLinked
  <1>c. \A p \in Owner : PieceLinked(p)
    BY ZenonT(60) DEF QInv, ListsLinked
  <1> DEFINE s == list[q]
             n == Len(list[q])
             u == SubSeq(list[q], 1, c)
             v == SubSeq(list[q], c + 1, Len(list[q]))
  <1>1. /\ s \in Seq(Elem) /\ n \in Nat /\ c \in 1..n /\ s # <<>>
        /\ q \in Holder /\ o \in Holder /\ q # o
    BY <1>a, ListFacts
  <1>2. /\ u \in Seq(Elem) /\ Len(u) = c /\ \A i \in 1..c : u[i] = s[i]
        /\ v \in Seq(Elem) /\ Len(v) = n - c
        /\ \A i \in 1..(n - c) : v[i] = s[c + i]
    BY <1>1, SubFacts, Zenon
  <1>3. /\ list'[q] = v /\ list'[o] = u
        /\ \A x \in Holder : x # q /\ x # o => list'[x] = list[x]
        /\ list[o] = <<>> /\ Len(list[o]) = 0
    <2>1. list[o] = <<>>
      BY <1>a, Zenon DEF PieceOwned, Cut
    <2>2. list' = [list EXCEPT ![q] = v, ![o] = u]
      BY Zenon DEF Cut
    <2> HIDE DEF u, v
    <2>3. /\ list'[q] = v /\ list'[o] = u
          /\ \A x \in Holder : x # q /\ x # o => list'[x] = list[x]
      BY <1>a, <1>1, <2>2, Zenon DEF QTypeOK
    <2> QED
      BY <2>1, <2>3, Zenon
  <1>4. /\ \A i \in 1..n : s[i] \in Elem /\ s[i] \in Hook /\ s[i] # null /\ s[i] # q
        /\ \A x \in Queue : x \in Hook /\ x # null /\ x \notin Elem
        /\ null \notin Hook
    BY <1>a, <1>1, ListFacts, ZenonT(60)
  <1>5. \A i, j \in 1..n : s[i] = s[j] => i = j
    BY <1>a, <1>1, Zenon DEF Once
  <1>6. \A x \in Holder : x # q => \A j \in 1..Len(list[x]), k \in 1..n : list[x][j] # s[k]
    BY <1>a, <1>1, Zenon DEF Once
  <1>7. \A i \in 1..n : /\ prev[s[i]] = IF i = 1 THEN q ELSE s[i - 1]
                        /\ next[s[i]] = IF i = n THEN null ELSE s[i + 1]
    BY <1>b, Zenon DEF QueueLinked, Links
  <1>8. next[q] = s[1] /\ tail_[q] = s[n] /\ count_[q] = n
    BY <1>b, <1>1, Zenon DEF QueueLinked
  <1>9. \A z \in Elem : In(z, s) <=> In(z, u) \/ In(z, v)
    BY <1>1, SubIn, ZenonT(60)
  <1>10. \A x \in Holder : \A j \in 1..Len(list[x]) : list[x][j] \in Elem /\ list[x][j] \in Hook
    BY <1>a, ListFacts, ZenonT(60)
  <1>11. /\ next' = [next EXCEPT ![q] = next[s[c]], ![s[c]] = null]
         /\ prev' = [Put(prev, next[s[c]], q) EXCEPT ![s[1]] = null]
         /\ tail_' = [tail_ EXCEPT ![q] = IF c = n THEN q ELSE @]
         /\ count_' = [count_ EXCEPT ![q] = @ - c]
         /\ Take(o, q, s[1], s[c], c)
         /\ loop' = [loop EXCEPT ![o] = NoLoop]
         /\ check_' = check_ /\ piece[o].check_ = null
         /\ \A p \in Owner : p # o => loop[p].q # q
    BY Zenon DEF Cut
  <1>12. list' \in [Holder -> Seq(Elem)]
    BY <1>a, <1>1, <1>2, ZenonT(60) DEF QTypeOK, Cut
  <1> HIDE DEF s, n, u, v
  <1>13. /\ next' \in [Hook -> Elem \cup {null}]
         /\ next'[q] = (IF c = n THEN null ELSE s[c + 1]) /\ next'[s[c]] = null
         /\ \A h \in Hook : h # q /\ h # s[c] => next'[h] = next[h]
    <2>1. next[s[c]] = IF c = n THEN null ELSE s[c + 1]
      BY <1>1, <1>7, Zenon
    <2>2. s[c] \in Hook /\ s[c] # q /\ q \in Hook /\ next[s[c]] \in Elem \cup {null}
      BY <1>a, <1>1, <1>4, ZenonT(60) DEF QTypeOK
    <2> QED
      BY <1>a, <1>11, <2>1, <2>2, ZenonT(60) DEF QTypeOK
  <1>14. /\ prev' \in [Hook -> Hook \cup {null}]
         /\ prev'[s[1]] = null
         /\ c < n => prev'[s[c + 1]] = q
         /\ \A h \in Hook : h # s[1] /\ (c < n => h # s[c + 1]) => prev'[h] = prev[h]
    <2>1. s[1] \in Hook /\ q \in Hook
      BY <1>1, <1>4, SMTT(60)
    <2>2. CASE c = n
      <3>1. next[s[c]] = null
        BY <2>2, <1>1, <1>7, Zenon
      <3> QED
        BY <1>a, <1>1, <1>11, <2>1, <2>2, <3>1, SMTT(60) DEF QTypeOK, Put
    <2>3. CASE c # n
      <3>1. c < n /\ c + 1 \in 1..n /\ 1 \in 1..n /\ c + 1 # 1
        BY <1>1, <2>3
      <3>2. /\ next[s[c]] = s[c + 1] /\ s[c + 1] # null /\ s[c + 1] \in Hook
            /\ s[c + 1] # s[1]
        BY <1>1, <2>3, <3>1, <1>4, <1>5, <1>7, Zenon
      <3>3. prev' = [prev EXCEPT ![s[c + 1]] = q, ![s[1]] = null]
        BY <1>11, <3>2, ZenonT(60) DEF Put
      <3> QED
        BY <1>a, <2>1, <3>1, <3>2, <3>3, ZenonT(60) DEF QTypeOK
    <2> QED
      BY <2>2, <2>3, Zenon
  <1>15. /\ tail_'[q] = (IF c = n THEN q ELSE s[n]) /\ count_'[q] = n - c
         /\ \A x \in Queue : x # q => tail_'[x] = tail_[x] /\ count_'[x] = count_[x]
         /\ tail_' \in [Queue -> Hook] /\ count_' \in [Queue -> Nat]
    <2>1. n - c \in Nat /\ count_[q] - c = n - c
      BY <1>1, <1>8
    <2>2. s[n] \in Hook /\ q \in Hook
      BY <1>1, <1>4
    <2> QED
      BY <1>a, <1>8, <1>11, <2>1, <2>2, ZenonT(60) DEF QTypeOK
  <1>16. /\ piece'[o] = [head_ |-> s[1], tail_ |-> s[c], count_ |-> c, check_ |-> q]
         /\ it'[o] = s[1] /\ pos'[o] = 1 /\ loop'[o] = NoLoop
         /\ \A p \in Owner : p # o => /\ piece'[p] = piece[p] /\ it'[p] = it[p]
                                      /\ pos'[p] = pos[p] /\ loop'[p] = loop[p]
    BY <1>a, <1>11, Zenon DEF QTypeOK, Take
  <1>17. QTypeOK'
    <2>1. s[1] \in Elem /\ s[c] \in Elem /\ c \in Nat
      BY <1>1, <1>4, SMTT(60)
    <2>2. piece' \in [Owner -> [head_ : Elem \cup {null}, tail_ : Elem \cup {null},
                                count_ : Nat, check_ : Queue \cup {null}]]
      BY <1>a, <1>11, <2>1, ZenonT(60) DEF QTypeOK, Take
    <2>3. it' \in [Owner -> Elem \cup {null}] /\ pos' \in [Owner -> Nat \ {0}]
      BY <1>a, <1>11, <2>1 DEF QTypeOK, Take
    <2>4. loop' \in [Owner -> [q : Queue \cup {null}, n : Nat, c : Nat,
                               last : Elem \cup {null}]]
      BY <1>a, <1>11, ZenonT(60) DEF QTypeOK, NoLoop
    <2>5. check_' \in [Elem -> Queue \cup {null}]
      BY <1>a, <1>11, Zenon DEF QTypeOK
    <2> QED
      BY <2>2, <2>3, <2>4, <2>5, <1>12, <1>13, <1>14, <1>15, ZenonT(60) DEF QTypeOK
  <1>18. Once'
    <2> SUFFICES ASSUME NEW x \in Holder, NEW y \in Holder,
                        NEW i \in 1..Len(list'[x]), NEW j \in 1..Len(list'[y]),
                        list'[x][i] = list'[y][j]
                 PROVE  x = y /\ i = j
      BY Zenon DEF Once
    <2>1. x = q => \E k \in 1..n : list'[x][i] = s[k] /\ k = c + i
      <3>1. x = q => i \in 1..(n - c) /\ list'[x][i] = s[c + i]
        BY <1>2, <1>3, Zenon
      <3>2. i \in 1..(n - c) => c + i \in 1..n
        BY <1>1
      <3> QED
        BY <3>1, <3>2, Zenon
    <2>2. x = o => \E k \in 1..n : list'[x][i] = s[k] /\ k = i /\ k <= c
      BY <1>1, <1>2, <1>3
    <2>3. y = q => \E k \in 1..n : list'[y][j] = s[k] /\ k = c + j
      <3>1. y = q => j \in 1..(n - c) /\ list'[y][j] = s[c + j]
        BY <1>2, <1>3, Zenon
      <3>2. j \in 1..(n - c) => c + j \in 1..n
        BY <1>1
      <3> QED
        BY <3>1, <3>2, Zenon
    <2>4. y = o => \E k \in 1..n : list'[y][j] = s[k] /\ k = j /\ k <= c
      BY <1>1, <1>2, <1>3, SMTT(60)
    <2>5. i \in Nat \ {0} /\ j \in Nat \ {0} /\ c \in Nat
      <3>1. \A w \in Holder : Len(list'[w]) \in Nat
        BY <1>12, SMTT(60)
      <3> QED
        BY <3>1, <1>1
    <2>6. CASE x \in {q, o} /\ y \in {q, o}
      <3>1. CASE x = y
        BY <2>1, <2>2, <2>3, <2>4, <2>5, <2>6, <3>1, <1>5, SMTT(60)
      <3>2. CASE x # y
        BY <2>1, <2>2, <2>3, <2>4, <2>5, <2>6, <3>2, <1>5, SMTT(60)
      <3> QED
        BY <3>1, <3>2, Zenon
    <2>7. CASE x \notin {q, o} /\ y \in {q, o}
      BY <2>3, <2>4, <2>7, <1>3, <1>6, SMTT(60)
    <2>8. CASE x \in {q, o} /\ y \notin {q, o}
      BY <2>1, <2>2, <2>8, <1>3, <1>6, SMTT(60)
    <2>9. CASE x \notin {q, o} /\ y \notin {q, o}
      <3>1. list'[x] = list[x] /\ list'[y] = list[y]
        BY <2>9, <1>3, Zenon
      <3>2. i \in 1..Len(list[x]) /\ j \in 1..Len(list[y]) /\ list[x][i] = list[y][j]
        BY <3>1, Zenon
      <3>3. \A k \in 1..Len(list[x]), l \in 1..Len(list[y]) :
              list[x][k] = list[y][l] => x = y /\ k = l
        BY <1>a, Zenon DEF Once
      <3> QED
        BY <3>2, <3>3, Zenon
    <2> QED
      BY <2>6, <2>7, <2>8, <2>9, Zenon
  <1>19. PieceOwned'
    <2>1. \A p \in Owner : p # o => list'[p] = list[p]
      BY <1>a, <1>3, ListFacts, ZenonT(60)
    <2>2. piece'[o].check_ # null /\ loop'[o].q = null /\ pos'[o] <= Len(list'[o]) + 1
      BY <1>1, <1>2, <1>3, <1>4, <1>16, SMTT(60) DEF NoLoop
    <2> QED
      BY <1>a, <1>16, <2>1, <2>2, SMTT(60) DEF PieceOwned
  <1>20. LoopExact'
    <2>1. ASSUME NEW p \in Owner, p # o, loop[p].q # null
          PROVE  list'[loop[p].q] = list[loop[p].q]
      <3>1. loop[p].q \in Queue /\ loop[p].q # q
        BY <1>a, <1>11, <2>1, ZenonT(60) DEF QTypeOK
      <3> QED
        BY <1>a, <1>3, <3>1, ListFacts, ZenonT(60)
    <2>2. loop'[o].q = null
      BY <1>16 DEF NoLoop
    <2>3. ASSUME NEW p \in Owner
          PROVE  /\ loop'[p].q = null => loop'[p] = NoLoop
                 /\ loop'[p].q # null =>
                      /\ loop'[p].c \in 1..Len(list'[loop'[p].q])
                      /\ loop'[p].last = list'[loop'[p].q][loop'[p].c]
                      /\ \A r \in Owner : loop'[r].q = loop'[p].q => r = p
      <3>1. CASE p = o
        BY <3>1, <2>2, <1>16, Zenon
      <3>2. CASE p # o
        <4>1. /\ loop[p].q = null => loop[p] = NoLoop
              /\ loop[p].q # null =>
                   /\ loop[p].c \in 1..Len(list[loop[p].q])
                   /\ loop[p].last = list[loop[p].q][loop[p].c]
                   /\ \A r \in Owner : loop[r].q = loop[p].q => r = p
          BY <1>a, Zenon DEF LoopExact
        <4>2. loop'[p] = loop[p] /\ \A r \in Owner : r # o => loop'[r] = loop[r]
          BY <3>2, <1>16, Zenon
        <4> QED
          BY <3>2, <4>1, <4>2, <2>1, <2>2, Zenon
      <3> QED
        BY <3>1, <3>2, Zenon
    <2> QED
      BY <2>3, Zenon DEF LoopExact
  <1>21. ASSUME NEW x \in Queue PROVE QueueLinked(x)'
    <2>1. CASE x = q
      <3>1. ASSUME NEW j \in 1..(n - c)
            PROVE  /\ prev'[v[j]] = IF j = 1 THEN q ELSE v[j - 1]
                   /\ next'[v[j]] = IF j = n - c THEN null ELSE v[j + 1]
        <4>1. c + j \in 1..n /\ c + j # c /\ c + j # 1 /\ c \in 1..n /\ 1 \in 1..n /\ c < n
          BY <1>1
        <4>2. v[j] = s[c + j] /\ s[c + j] # s[c] /\ s[c + j] # s[1]
          BY <4>1, <1>2, <1>5, ZenonT(60)
        <4>3. next'[v[j]] = IF c + j = n THEN null ELSE s[c + j + 1]
          BY <4>1, <4>2, <1>4, <1>7, <1>13
        <4>4. j # n - c => j + 1 \in 1..(n - c) /\ c + (j + 1) = c + j + 1
          BY <1>1
        <4>5. j # n - c => v[j + 1] = s[c + j + 1]
          BY <4>4, <1>2, ZenonT(60)
        <4>6. next'[v[j]] = IF j = n - c THEN null ELSE v[j + 1]
          BY <4>3, <4>5, <1>1, SMTT(60)
        <4>7. j = 1 => prev'[v[j]] = q
          BY <4>1, <4>2, <1>14, Zenon
        <4>8. ASSUME j # 1 PROVE prev'[v[j]] = v[j - 1]
          <5>1. c + 1 \in 1..n /\ c + j # c + 1 /\ j - 1 \in 1..(n - c)
                  /\ c + (j - 1) = (c + j) - 1
            BY <4>8, <1>1, SMTT(60)
          <5>2. prev'[v[j]] = prev[s[c + j]]
            BY <5>1, <4>1, <4>2, <1>4, <1>5, <1>14, ZenonT(60)
          <5>3. prev[s[c + j]] = s[(c + j) - 1]
            BY <4>1, <1>7, Zenon
          <5> QED
            BY <5>1, <5>2, <5>3, <1>2, Zenon
        <4> QED
          BY <4>6, <4>7, <4>8, Zenon
      <3>2. v = <<>> <=> c = n
        BY <1>1, <1>2
      <3>3. next'[q] = IF v = <<>> THEN null ELSE v[1]
        BY <3>2, <1>1, <1>2, <1>13
      <3>4. tail_'[q] = IF v = <<>> THEN q ELSE v[n - c]
        <4>1. c # n => n - c \in 1..(n - c) /\ c + (n - c) = n
          BY <1>1
        <4>2. c # n => v[n - c] = s[n]
          BY <4>1, <1>2, Zenon
        <4> QED
          BY <3>2, <4>2, <1>15, Zenon
      <3>5. Len(v) = n - c
        BY <1>2
      <3> QED
        BY <2>1, <3>1, <3>3, <3>4, <3>5, <1>3, <1>15, SMTT(60) DEF QueueLinked, Links
    <2>2. CASE x # q
      <3>1. x \in Holder /\ x # o
        BY <1>a, ListFacts, ZenonT(60)
      <3>2. \A i \in 1..Len(list[x]) : /\ next'[list[x][i]] = next[list[x][i]]
                                       /\ prev'[list[x][i]] = prev[list[x][i]]
        <4> SUFFICES ASSUME NEW i \in 1..Len(list[x])
                     PROVE  /\ next'[list[x][i]] = next[list[x][i]]
                            /\ prev'[list[x][i]] = prev[list[x][i]]
          BY ZenonT(60)
        <4>1. list[x][i] \in Hook /\ \A k \in 1..n : list[x][i] # s[k]
          BY <2>2, <3>1, <1>6, <1>10, Zenon
        <4>2. list[x][i] # q
          BY <3>1, <1>4, <1>10, Zenon
        <4>3. 1 \in 1..n /\ c \in 1..n /\ (c < n => c + 1 \in 1..n)
          BY <1>1
        <4> QED
          BY <4>1, <4>2, <4>3, <1>13, <1>14, ZenonT(60)
      <3>3. next'[x] = next[x]
        BY <2>2, <1>1, <1>4, <1>13, Zenon
      <3> QED
        BY <2>2, <3>1, <3>2, <3>3, <1>a, <1>b, <1>3, <1>15, QueueFrame, ZenonT(60)
    <2> QED
      BY <2>1, <2>2, ZenonT(60)
  <1>22. ASSUME NEW p \in Owner PROVE PieceLinked(p)'
    <2>1. CASE p = o
      <3>1. ASSUME NEW j \in 1..c
            PROVE  /\ prev'[u[j]] = IF j = 1 THEN null ELSE u[j - 1]
                   /\ next'[u[j]] = IF j = c THEN null ELSE u[j + 1]
        <4>1. j \in 1..n /\ c \in 1..n /\ (c < n => c + 1 \in 1..n /\ j # c + 1) /\ 1 \in 1..n
          BY <1>1
        <4>2. u[j] = s[j] /\ s[j] \in Hook /\ s[j] # q
          BY <4>1, <1>2, <1>4, Zenon
        <4>3. c < n => s[j] # s[c + 1]
          BY <4>1, <1>5, ZenonT(60)
        <4>4. CASE j = 1
          <5>1. prev'[u[j]] = null
            BY <4>2, <4>4, <1>14, ZenonT(60)
          <5> QED
            <6>1. 1 # c => 2 \in 1..c /\ 2 = 1 + 1 /\ 1 # n /\ s[1] # s[c]
              BY <4>1, <1>1, <1>5
            <6>2. next'[u[1]] = IF 1 = c THEN null ELSE s[1 + 1]
              BY <6>1, <4>1, <4>2, <4>4, <1>7, <1>13, Zenon
            <6>3. 1 # c => u[1 + 1] = s[1 + 1]
              BY <6>1, <1>2, Zenon
            <6> QED
              BY <5>1, <6>2, <6>3, <4>4, Zenon
        <4>5. CASE j # 1
          <5>1. prev'[u[j]] = s[j - 1] /\ u[j - 1] = s[j - 1]
            <6>1. s[j] # s[1] /\ j - 1 \in 1..c
              BY <4>1, <4>5, <1>1, <1>5, SMTT(60)
            <6>2. prev'[s[j]] = prev[s[j]] /\ prev[s[j]] = s[j - 1]
              BY <6>1, <4>1, <4>2, <4>3, <4>5, <1>7, <1>14, ZenonT(60)
            <6> QED
              BY <6>1, <6>2, <4>2, <1>2, Zenon
          <5>2. j = c => next'[u[j]] = null
            BY <4>2, <1>13, ZenonT(60)
          <5>3. j # c => next'[u[j]] = s[j + 1] /\ u[j + 1] = s[j + 1]
            <6> SUFFICES ASSUME j # c PROVE next'[u[j]] = s[j + 1] /\ u[j + 1] = s[j + 1]
              BY Zenon
            <6>1. s[j] # s[c] /\ j # n /\ j + 1 \in 1..c
              BY <4>1, <1>1, <1>5, SMTT(60)
            <6>2. next'[s[j]] = next[s[j]] /\ next[s[j]] = s[j + 1]
              BY <6>1, <4>1, <4>2, <1>7, <1>13, Zenon
            <6> QED
              BY <6>1, <6>2, <4>2, <1>2, Zenon
          <5> QED
            BY <4>5, <5>1, <5>2, <5>3, Zenon
        <4> QED
          BY <4>4, <4>5, Zenon
      <3>2. u # <<>> /\ u[1] = s[1] /\ u[c] = s[c] /\ c >= 1
        BY <1>1, <1>2, SMTT(60)
      <3>3. Links(list[p], null)'
        BY <2>1, <3>1, <1>2, <1>3, SMTT(60) DEF Links
      <3> QED
        BY <2>1, <3>2, <3>3, <1>2, <1>3, <1>16, SMTT(60) DEF PieceLinked
    <2>2. CASE p # o
      <3>1. p \in Holder /\ p # q
        BY <1>a, ListFacts, ZenonT(60)
      <3>2. \A i \in 1..Len(list[p]) : /\ next'[list[p][i]] = next[list[p][i]]
                                       /\ prev'[list[p][i]] = prev[list[p][i]]
        <4> SUFFICES ASSUME NEW i \in 1..Len(list[p])
                     PROVE  /\ next'[list[p][i]] = next[list[p][i]]
                            /\ prev'[list[p][i]] = prev[list[p][i]]
          BY ZenonT(60)
        <4>1. list[p][i] \in Hook /\ \A k \in 1..n : list[p][i] # s[k]
          BY <3>1, <1>6, <1>10, Zenon
        <4>2. list[p][i] # q
          BY <3>1, <1>4, <1>10, Zenon
        <4>3. 1 \in 1..n /\ c \in 1..n /\ (c < n => c + 1 \in 1..n)
          BY <1>1
        <4> QED
          BY <4>1, <4>2, <4>3, <1>13, <1>14, ZenonT(60)
      <3> QED
        BY <2>2, <3>1, <3>2, <1>a, <1>c, <1>3, <1>16, PieceFrame, Zenon
    <2> QED
      BY <2>1, <2>2, ZenonT(60)
  <1>23. CheckExact'
    <2>1. ASSUME NEW z \in Elem, NEW y \in Queue
          PROVE  (check_'[z] = y) <=>
                   \/ In(z, list'[y])
                   \/ \E p \in Owner : piece'[p].check_ = y /\ In(z, list'[p])
      <3>1. check_[z] = y <=>
              In(z, list[y]) \/ \E p \in Owner : piece[p].check_ = y /\ In(z, list[p])
        BY <1>a, ZenonT(60) DEF CheckExact
      <3>2. /\ piece[o].check_ # y /\ piece'[o].check_ = q
            /\ \A p \in Owner : p # o => /\ piece'[p].check_ = piece[p].check_
                                         /\ list'[p] = list[p]
        BY <1>a, <1>3, <1>4, <1>11, <1>16, ListFacts, SMTT(60)
      <3>3. CASE y = q
        BY <3>1, <3>2, <3>3, <1>3, <1>9, <1>11, Zenon DEF s
      <3>4. CASE y # q
        <4>1. list'[y] = list[y]
          BY <3>4, <1>a, <1>3, ListFacts, Zenon
        <4> QED
          BY <3>1, <3>2, <3>4, <4>1, <1>11, ZenonT(60)
      <3> QED
        BY <3>3, <3>4, Zenon
    <2> QED
      BY <2>1, ZenonT(60) DEF CheckExact, In
  <1> QED
    BY <1>17, <1>18, <1>19, <1>20, <1>21, <1>22, <1>23, Zenon DEF QInv, ListsLinked

\* pop_all keeps the invariant.
LEMMA PopAllInv ==
  ASSUME QInv, NEW q \in Queue, NEW o \in Owner, pop_all(q, o)
  PROVE  QInv'
  <1> DEFINE s == list[q]
             n == Len(list[q])
  <1>a. QTypeOK /\ QueueLinked(q) /\ PieceOwned /\ LoopExact
    BY Zenon DEF QInv, ListsLinked
  <1>1. s \in Seq(Elem) /\ n \in Nat /\ s # <<>> /\ n \in 1..n
    <2>1. s \in Seq(Elem) /\ n \in Nat
      BY <1>a, ListFacts, Zenon
    <2>2. s # <<>>
      BY <1>a, Zenon DEF QueueLinked, pop_all
    <2> QED
      BY <2>1, <2>2
  <1>2. next[q] = s[1] /\ tail_[q] = s[n] /\ count_[q] = n /\ next[s[n]] = null
    BY <1>a, <1>1, Zenon DEF QueueLinked, Links
  <1>3. SubSeq(s, 1, n) = s /\ SubSeq(s, n + 1, n) = <<>>
    BY <1>1
  <1>4. loop[o] = NoLoop /\ loop' = loop /\ check_' = check_ /\ piece[o].check_ = null
    BY DEF pop_all, NoPiece
  <1>5. \A p \in Owner : loop[p].q # q
    BY Zenon DEF pop_all, Locked
  <1>6. loop' = [loop EXCEPT ![o] = NoLoop]
    BY <1>a, <1>4, Zenon DEF QTypeOK
  <1>7. /\ next' = [next EXCEPT ![q] = next[s[n]], ![s[n]] = null]
        /\ prev' = [Put(prev, next[s[n]], q) EXCEPT ![s[1]] = null]
    BY <1>2, Zenon DEF pop_all, Put
  <1>8. /\ tail_' = [tail_ EXCEPT ![q] = IF n = Len(s) THEN q ELSE @]
        /\ count_' = [count_ EXCEPT ![q] = @ - n]
    BY <1>1, <1>2 DEF pop_all
  <1>9. Take(o, q, s[1], s[n], n)
    BY <1>2, Zenon DEF pop_all
  <1>10. list' = [list EXCEPT ![q] = SubSeq(s, n + 1, Len(s)), ![o] = SubSeq(s, 1, n)]
    BY <1>3, ZenonT(60) DEF pop_all
  <1>11. Cut(q, o, n)
    BY <1>4, <1>5, <1>6, <1>7, <1>8, <1>9, <1>10, ZenonT(60) DEF Cut
  <1> QED
    BY <1>1, <1>11, CutInv, Zenon

\* The start of pop(n) keeps the invariant.
LEMMA PopNInv ==
  ASSUME QInv, NEW q \in Queue, NEW o \in Owner, NEW k \in PopMax, pop_n(q, o, k)
  PROVE  QInv'
  <1>a. QTypeOK /\ Once /\ PieceOwned /\ LoopExact /\ CheckExact
    BY Zenon DEF QInv, ListsLinked
  <1>b. /\ \A x \in Queue : QueueLinked(x)
        /\ \A p \in Owner : PieceLinked(p)
    BY ZenonT(60) DEF QInv, ListsLinked
  <1>1. UNCHANGED <<prev, next, check_, tail_, count_, piece, it, pos, list>>
    BY ZenonT(60) DEF pop_n, links, queues, pieces
  <1>2. /\ list[q] # <<>> /\ Len(list[q]) \in Nat /\ 1 \in 1..Len(list[q])
        /\ next[q] = list[q][1] /\ next[q] \in Elem /\ q # null
    <2>1. list[q] # <<>>
      BY <1>b, Zenon DEF QueueLinked, pop_n
    <2>2. Len(list[q]) \in Nat /\ 1 \in 1..Len(list[q]) /\ q # null
      BY <1>a, <2>1, ListFacts, SMTT(60)
    <2> QED
      BY <1>a, <1>b, <2>1, <2>2, ListFacts, ZenonT(60) DEF QueueLinked
  <1>3. /\ loop'[o] = [q |-> q, n |-> k, c |-> 1, last |-> next[q]]
        /\ \A p \in Owner : p # o => loop'[p] = loop[p]
    BY <1>a, Zenon DEF pop_n, QTypeOK
  <1>4. k \in Nat
    BY TSQueueAssumption, Zenon
  <1>5. QTypeOK'
    <2>1. loop' \in [Owner -> [q : Queue \cup {null}, n : Nat, c : Nat,
                               last : Elem \cup {null}]]
      BY <1>a, <1>2, <1>4, Zenon DEF pop_n, QTypeOK
    <2> QED
      BY <1>a, <1>1, <2>1, ZenonT(60) DEF QTypeOK
  <1>6. PieceOwned'
    <2>0. piece[o] = NoPiece
      BY Zenon DEF pop_n
    <2>1. piece[o].check_ = null
      BY <2>0, NoPieceFields, Zenon
    <2> QED
      BY <2>1, <1>a, <1>1, <1>3, ZenonT(60) DEF PieceOwned
  <1>7. LoopExact'
    <2>1. \A p \in Owner : loop[p].q # q
      BY ZenonT(60) DEF pop_n, Locked
    <2> QED
      <3>1. loop'[o].q = q /\ loop'[o].c = 1 /\ loop'[o].last = list[q][1]
        BY <1>2, <1>3
      <3>2. ASSUME NEW p \in Owner
            PROVE  /\ loop'[p].q = null => loop'[p] = NoLoop
                   /\ loop'[p].q # null =>
                        /\ loop'[p].c \in 1..Len(list'[loop'[p].q])
                        /\ loop'[p].last = list'[loop'[p].q][loop'[p].c]
                        /\ \A r \in Owner : loop'[r].q = loop'[p].q => r = p
        <4>1. CASE p = o
          BY <4>1, <3>1, <2>1, <1>1, <1>2, <1>3, Zenon
        <4>2. CASE p # o
          <5>1. /\ loop[p].q = null => loop[p] = NoLoop
                /\ loop[p].q # null =>
                     /\ loop[p].c \in 1..Len(list[loop[p].q])
                     /\ loop[p].last = list[loop[p].q][loop[p].c]
                     /\ \A r \in Owner : loop[r].q = loop[p].q => r = p
            BY <1>a, Zenon DEF LoopExact
          <5>2. loop'[p] = loop[p] /\ list' = list
            BY <4>2, <1>1, <1>3, Zenon
          <5> QED
            BY <4>2, <5>1, <5>2, <3>1, <2>1, <1>3, Zenon
        <4> QED
          BY <4>1, <4>2, Zenon
      <3> QED
        BY <3>2, Zenon DEF LoopExact
  <1>8. Once' /\ CheckExact'
    BY <1>a, <1>1, SameLists, Zenon
  <1>9. ASSUME NEW x \in Queue PROVE QueueLinked(x)'
    BY <1>a, <1>b, <1>1, QueueFrame, ZenonT(60)
  <1>10. ASSUME NEW p \in Owner PROVE PieceLinked(p)'
    BY <1>a, <1>b, <1>1, PieceFrame, ZenonT(60)
  <1> QED
    BY <1>5, <1>6, <1>7, <1>8, <1>9, <1>10, Zenon DEF QInv, ListsLinked

\* A turn of the loop of pop(n) keeps the invariant.
LEMMA PopNLoopInv ==
  ASSUME QInv, NEW o \in Owner, pop_n_loop(o)
  PROVE  QInv'
  <1> DEFINE q == loop[o].q
             c == loop[o].c
  <1>a. QTypeOK /\ Once /\ PieceOwned /\ LoopExact /\ CheckExact
    BY Zenon DEF QInv, ListsLinked
  <1>b. /\ \A x \in Queue : QueueLinked(x)
        /\ \A p \in Owner : PieceLinked(p)
    BY Zenon DEF QInv, ListsLinked
  <1>1. UNCHANGED <<prev, next, check_, tail_, count_, piece, it, pos, list>>
    BY ZenonT(60) DEF pop_n_loop, links, queues, pieces
  <1>2. /\ q \in Queue /\ Len(list[q]) \in Nat /\ c \in 1..Len(list[q])
        /\ loop[o].last = list[q][c] /\ next[loop[o].last] # null
    <2>1. q \in Queue /\ next[loop[o].last] # null
      BY <1>a, ZenonT(60) DEF pop_n_loop, More, QTypeOK
    <2> QED
      BY <2>1, <1>a, ListFacts DEF LoopExact
  <1>3. next[loop[o].last] = IF c = Len(list[q]) THEN null ELSE list[q][c + 1]
    <2>1. Links(list[q], q)
      BY <1>b, <1>2, Zenon DEF QueueLinked
    <2> QED
      BY <2>1, <1>2, Zenon DEF Links
  <1>4. c + 1 \in 1..Len(list[q]) /\ next[loop[o].last] = list[q][c + 1]
    <2>1. c # Len(list[q]) /\ next[loop[o].last] = list[q][c + 1]
      BY <1>2, <1>3, Zenon
    <2>2. c + 1 \in 1..Len(list[q])
      BY <2>1, <1>2
    <2> QED
      BY <2>1, <2>2, Zenon
  <1>5. /\ loop'[o] = [loop[o] EXCEPT !.last = list[q][c + 1], !.c = c + 1]
        /\ \A p \in Owner : p # o => loop'[p] = loop[p]
    BY <1>a, <1>4, Zenon DEF pop_n_loop, QTypeOK
  <1>6. /\ loop'[o].q = q /\ loop'[o].c = c + 1 /\ loop'[o].last = list[q][c + 1]
    BY <1>a, <1>5, SMTT(60) DEF QTypeOK
  <1>7. list[q][c + 1] \in Elem
    BY <1>a, <1>2, <1>4, ListFacts, ZenonT(60)
  <1>8. QTypeOK'
    <2>1. loop' \in [Owner -> [q : Queue \cup {null}, n : Nat, c : Nat,
                               last : Elem \cup {null}]]
      <3> DEFINE r == [loop[o] EXCEPT !.last = list[q][c + 1], !.c = c + 1]
      <3>1. loop' = [loop EXCEPT ![o] = r]
        BY <1>4, ZenonT(60) DEF pop_n_loop
      <3>2. loop[o] \in [q : Queue \cup {null}, n : Nat, c : Nat, last : Elem \cup {null}]
        BY <1>a, Zenon DEF QTypeOK
      <3>3. c + 1 \in Nat
        BY <3>2
      <3>4. r \in [q : Queue \cup {null}, n : Nat, c : Nat, last : Elem \cup {null}]
        BY <3>2, <3>3, <1>7, ZenonT(60)
      <3> HIDE DEF r
      <3> QED
        BY <3>1, <3>4, <1>a, Zenon DEF QTypeOK
    <2> QED
      BY <1>a, <1>1, <2>1, SMTT(60) DEF QTypeOK
  <1>9. PieceOwned'
    BY <1>a, <1>1, <1>5, <1>6, ZenonT(60) DEF PieceOwned
  <1>10. q # null
    BY Zenon DEF pop_n_loop
  <1> HIDE DEF c
  <1>11. LoopExact'
    <2>1. ASSUME NEW p \in Owner
          PROVE  /\ loop'[p].q = null => loop'[p] = NoLoop
                 /\ loop'[p].q # null =>
                      /\ loop'[p].c \in 1..Len(list'[loop'[p].q])
                      /\ loop'[p].last = list'[loop'[p].q][loop'[p].c]
                      /\ \A r \in Owner : loop'[r].q = loop'[p].q => r = p
      <3>1. \A r \in Owner : loop'[r].q = loop[r].q
        BY <1>5, <1>6, ZenonT(60)
      <3>2. CASE p = o
        BY <3>1, <3>2, <1>a, <1>1, <1>4, <1>6, <1>10, SMTT(60) DEF LoopExact
      <3>3. CASE p # o
        <4>1. /\ loop[p].q = null => loop[p] = NoLoop
              /\ loop[p].q # null =>
                   /\ loop[p].c \in 1..Len(list[loop[p].q])
                   /\ loop[p].last = list[loop[p].q][loop[p].c]
                   /\ \A r \in Owner : loop[r].q = loop[p].q => r = p
          BY <1>a, Zenon DEF LoopExact
        <4>2. loop'[p] = loop[p] /\ list' = list
          BY <3>3, <1>1, <1>5, Zenon
        <4> QED
          BY <3>1, <4>1, <4>2, Zenon
      <3> QED
        BY <3>2, <3>3, Zenon
    <2> QED
      BY <2>1, ZenonT(60) DEF LoopExact
  <1>12. Once' /\ CheckExact'
    BY <1>a, <1>1, SameLists, Zenon
  <1>13. ASSUME NEW x \in Queue PROVE QueueLinked(x)'
    BY <1>a, <1>b, <1>1, QueueFrame, ZenonT(60)
  <1>14. ASSUME NEW p \in Owner PROVE PieceLinked(p)'
    BY <1>a, <1>b, <1>1, PieceFrame, SMTT(60)
  <1> QED
    BY <1>8, <1>9, <1>11, <1>12, <1>13, <1>14, Zenon DEF QInv, ListsLinked

\* The end of pop(n), where the SList is cut off, keeps the invariant.
LEMMA PopNCutInv ==
  ASSUME QInv, NEW o \in Owner, pop_n_cut(o)
  PROVE  QInv'
  <1> DEFINE q == loop[o].q
             c == loop[o].c
             s == list[loop[o].q]
  <1>a. QTypeOK /\ Once /\ PieceOwned /\ LoopExact
    BY ZenonT(60) DEF QInv, ListsLinked
  <1>1. q \in Queue /\ q # null
    BY <1>a, ZenonT(60) DEF pop_n_cut, QTypeOK
  <1>2. c \in 1..Len(s) /\ loop[o].last = s[c] /\ piece[o].check_ = null
    BY <1>a, <1>1, ZenonT(60) DEF LoopExact, PieceOwned
  <1>3. QueueLinked(q) /\ Len(s) \in Nat /\ s # <<>> /\ Len(s) \in 1..Len(s) /\ q \in Holder
    BY <1>a, <1>1, <1>2, ListFacts, SMTT(60) DEF QInv, ListsLinked
  <1>4. next[q] = s[1] /\ tail_[q] = s[Len(s)]
    BY <1>3, ZenonT(60) DEF QueueLinked
  <1>5. s[c] = tail_[q] <=> c = Len(s)
    BY <1>a, <1>2, <1>3, <1>4, SMTT(60) DEF Once
  <1>6. \A p \in Owner : p # o => loop[p].q # q
    BY <1>a, <1>1, SMTT(60) DEF LoopExact
  <1>7. /\ next' = [next EXCEPT ![q] = next[s[c]], ![s[c]] = null]
        /\ prev' = [Put(prev, next[s[c]], q) EXCEPT ![s[1]] = null]
        /\ count_' = [count_ EXCEPT ![q] = @ - c]
        /\ Take(o, q, s[1], s[c], c)
        /\ list' = [list EXCEPT ![q] = SubSeq(s, c + 1, Len(s)), ![o] = SubSeq(s, 1, c)]
        /\ loop' = [loop EXCEPT ![o] = NoLoop]
        /\ check_' = check_
    BY <1>2, <1>4, ZenonT(60) DEF pop_n_cut
  <1>8. tail_' = [tail_ EXCEPT ![q] = IF c = Len(s) THEN q ELSE @]
    BY <1>2, <1>5, ZenonT(60) DEF pop_n_cut
  <1>9. Cut(q, o, c)
    BY <1>2, <1>6, <1>7, <1>8, ZenonT(60) DEF Cut
  <1> QED
    BY <1>1, <1>2, <1>9, CutInv, Zenon

-----------------------------------------------------------------------------
(* push of an SList, and the theorem *)

\* An element of two lists joined is in one of them.
LEMMA CatIn ==
  ASSUME NEW S, NEW s \in Seq(S), NEW t \in Seq(S), NEW z
  PROVE  In(z, s \o t) <=> In(z, s) \/ In(z, t)
  <1> DEFINE w == s \o t
  <1>1. Len(s) \in Nat /\ Len(t) \in Nat
    OBVIOUS
  <1>2. /\ Len(w) = Len(s) + Len(t)
        /\ \A i \in 1..Len(s) : w[i] = s[i]
        /\ \A i \in 1..Len(t) : w[Len(s) + i] = t[i]
    BY CatFacts
  <1> HIDE DEF w
  <1>3. In(z, s) => In(z, w)
    BY <1>1, <1>2 DEF In
  <1>4. In(z, t) => In(z, w)
    <2> SUFFICES ASSUME NEW i \in 1..Len(t), t[i] = z PROVE In(z, w)
      BY Zenon DEF In
    <2>1. Len(s) + i \in 1..Len(w) /\ w[Len(s) + i] = z
      BY <1>1, <1>2, SMTT(60)
    <2> QED
      BY <2>1, Zenon DEF In
  <1>5. In(z, w) => In(z, s) \/ In(z, t)
    <2> SUFFICES ASSUME NEW i \in 1..Len(w), w[i] = z PROVE In(z, s) \/ In(z, t)
      BY Zenon DEF In
    <2>1. CASE i <= Len(s)
      BY <2>1, <1>1, <1>2 DEF In
    <2>2. CASE i > Len(s)
      <3>1. i - Len(s) \in 1..Len(t) /\ Len(s) + (i - Len(s)) = i
        BY <2>2, <1>1, <1>2
      <3>2. t[i - Len(s)] = z
        BY <3>1, <1>2, SMTT(60)
      <3> QED
        BY <3>1, <3>2, Zenon DEF In
    <2> QED
      BY <2>1, <2>2, <1>1, <1>2
  <1> QED
    BY <1>3, <1>4, <1>5, Zenon DEF w

\* push(SList) keeps the invariant.
LEMMA PushListInv ==
  ASSUME QInv, NEW o \in Owner, push_list(o)
  PROVE  QInv'
  <1>a. QTypeOK /\ Once /\ PieceOwned /\ LoopExact /\ CheckExact
    BY Zenon DEF QInv, ListsLinked
  <1>b. \A x \in Queue : QueueLinked(x)
    BY Zenon DEF QInv, ListsLinked
  <1>c. \A p \in Owner : PieceLinked(p)
    BY SMTT(60) DEF QInv, ListsLinked
  <1> DEFINE q == piece[o].check_
             s == list[q]
             u == list[o]
             t == s \o u
             n == Len(s)
             k == Len(u)
  <1>1. /\ q \in Queue /\ q # null /\ q \in Holder /\ o \in Holder /\ q # o
        /\ s \in Seq(Elem) /\ u \in Seq(Elem) /\ n \in Nat /\ k \in Nat
    <2>1. q \in Queue /\ q # null
      <3>1. q # null
        BY Zenon DEF push_list
      <3>2. piece[o] \in [head_ : Elem \cup {null}, tail_ : Elem \cup {null},
                          count_ : Nat, check_ : Queue \cup {null}]
        BY <1>a, Zenon DEF QTypeOK
      <3> QED
        BY <3>1, <3>2
    <2> QED
      BY <2>1, <1>a, ListFacts, ZenonT(60)
  <1>2. /\ t \in Seq(Elem) /\ Len(t) = n + k
        /\ \A i \in 1..n : t[i] = s[i]
        /\ \A i \in 1..k : t[n + i] = u[i]
    <2>1. s \in Seq(Elem) /\ u \in Seq(Elem)
      BY <1>1, ZenonT(60)
    <2> HIDE DEF s, u
    <2> QED
      BY <2>1, CatFacts, SMTT(60)
  <1>3. \A z \in Elem : In(z, t) <=> In(z, s) \/ In(z, u)
    BY <1>1, CatIn, SMTT(60)
  <1>4. /\ \A i \in 1..n : s[i] \in Elem /\ s[i] \in Hook
        /\ \A i \in 1..k : u[i] \in Elem /\ u[i] \in Hook
        /\ \A x \in Queue : x \in Hook /\ x # null /\ x \notin Elem
        /\ null \notin Hook
        /\ \A x \in Holder : \A j \in 1..Len(list[x]) : list[x][j] \in Elem /\ list[x][j] \in Hook
    BY <1>a, <1>1, ListFacts, ZenonT(60)
  <1>5. /\ \A i, j \in 1..n : s[i] = s[j] => i = j
        /\ \A i, j \in 1..k : u[i] = u[j] => i = j
        /\ \A i \in 1..n, j \in 1..k : s[i] # u[j]
    BY <1>a, <1>1, SMTT(60) DEF Once
  <1>6. /\ \A x \in Holder : x # q => \A j \in 1..Len(list[x]), i \in 1..n : list[x][j] # s[i]
        /\ \A x \in Holder : x # o => \A j \in 1..Len(list[x]), i \in 1..k : list[x][j] # u[i]
    BY <1>a, <1>1, ZenonT(60) DEF Once
  <1>7. /\ \A i \in 1..n : /\ prev[s[i]] = IF i = 1 THEN q ELSE s[i - 1]
                           /\ next[s[i]] = IF i = n THEN null ELSE s[i + 1]
        /\ next[q] = IF s = <<>> THEN null ELSE s[1]
        /\ tail_[q] = IF s = <<>> THEN q ELSE s[n]
        /\ count_[q] = n
    BY <1>b, <1>1, ZenonT(60) DEF QueueLinked, Links
  <1>8. /\ \A i \in 1..k : /\ prev[u[i]] = IF i = 1 THEN null ELSE u[i - 1]
                           /\ next[u[i]] = IF i = k THEN null ELSE u[i + 1]
        /\ piece[o].head_ = IF u = <<>> THEN null ELSE u[1]
        /\ piece[o].tail_ = IF u = <<>> THEN null ELSE u[k]
        /\ piece[o].count_ = k
    BY <1>c, ZenonT(60) DEF PieceLinked, Links
  <1>9. (s = <<>> <=> n = 0) /\ (u = <<>> <=> k = 0)
    BY <1>1
  <1>10. /\ list' = [list EXCEPT ![q] = t, ![o] = <<>>]
         /\ piece' = [piece EXCEPT ![o] = NoPiece]
         /\ it' = [it EXCEPT ![o] = null] /\ pos' = [pos EXCEPT ![o] = 1]
    BY ZenonT(60) DEF push_list
  <1>d. /\ check_' = check_ /\ loop' = loop
        /\ \A p \in Owner : loop[p].q # q
    BY Zenon DEF push_list, Locked
  <1> HIDE DEF t
  <1>11. /\ list' \in [Holder -> Seq(Elem)]
         /\ list'[q] = t /\ list'[o] = <<>>
         /\ \A x \in Holder : x # q /\ x # o => list'[x] = list[x]
    <2>1. list' = [list EXCEPT ![q] = t, ![o] = <<>>]
      BY <1>10, ZenonT(60)
    <2>2. q \in Holder /\ o \in Holder /\ q # o /\ t \in Seq(Elem)
      BY <1>1, <1>2, Zenon
    <2>3. list \in [Holder -> Seq(Elem)] /\ <<>> \in Seq(Elem)
      BY <1>a DEF QTypeOK
    <2> HIDE DEF q
    <2> QED
      BY <2>1, <2>2, <2>3, ZenonT(60)
  <1>12. \/ /\ k = 0 /\ UNCHANGED <<prev, next, tail_, count_>>
         \/ /\ k > 0
            /\ count_' = [count_ EXCEPT ![q] = @ + k]
            /\ next' = [next EXCEPT ![tail_[q]] = u[1], ![u[k]] = null]
            /\ prev' = [prev EXCEPT ![u[1]] = tail_[q]]
            /\ tail_' = [tail_ EXCEPT ![q] = u[k]]
    <2>1. CASE k = 0
      <3>1. piece[o].head_ = null
        BY <2>1, <1>8, <1>9, ZenonT(60)
      <3> QED
        BY <2>1, <3>1, ZenonT(60) DEF push_list, links, queues
    <2>2. CASE k > 0
      <3>1. piece[o].head_ = u[1] /\ piece[o].tail_ = u[k] /\ u[1] # null
        BY <2>2, <1>1, <1>4, <1>8, <1>9
      <3> QED
        BY <2>2, <3>1, <1>8, ZenonT(60) DEF push_list
    <2>3. k = 0 \/ k > 0
      BY <1>1, SMTT(60)
    <2> QED
      BY <2>1, <2>2, <2>3, ZenonT(60)
  <1> HIDE DEF q, s, u, n, k
  <1>13. tail_[q] \in Hook /\ \A i \in 1..k : tail_[q] # u[i]
    BY <1>1, <1>4, <1>5, <1>7, <1>9
  <1>14. /\ next' \in [Hook -> Elem \cup {null}]
         /\ k > 0 => next'[tail_[q]] = u[1]
         /\ \A h \in Hook : (k > 0 => h # tail_[q]) => next'[h] = next[h]
    <2>1. CASE k = 0
      BY <2>1, <1>a, <1>12 DEF QTypeOK
    <2>2. CASE k > 0
      <3>1. u[1] \in Elem /\ u[k] \in Hook /\ u[k] # tail_[q] /\ next[u[k]] = null
        BY <2>2, <1>1, <1>4, <1>8, <1>13, SMTT(60)
      <3>2. next' = [next EXCEPT ![tail_[q]] = u[1], ![u[k]] = null]
        BY <2>2, <1>12
      <3> QED
        BY <2>2, <3>1, <3>2, <1>a, <1>13, ZenonT(60) DEF QTypeOK
    <2>3. k = 0 \/ k > 0
      BY <1>1
    <2> QED
      BY <2>1, <2>2, <2>3, ZenonT(60)
  <1>15. /\ prev' \in [Hook -> Hook \cup {null}]
         /\ k > 0 => prev'[u[1]] = tail_[q]
         /\ \A h \in Hook : (k > 0 => h # u[1]) => prev'[h] = prev[h]
    <2>1. CASE k = 0
      BY <2>1, <1>a, <1>12, SMTT(60) DEF QTypeOK
    <2>2. CASE k > 0
      <3>1. u[1] \in Hook
        BY <2>2, <1>1, <1>4, SMTT(60)
      <3>2. prev' = [prev EXCEPT ![u[1]] = tail_[q]]
        BY <2>2, <1>12
      <3> QED
        BY <2>2, <3>1, <3>2, <1>a, <1>13, ZenonT(60) DEF QTypeOK
    <2>3. k = 0 \/ k > 0
      BY <1>1
    <2> QED
      BY <2>1, <2>2, <2>3, ZenonT(60)
  <1>16. /\ tail_'[q] = (IF k = 0 THEN tail_[q] ELSE u[k]) /\ count_'[q] = n + k
         /\ \A x \in Queue : x # q => tail_'[x] = tail_[x] /\ count_'[x] = count_[x]
         /\ tail_' \in [Queue -> Hook] /\ count_' \in [Queue -> Nat]
    <2>1. CASE k = 0
      BY <2>1, <1>a, <1>1, <1>7, <1>12, SMTT(60) DEF QTypeOK
    <2>2. CASE k > 0
      <3>1. u[k] \in Hook
        BY <2>2, <1>1, <1>4
      <3>2. count_[q] = n /\ n + k \in Nat /\ q \in Queue
        BY <1>1, <1>7
      <3>3. /\ count_' = [count_ EXCEPT ![q] = n + k]
            /\ tail_' = [tail_ EXCEPT ![q] = u[k]]
        BY <2>2, <3>2, <1>12, SMTT(60)
      <3> QED
        BY <2>2, <3>1, <3>2, <3>3, <1>a DEF QTypeOK
    <2>3. k = 0 \/ k > 0
      BY <1>1
    <2> QED
      BY <2>1, <2>2, <2>3, ZenonT(60)
  <1>17. /\ piece'[o] = NoPiece /\ it'[o] = null /\ pos'[o] = 1
         /\ \A p \in Owner : p # o => /\ piece'[p] = piece[p] /\ it'[p] = it[p]
                                      /\ pos'[p] = pos[p]
    BY <1>a, <1>10, ZenonT(60) DEF QTypeOK
  <1>18. QTypeOK'
    <2>1. piece' \in [Owner -> [head_ : Elem \cup {null}, tail_ : Elem \cup {null},
                                count_ : Nat, check_ : Queue \cup {null}]]
      BY <1>a, <1>10, ZenonT(60) DEF QTypeOK, NoPiece
    <2>2. it' \in [Owner -> Elem \cup {null}] /\ pos' \in [Owner -> Nat \ {0}]
      BY <1>a, <1>10 DEF QTypeOK
    <2> QED
      <3>1. /\ list' \in [Holder -> Seq(Elem)] /\ next' \in [Hook -> Elem \cup {null}]
            /\ prev' \in [Hook -> Hook \cup {null}]
            /\ tail_' \in [Queue -> Hook] /\ count_' \in [Queue -> Nat]
        BY <1>11, <1>14, <1>15, <1>16, Zenon
      <3>2. /\ check_' \in [Elem -> Queue \cup {null}]
            /\ loop' \in [Owner -> [q : Queue \cup {null}, n : Nat, c : Nat,
                                    last : Elem \cup {null}]]
        BY <1>a, <1>d, Zenon DEF QTypeOK
      <3> QED
        BY <2>1, <2>2, <3>1, <3>2, Zenon DEF QTypeOK
  <1>19. Once'
    <2> SUFFICES ASSUME NEW x \in Holder, NEW y \in Holder,
                        NEW i \in 1..Len(list'[x]), NEW j \in 1..Len(list'[y]),
                        list'[x][i] = list'[y][j]
                 PROVE  x = y /\ i = j
      BY Zenon DEF Once
    <2>1. x # o /\ y # o /\ Len(list'[o]) = 0
      BY <1>11, SMTT(60)
    <2>2. x = q => \/ i \in 1..n /\ list'[x][i] = s[i]
                   \/ i - n \in 1..k /\ list'[x][i] = u[i - n]
      <3> SUFFICES ASSUME x = q PROVE \/ i \in 1..n /\ list'[x][i] = s[i]
                                      \/ i - n \in 1..k /\ list'[x][i] = u[i - n]
        BY Zenon
      <3>1. i \in 1..(n + k) /\ list'[x] = t
        BY <1>2, <1>11, ZenonT(60)
      <3>2. i \notin 1..n => i - n \in 1..k /\ n + (i - n) = i
        BY <3>1, <1>1
      <3> QED
        BY <3>1, <3>2, <1>2, Zenon
    <2>3. y = q => \/ j \in 1..n /\ list'[y][j] = s[j]
                   \/ j - n \in 1..k /\ list'[y][j] = u[j - n]
      <3> SUFFICES ASSUME y = q PROVE \/ j \in 1..n /\ list'[y][j] = s[j]
                                      \/ j - n \in 1..k /\ list'[y][j] = u[j - n]
        BY ZenonT(60)
      <3>1. j \in 1..(n + k) /\ list'[y] = t
        BY <1>2, <1>11, Zenon
      <3>2. j \notin 1..n => j - n \in 1..k /\ n + (j - n) = j
        BY <3>1, <1>1
      <3> QED
        BY <3>1, <3>2, <1>2, ZenonT(60)
    <2>4. CASE x = q /\ y = q
      <3>1. i \in Int /\ j \in Int
        BY SMTT(60)
      <3>2. CASE i \in 1..n /\ j \in 1..n
        BY <3>2, <2>2, <2>3, <2>4, <1>1, <1>5, SMTT(60)
      <3>3. CASE i \in 1..n /\ j \notin 1..n
        BY <3>3, <2>2, <2>3, <2>4, <1>1, <1>5, SMTT(60)
      <3>4. CASE i \notin 1..n /\ j \in 1..n
        BY <3>4, <2>2, <2>3, <2>4, <1>1, <1>5
      <3>5. CASE i \notin 1..n /\ j \notin 1..n
        <4>1. i - n = j - n
          BY <3>5, <2>2, <2>3, <2>4, <1>5, ZenonT(60)
        <4> QED
          BY <4>1, <3>1, <2>4, <1>1, SMTT(60)
      <3> QED
        BY <3>2, <3>3, <3>4, <3>5, Zenon
    <2>5. CASE x = q /\ y # q
      <3>1. list'[y] = list[y]
        BY <2>1, <2>5, <1>11, ZenonT(60)
      <3>2. j \in 1..Len(list[y]) /\ list'[x][i] = list[y][j]
        BY <3>1, ZenonT(60)
      <3> QED
        BY <3>2, <2>1, <2>2, <2>5, <1>6, SMTT(60)
    <2>6. CASE x # q /\ y = q
      <3>1. list'[x] = list[x]
        BY <2>1, <2>6, <1>11, ZenonT(60)
      <3>2. i \in 1..Len(list[x]) /\ list'[y][j] = list[x][i]
        BY <3>1, ZenonT(60)
      <3> QED
        BY <3>2, <2>1, <2>3, <2>6, <1>6, ZenonT(60)
    <2>7. CASE x # q /\ y # q
      <3>1. list'[x] = list[x] /\ list'[y] = list[y]
        BY <2>1, <2>7, <1>11, Zenon
      <3> QED
        BY <3>1, <1>a DEF Once
    <2> QED
      BY <2>4, <2>5, <2>6, <2>7, Zenon
  <1>20. PieceOwned'
    <2>1. \A p \in Owner : p # o => list'[p] = list[p]
      BY <1>a, <1>1, <1>11, ListFacts, ZenonT(60)
    <2>2. piece'[o] = NoPiece /\ list'[o] = <<>> /\ piece'[o].check_ = null
            /\ pos'[o] <= Len(list'[o]) + 1
      <3>1. Len(list'[o]) = 0
        BY <1>11
      <3>2. pos'[o] <= Len(list'[o]) + 1
        BY <3>1, <1>17
      <3> QED
        BY <3>2, <1>11, <1>17, NoPieceFields, Zenon
    <2> QED
      BY <1>a, <1>d, <1>17, <2>1, <2>2, ZenonT(60) DEF PieceOwned
  <1>21. LoopExact'
    <2>1. ASSUME NEW p \in Owner, loop[p].q # null PROVE list'[loop[p].q] = list[loop[p].q]
      <3>1. loop[p].q \in Queue /\ loop[p].q # q
        BY <1>a, <1>d, <2>1, ZenonT(60) DEF QTypeOK
      <3> QED
        BY <1>a, <1>11, <3>1, ListFacts, Zenon
    <2> QED
      BY <1>a, <1>d, <2>1, ZenonT(60) DEF LoopExact
  <1>22. ASSUME NEW i \in 1..(n + k)
         PROVE  /\ prev'[t[i]] = IF i = 1 THEN q ELSE t[i - 1]
                /\ next'[t[i]] = IF i = n + k THEN null ELSE t[i + 1]
    <2>1. CASE i \in 1..n
      <3>1. t[i] = s[i] /\ s[i] \in Hook /\ (k > 0 => s[i] # u[1])
        BY <2>1, <1>1, <1>2, <1>4, <1>5, SMTT(60)
      <3>2. prev'[t[i]] = IF i = 1 THEN q ELSE s[i - 1]
        BY <2>1, <3>1, <1>7, <1>15
      <3>3. i # 1 => i - 1 \in 1..n
        BY <2>1, <1>1
      <3>4. prev'[t[i]] = IF i = 1 THEN q ELSE t[i - 1]
        BY <3>2, <3>3, <1>2, ZenonT(60)
      <3>5. CASE i = n
        <4>1. tail_[q] = s[i] /\ next[s[i]] = null
          BY <2>1, <3>5, <1>1, <1>7, <1>9, SMTT(60)
        <4>2. CASE k = 0
          BY <3>1, <3>4, <3>5, <4>1, <4>2, <1>1, <1>14, SMTT(60)
        <4>3. CASE k > 0
          <5>1. 1 \in 1..k /\ i # n + k /\ i + 1 = n + 1
            BY <3>5, <4>3, <1>1
          <5>2. t[i + 1] = u[1]
            BY <5>1, <1>2, ZenonT(60)
          <5> QED
            BY <3>1, <3>4, <4>1, <4>3, <5>1, <5>2, <1>14, Zenon
        <4> QED
          BY <4>2, <4>3, <1>1, SMTT(60)
      <3>6. CASE i # n
        <4>1. i + 1 \in 1..n /\ n \in 1..n /\ i # n + k
          BY <2>1, <3>6, <1>1, SMTT(60)
        <4>2. s[i] # tail_[q] /\ next[s[i]] = s[i + 1] /\ t[i + 1] = s[i + 1]
          BY <2>1, <3>6, <4>1, <1>1, <1>2, <1>5, <1>7, <1>9, SMTT(60)
        <4> QED
          BY <3>1, <3>4, <4>1, <4>2, <1>14, Zenon
      <3> QED
        BY <3>5, <3>6, ZenonT(60)
    <2>2. CASE i \notin 1..n
      <3> DEFINE j == i - n
      <3>1. j \in 1..k /\ n + j = i /\ k > 0 /\ 1 \in 1..k
        BY <2>2, <1>1, SMTT(60)
      <3> HIDE DEF j
      <3>2. t[i] = u[j] /\ u[j] \in Hook /\ u[j] # tail_[q]
        BY <3>1, <1>2, <1>4, <1>13, ZenonT(60)
      <3>3. next'[t[i]] = IF j = k THEN null ELSE u[j + 1]
        BY <3>1, <3>2, <1>8, <1>14, SMTT(60)
      <3>4. j # k => j + 1 \in 1..k /\ n + (j + 1) = i + 1
        BY <3>1, <1>1, SMTT(60)
      <3>5. j # k => t[i + 1] = u[j + 1]
        <4>1. j # k => t[n + (j + 1)] = u[j + 1]
          BY <3>4, <1>2, Zenon
        <4> QED
          BY <3>4, <4>1, Zenon
      <3>6. next'[t[i]] = IF i = n + k THEN null ELSE t[i + 1]
        BY <3>1, <3>3, <3>5, <1>1, SMTT(60)
      <3>7. CASE j = 1
        <4>1. prev'[t[i]] = tail_[q] /\ i = n + 1
          BY <3>1, <3>2, <3>7, <1>15, Zenon
        <4>2. n = 0 => tail_[q] = q
          BY <1>7, <1>9, ZenonT(60)
        <4>3. n # 0 => tail_[q] = s[n] /\ n \in 1..n /\ i - 1 = n
          BY <4>1, <1>1, <1>7, <1>9
        <4>4. n # 0 => t[i - 1] = s[n]
          BY <4>3, <1>2, Zenon
        <4> QED
          BY <3>6, <4>1, <4>2, <4>3, <4>4, <1>1, SMTT(60)
      <3>8. CASE j # 1
        <4>1. j - 1 \in 1..k /\ n + (j - 1) = i - 1 /\ i # 1
          BY <3>1, <3>8, <1>1
        <4>2. u[j] # u[1]
          BY <3>1, <3>8, <1>5, ZenonT(60)
        <4>3. prev'[t[i]] = u[j - 1]
          BY <3>1, <3>2, <3>8, <4>2, <1>8, <1>15, SMTT(60)
        <4>4. t[i - 1] = u[j - 1]
          BY <4>1, <1>2, Zenon
        <4> QED
          BY <3>6, <4>1, <4>3, <4>4, Zenon
      <3> QED
        BY <3>7, <3>8, Zenon
    <2> QED
      BY <2>1, <2>2, ZenonT(60)
  <1>23. ASSUME NEW x \in Queue PROVE QueueLinked(x)'
    <2>1. CASE x = q
      <3>1. t = <<>> <=> n + k = 0
        BY <1>1, <1>2, SMTT(60)
      <3>2. tail_'[q] = IF t = <<>> THEN q ELSE t[n + k]
        <4>1. CASE k = 0
          BY <3>1, <4>1, <1>1, <1>2, <1>7, <1>9, <1>16, SMTT(60)
        <4>2. CASE k # 0
          <5>1. k \in 1..k
            BY <4>2, <1>1, SMTT(60)
          <5> QED
            BY <3>1, <4>2, <5>1, <1>1, <1>2, <1>16, SMTT(60)
        <4> QED
          BY <4>1, <4>2, ZenonT(60)
      <3>3. next'[q] = IF t = <<>> THEN null ELSE t[1]
        <4>1. CASE n = 0 /\ k = 0
          BY <3>1, <4>1, <1>4, <1>1, <1>7, <1>9, <1>14, SMTT(60)
        <4>2. CASE n = 0 /\ k > 0
          <5>1. 1 \in 1..k /\ n + 1 = 1
            BY <4>2, <1>1
          <5>2. t[1] = u[1] /\ tail_[q] = q
            BY <4>2, <5>1, <1>2, <1>7, <1>9, ZenonT(60)
          <5> QED
            BY <3>1, <4>2, <5>2, <1>1, <1>14
        <4>3. CASE n > 0
          <5>1. 1 \in 1..n /\ n \in 1..n
            BY <4>3, <1>1, SMTT(60)
          <5>2. t[1] = s[1] /\ next[q] = s[1] /\ tail_[q] = s[n] /\ q # s[n] /\ q \in Hook
            BY <4>3, <5>1, <1>1, <1>2, <1>4, <1>7, <1>9
          <5> QED
            BY <3>1, <4>3, <5>2, <1>1, <1>14
        <4> QED
          BY <4>1, <4>2, <4>3, <1>1, SMTT(60)
      <3> QED
        BY <2>1, <3>2, <3>3, <1>2, <1>11, <1>16, <1>22 DEF QueueLinked, Links
    <2>2. CASE x # q
      <3>1. x \in Holder /\ x # o
        BY <1>a, <1>1, ListFacts, ZenonT(60)
      <3>2. \A i \in 1..Len(list[x]) : /\ next'[list[x][i]] = next[list[x][i]]
                                       /\ prev'[list[x][i]] = prev[list[x][i]]
        <4> SUFFICES ASSUME NEW i \in 1..Len(list[x])
                     PROVE  /\ next'[list[x][i]] = next[list[x][i]]
                            /\ prev'[list[x][i]] = prev[list[x][i]]
          BY SMTT(60)
        <4>1. list[x][i] \in Hook /\ list[x][i] \in Elem
          BY <3>1, <1>4, ZenonT(60)
        <4>2. list[x][i] # tail_[q]
          BY <2>2, <3>1, <4>1, <1>1, <1>4, <1>6, <1>7, <1>9, SMTT(60)
        <4>3. k > 0 => list[x][i] # u[1]
          BY <3>1, <1>1, <1>6, SMTT(60)
        <4> QED
          BY <4>1, <4>2, <4>3, <1>14, <1>15, SMTT(60)
      <3>3. x # tail_[q] /\ x \in Hook
        BY <2>2, <1>1, <1>4, <1>7, <1>9, SMTT(60)
      <3>4. next'[x] = next[x]
        BY <3>3, <1>14, Zenon
      <3> QED
        BY <2>2, <3>1, <3>2, <3>4, <1>a, <1>b, <1>11, <1>16, QueueFrame, ZenonT(60)
    <2> QED
      BY <2>1, <2>2, ZenonT(60)
  <1>24. ASSUME NEW p \in Owner PROVE PieceLinked(p)'
    <2>1. CASE p = o
      <3>1. list'[o] = <<>> /\ piece'[o] = NoPiece /\ it'[o] = null /\ pos'[o] = 1
        BY <1>11, <1>17, Zenon
      <3>2. Len(list'[o]) = 0 /\ 1..0 = {} /\ ~(1 <= 0)
        BY <3>1
      <3>3. Links(list[o], null)'
        BY <3>2, Zenon DEF Links
      <3>4. piece'[o].head_ = null /\ piece'[o].tail_ = null /\ piece'[o].count_ = 0
        BY <3>1, NoPieceFields, Zenon
      <3> QED
        BY <2>1, <3>1, <3>2, <3>3, <3>4, Zenon DEF PieceLinked
    <2>2. CASE p # o
      <3>1. p \in Holder /\ p # q
        BY <1>a, <1>1, ListFacts, ZenonT(60)
      <3>2. \A i \in 1..Len(list[p]) : /\ next'[list[p][i]] = next[list[p][i]]
                                       /\ prev'[list[p][i]] = prev[list[p][i]]
        <4> SUFFICES ASSUME NEW i \in 1..Len(list[p])
                     PROVE  /\ next'[list[p][i]] = next[list[p][i]]
                            /\ prev'[list[p][i]] = prev[list[p][i]]
          BY ZenonT(60)
        <4>1. list[p][i] \in Hook /\ list[p][i] \in Elem
          BY <3>1, <1>4, ZenonT(60)
        <4>2. list[p][i] # tail_[q]
          BY <3>1, <4>1, <1>1, <1>4, <1>6, <1>7, <1>9, SMTT(60)
        <4>3. k > 0 => list[p][i] # u[1]
          BY <2>2, <3>1, <1>1, <1>6
        <4> QED
          BY <4>1, <4>2, <4>3, <1>14, <1>15, SMTT(60)
      <3> QED
        BY <2>2, <3>1, <3>2, <1>a, <1>c, <1>11, <1>17, PieceFrame, SMTT(60)
    <2> QED
      BY <2>1, <2>2, ZenonT(60)
  <1>25. CheckExact'
    <2>1. ASSUME NEW z \in Elem, NEW y \in Queue
          PROVE  (check_'[z] = y) <=>
                   \/ In(z, list'[y])
                   \/ \E p \in Owner : piece'[p].check_ = y /\ In(z, list'[p])
      <3>1. check_[z] = y <=>
              In(z, list[y]) \/ \E p \in Owner : piece[p].check_ = y /\ In(z, list[p])
        BY <1>a, ZenonT(60) DEF CheckExact
      <3>2. /\ piece[o].check_ = q /\ piece'[o].check_ # y
            /\ \A p \in Owner : p # o => /\ piece'[p].check_ = piece[p].check_
                                         /\ list'[p] = list[p]
        BY <1>a, <1>1, <1>4, <1>11, <1>17, ListFacts, SMTT(60) DEF NoPiece, q
      <3>3. CASE y = q
        <4>1. In(z, list'[q]) <=> In(z, list[q]) \/ In(z, list[o])
          BY <1>3, <1>11, ZenonT(60) DEF s, u
        <4> QED
          BY <3>1, <3>2, <3>3, <4>1, <1>d, SMTT(60)
      <3>4. CASE y # q
        <4>1. list'[y] = list[y]
          BY <3>4, <1>a, <1>11, ListFacts, Zenon
        <4> QED
          BY <3>1, <3>2, <3>4, <4>1, <1>d, ZenonT(60)
      <3> QED
        BY <3>3, <3>4, Zenon
    <2> QED
      BY <2>1, ZenonT(60) DEF CheckExact, In
  <1> QED
    BY <1>18, <1>19, <1>20, <1>21, <1>23, <1>24, <1>25, SMTT(60) DEF QInv, ListsLinked

\* No sequence of calls of any number of threads, on any number of queues,
\* makes the links, tail_, count_ or check_ of a TSQueue or an SList disagree
\* with the sequence of its elements.
THEOREM ListsStayLinked == QSpec => []ListsLinked
  <1>1. QInit => QInv
    BY QInitInv, ZenonT(60)
  <1>2. QInv /\ [QNext]_qvars => QInv'
    <2> SUFFICES ASSUME QInv, [QNext]_qvars PROVE QInv'
      BY Zenon
    <2>1. ASSUME NEW q \in Queue, pop(q) PROVE QInv'
      BY <2>1, PopInv, Zenon
    <2>2. ASSUME NEW q \in Queue, NEW e \in Elem, push(q, e) PROVE QInv'
      BY <2>2, PushInv, Zenon
    <2>3. ASSUME NEW q \in Queue, NEW e \in Elem, erase(q, e) PROVE QInv'
      BY <2>3, EraseInv, Zenon
    <2>4. ASSUME NEW q \in Queue, NEW o \in Owner, pop_all(q, o) PROVE QInv'
      BY <2>4, PopAllInv, Zenon
    <2>5. ASSUME NEW q \in Queue, NEW o \in Owner, NEW n \in PopMax, pop_n(q, o, n) PROVE QInv'
      BY <2>5, PopNInv, SMTT(60)
    <2>6. ASSUME NEW o \in Owner, pop_n_loop(o) PROVE QInv'
      BY <2>6, PopNLoopInv, Zenon
    <2>7. ASSUME NEW o \in Owner, pop_n_cut(o) PROVE QInv'
      BY <2>7, PopNCutInv, Zenon
    <2>8. ASSUME NEW o \in Owner, push_list(o) PROVE QInv'
      BY <2>8, PushListInv, Zenon
    <2>9. ASSUME NEW o \in Owner, advance(o) PROVE QInv'
      BY <2>9, AdvanceInv, Zenon
    <2>10. ASSUME NEW o \in Owner, slist_erase(o) PROVE QInv'
      BY <2>10, SListEraseInv, Zenon
    <2>11. CASE UNCHANGED qvars
      <3>1. UNCHANGED <<prev, next, check_, tail_, count_, piece, it, pos, loop, list>>
        BY <2>11, Zenon DEF qvars, links, queues, pieces
      <3>2. /\ QTypeOK /\ Once /\ PieceOwned /\ LoopExact /\ CheckExact
            /\ \A x \in Queue : QueueLinked(x)
            /\ \A p \in Owner : PieceLinked(p)
        BY ZenonT(60) DEF QInv, ListsLinked
      <3>3. QTypeOK'
        BY <3>1, <3>2, ZenonT(60) DEF QTypeOK
      <3>4. Once' /\ CheckExact'
        BY <3>1, <3>2, SameLists, Zenon
      <3>5. PieceOwned' /\ LoopExact'
        BY <3>1, <3>2, ZenonT(60) DEF PieceOwned, LoopExact
      <3>6. ASSUME NEW x \in Queue PROVE QueueLinked(x)'
        BY <3>1, <3>2, QueueFrame, ZenonT(60)
      <3>7. ASSUME NEW p \in Owner PROVE PieceLinked(p)'
        BY <3>1, <3>2, PieceFrame, Zenon
      <3> QED
        BY <3>3, <3>4, <3>5, <3>6, <3>7, Zenon DEF QInv, ListsLinked
    <2> QED
      BY <2>1, <2>2, <2>3, <2>4, <2>5, <2>6, <2>7, <2>8, <2>9, <2>10, <2>11, Zenon DEF QNext
  <1>3. QInv => ListsLinked
    BY Zenon DEF QInv
  <1> QED
    BY <1>1, <1>2, <1>3, PTL DEF QSpec
=============================================================================
