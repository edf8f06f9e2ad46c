---------------------------- MODULE NetworkProofs ----------------------------
(***************************************************************************)
(* Proofs about the network layer.  TcpSession, TcpClient and TcpServer,   *)
(* for any number of sessions, messages and callers of Connect and any     *)
(* capacities: a session is closed once, by whichever coroutine leaves     *)
(* last, a Client holds its connection, and Shutdown of a server leaves at *)
(* most one session up.  Udp, for any number of servers, clients and       *)
(* endpoints: which receiving coroutines may be running, how often they    *)
(* call back after Shutdown, and that options reach the endpoint.          *)
(***************************************************************************)
EXTENDS TcpClient, TcpServer, Udp, TLAPS

-----------------------------------------------------------------------------
(* Udp *)

\* The states of a UdpPointImpl.
Impl == [made : BOOLEAN, init_ : BOOLEAN, shutdown_ : BOOLEAN,
         socket_ : {"none", "open", "shut"},
         receiver : {"none", "start", "recv", "callback", "done"}]

\* The states of a buffer.
Vector == [size : PackSize, cap : PackSize]

\* The values of the variables.
UdpTypeOK ==
  /\ impl_ \in [Owner -> Point \cup {nullptr}]
  /\ lnks_ \in [Owner -> SUBSET Point]
  /\ point \in [Point -> Impl]
  /\ opt_ \in [OptionsBase -> [max_pack_size_ : PackSize, receive_cb_ : BOOLEAN]]
  /\ recv_buf_ \in [Point -> Vector]
  /\ ids \subseteq Point
  /\ late \in [Point -> Nat]
  /\ orphan \subseteq Point
  /\ early \subseteq Point

\* A point that is not made yet is untouched: nobody has it, and it has not
\* been started.  A point is started exactly when its coroutine was.
FreshUntouched ==
  /\ \A p \in Point : ~point[p].made =>
       /\ ~point[p].init_
       /\ p \notin ids /\ p \notin early
       /\ recv_buf_[p] = Fresh
       /\ \A o \in Owner : p \notin lnks_[o]
  /\ \A p \in Point : point[p].init_ <=> point[p].receiver # "none"

\* Who runs unasked: a point that is started and not shut down is owned, or
\* was started by a late Send.
StartedOwned ==
  \A p \in Point :
    point[p].init_ /\ ~point[p].shutdown_ => Owned(p) \/ p \in orphan

\* A late callback has begun only in a point that is shut down, and its
\* coroutine does not go back to recvfrom.
LateIsLast ==
  \A p \in Point :
    \/ late[p] = 0
    \/ late[p] = 1 /\ point[p].shutdown_ /\ point[p].receiver \in {"callback", "done"}

\* The point of an owner is linked with it, and no point with two owners.
LinksExact ==
  /\ \A o \in Owner : impl_[o] # nullptr => impl_[o] \in lnks_[o]
  /\ \A o1, o2 \in Owner : o1 # o2 => lnks_[o1] \cap lnks_[o2] = {}

\* The inductive invariant.
UdpInv ==
  /\ UdpTypeOK
  /\ FreshUntouched
  /\ StartedOwned
  /\ LateIsLast
  /\ LinksExact
  /\ OptionsInherited

\* What the operations on a UdpPointImpl return.
LEMMA ImplOperations ==
  ASSUME NEW u \in Impl
  PROVE  /\ PointStart(u) \in Impl
         /\ PointStart(u).made = u.made /\ PointStart(u).init_
         /\ PointStart(u).receiver = "start" /\ PointStart(u).shutdown_ = u.shutdown_
         /\ PointShutdown(u) \in Impl
         /\ PointShutdown(u).made = u.made /\ PointShutdown(u).init_ = u.init_
         /\ PointShutdown(u).receiver = u.receiver
         /\ u.shutdown_ => PointShutdown(u).shutdown_
         /\ u.init_ => PointShutdown(u).shutdown_
  BY ZenonT(60) DEF Impl, PointStart, PointShutdown

\* A new one is like one that is not made.
LEMMA NewImpl ==
  ASSUME NEW u \in Impl
  PROVE  /\ [u EXCEPT !.made = TRUE] \in Impl /\ [u EXCEPT !.made = TRUE].made
         /\ [u EXCEPT !.made = TRUE].init_ = u.init_
         /\ [u EXCEPT !.made = TRUE].receiver = u.receiver
  BY ZenonT(60) DEF Impl

\* A step of DoRecv moves the coroutine only.
LEMMA ReceiverMoves ==
  ASSUME NEW u \in Impl, NEW r \in {"recv", "callback", "done"}
  PROVE  /\ [u EXCEPT !.receiver = r] \in Impl
         /\ [u EXCEPT !.receiver = r].made = u.made
         /\ [u EXCEPT !.receiver = r].init_ = u.init_
         /\ [u EXCEPT !.receiver = r].shutdown_ = u.shutdown_
         /\ [u EXCEPT !.receiver = r].receiver = r
  BY ZenonT(60) DEF Impl

\* What a resized buffer is.
LEMMA ResizedVector ==
  ASSUME NEW v \in Vector, NEW n \in PackSize
  PROVE  Resize(v, n) \in Vector /\ Resize(v, n).size = n
  BY Zenon DEF Vector, Resize

\* Nothing is made.
LEMMA InitUdpInv == UdpInit => UdpInv
<1> SUFFICES ASSUME UdpInit PROVE UdpInv
  BY Zenon
<1>1. UdpTypeOK
  BY UdpAssumption, Zenon DEF UdpInit, UdpTypeOK, Impl, Vector, Fresh
<1>2. FreshUntouched /\ StartedOwned /\ LateIsLast
  BY Zenon DEF UdpInit, FreshUntouched, StartedOwned, LateIsLast
<1>3. LinksExact /\ OptionsInherited
  BY UdpAssumption, Zenon DEF UdpInit, LinksExact, OptionsInherited, Point
<1>4. QED
  BY <1>1, <1>2, <1>3, Zenon DEF UdpInv

\* A step of one UdpPointImpl, which becomes u: what has to be known of u.
LEMMA PointStepUdpInv ==
  ASSUME UdpInv, NEW p \in Point, NEW u \in Impl,
         point' = [point EXCEPT ![p] = u],
         u.made = point[p].made, point[p].made,
         u.init_ <=> u.receiver # "none",
         u.init_ /\ ~u.shutdown_ => Owned(p) \/ p \in orphan',
         UNCHANGED <<impl_, lnks_, opt_, recv_buf_, early>>,
         ids' \subseteq ids \cup {p},
         orphan \subseteq orphan', orphan' \subseteq Point,
         NEW n \in Nat, late' = [late EXCEPT ![p] = n],
         \/ n = 0
         \/ n = 1 /\ u.shutdown_ /\ u.receiver \in {"callback", "done"}
  PROVE  UdpInv'
<1>1. UdpTypeOK'
  BY Zenon DEF UdpInv, UdpTypeOK
<1>2. FreshUntouched'
  BY ZenonT(60) DEF UdpInv, UdpTypeOK, FreshUntouched
<1>3. StartedOwned'
  BY Zenon DEF UdpInv, UdpTypeOK, StartedOwned, Owned
<1>4. LateIsLast'
  BY Zenon DEF UdpInv, UdpTypeOK, LateIsLast
<1>5. LinksExact' /\ OptionsInherited'
  BY DEF UdpInv, LinksExact, OptionsInherited
<1>6. QED
  BY <1>1, <1>2, <1>3, <1>4, <1>5, Zenon DEF UdpInv

\* The steps of a UdpPointImpl: Send, Shutdown and the turns of DoRecv.
LEMMA ImplStepsUdpInv ==
  ASSUME UdpInv, NEW p \in Point,
         \/ PointSend(p) \/ SessShutdown(p)
         \/ DoRecv(p) \/ Received(p) \/ RecvFromFails(p) \/ CallbackReturns(p)
  PROVE  UdpInv'
<1>1. point[p] \in Impl /\ late[p] \in Nat /\ late = [late EXCEPT ![p] = late[p]]
  BY Zenon DEF UdpInv, UdpTypeOK
<1>2. /\ point[p].init_ <=> point[p].receiver # "none"
      /\ ~point[p].made => ~point[p].init_ /\ p \notin ids /\ ~Owned(p)
      /\ point[p].init_ /\ ~point[p].shutdown_ => Owned(p) \/ p \in orphan
      /\ \/ late[p] = 0
         \/ late[p] = 1 /\ point[p].shutdown_ /\ point[p].receiver \in {"callback", "done"}
  BY UdpAssumption DEF UdpInv, UdpTypeOK, FreshUntouched, StartedOwned, LateIsLast,
     LinksExact, Owned, Point
<1>3. CASE PointSend(p)
  <2>1. point[p].made
    BY <1>2, <1>3, ZenonT(60) DEF PointSend, Owned, Owner
  <2>2. /\ point' = [point EXCEPT ![p] = PointStart(point[p])]
        /\ ~point[p].init_
        /\ orphan' = IF Owned(p) THEN orphan ELSE orphan \cup {p}
        /\ UNCHANGED <<impl_, lnks_, opt_, recv_buf_, early, ids, late>>
    BY <1>3, Zenon DEF PointSend, ownervars, optvars
  <2>3. late[p] = 0
    BY <1>2, <2>2, Zenon
  <2>4. orphan \subseteq orphan' /\ orphan' \subseteq Point
    BY <2>2, Zenon DEF UdpInv, UdpTypeOK
  <2> DEFINE u == PointStart(point[p])
  <2>5. /\ u \in Impl /\ u.made = point[p].made
        /\ u.init_ /\ u.receiver = "start"
    BY <1>1, ImplOperations, Zenon
  <2>6. Owned(p) \/ p \in orphan'
    BY <2>2, Zenon
  <2>7. point' = [point EXCEPT ![p] = u] /\ late' = [late EXCEPT ![p] = 0]
    BY <1>1, <2>2, <2>3, Zenon
  <2> HIDE DEF u
  <2>8. QED
    BY <2>1, <2>2, <2>4, <2>5, <2>6, <2>7, PointStepUdpInv, ZenonT(60)
<1>4. CASE SessShutdown(p)
  <2>1. /\ point' = [point EXCEPT ![p] = PointShutdown(point[p])]
        /\ point[p].init_ /\ point[p].made
        /\ UNCHANGED <<impl_, lnks_, opt_, recv_buf_, early, ids, late, orphan>>
    BY <1>2, <1>4, Zenon DEF SessShutdown, ownervars, optvars, histvars
  <2> DEFINE u == PointShutdown(point[p])
  <2>2. /\ u \in Impl /\ u.made = point[p].made /\ u.init_ = point[p].init_
        /\ u.shutdown_ /\ u.receiver = point[p].receiver
    BY <1>1, <2>1, ImplOperations, ZenonT(60)
  <2>3. /\ point' = [point EXCEPT ![p] = u]
        /\ late' = [late EXCEPT ![p] = late[p]] /\ orphan' \subseteq Point
    BY <1>1, <2>1, Zenon DEF UdpInv, UdpTypeOK
  <2> HIDE DEF u
  <2>4. /\ u.init_ <=> u.receiver # "none"
        /\ u.init_ /\ ~u.shutdown_ => Owned(p) \/ p \in orphan'
        /\ \/ late[p] = 0
           \/ late[p] = 1 /\ u.shutdown_ /\ u.receiver \in {"callback", "done"}
    BY <1>2, <2>2, Zenon
  <2>5. /\ UNCHANGED <<impl_, lnks_, opt_, recv_buf_, early>>
        /\ ids' \subseteq ids \cup {p} /\ orphan \subseteq orphan'
    BY <2>1, Zenon
  <2>6. QED
    BY <1>1, <2>1, <2>2, <2>3, <2>4, <2>5, PointStepUdpInv, ZenonT(60)
<1>5. ASSUME NEW r \in {"recv", "done"},
             point[p].receiver \in {"start", "recv", "callback"},
             r = "recv" => point[p].receiver = "start" \/ ~point[p].shutdown_,
             r = "done" => point[p].shutdown_,
             point' = [point EXCEPT ![p].receiver = r],
             UNCHANGED <<impl_, lnks_, opt_, recv_buf_, early, ids, late, orphan>>
      PROVE  UdpInv'
  <2>1. point[p].made
    BY <1>2, <1>5, Zenon
  <2> DEFINE u == [point[p] EXCEPT !.receiver = r]
  <2>2. /\ u \in Impl /\ u.made = point[p].made /\ u.init_ = point[p].init_
        /\ u.shutdown_ = point[p].shutdown_ /\ u.receiver = r
    <3>1. r \in {"recv", "callback", "done"}
      BY Zenon
    <3>2. QED
      BY <1>1, <3>1, ReceiverMoves, ZenonT(60)
  <2>3. /\ point' = [point EXCEPT ![p] = u]
        /\ late' = [late EXCEPT ![p] = late[p]] /\ orphan' \subseteq Point
    BY <1>1, <1>5, Zenon DEF UdpInv, UdpTypeOK
  <2> HIDE DEF u
  <2>4. /\ u.init_ <=> u.receiver # "none"
        /\ u.init_ /\ ~u.shutdown_ => Owned(p) \/ p \in orphan'
        /\ \/ late[p] = 0
           \/ late[p] = 1 /\ u.shutdown_ /\ u.receiver \in {"callback", "done"}
    BY <1>2, <1>5, <2>2, ZenonT(60)
  <2>5. /\ UNCHANGED <<impl_, lnks_, opt_, recv_buf_, early>>
        /\ ids' \subseteq ids \cup {p} /\ orphan \subseteq orphan'
    BY <1>5, Zenon
  <2>6. QED
    BY <1>1, <2>1, <2>2, <2>3, <2>4, <2>5, PointStepUdpInv, ZenonT(60)
<1>6. CASE Received(p) /\ opt_[<<p, "impl">>].receive_cb_
  <2> DEFINE u == [point[p] EXCEPT !.receiver = "callback"]
             n == IF point[p].shutdown_ THEN late[p] + 1 ELSE late[p]
  <2>1. /\ point' = [point EXCEPT ![p] = u]
        /\ point[p].receiver = "recv" /\ point[p].made
        /\ late' = [late EXCEPT ![p] = n]
        /\ ids' \subseteq ids \cup {p}
        /\ UNCHANGED <<impl_, lnks_, opt_, recv_buf_, early, orphan>>
    BY <1>1, <1>2, <1>6, Zenon DEF Received, ownervars, optvars
  <2>2. /\ u \in Impl /\ u.made = point[p].made /\ u.init_ = point[p].init_
        /\ u.shutdown_ = point[p].shutdown_ /\ u.receiver = "callback"
    BY <1>1, Zenon DEF Impl
  <2>3. late[p] = 0
    BY <1>2, <2>1, Zenon
  <2>4. n \in Nat /\ (n = 0 \/ (n = 1 /\ u.shutdown_))
    BY <2>2, <2>3
  <2> HIDE DEF u, n
  <2>5. u.init_ /\ (~u.shutdown_ => Owned(p) \/ p \in orphan)
    BY <1>2, <2>1, <2>2, Zenon
  <2>6. orphan' = orphan /\ orphan \subseteq Point
    BY <2>1, Zenon DEF UdpInv, UdpTypeOK
  <2>7. QED
    BY <2>1, <2>2, <2>4, <2>5, <2>6, PointStepUdpInv, ZenonT(60)
<1>7. ASSUME Loop(p), point[p].receiver \in {"recv", "callback"},
             UNCHANGED <<impl_, lnks_, opt_, recv_buf_, early, ids, late, orphan>>
      PROVE  UdpInv'
  BY <1>5, <1>7, Zenon DEF Loop, Turn
<1>8. CASE DoRecv(p)
  BY <1>5, <1>8, Zenon DEF DoRecv, Turn, ownervars, optvars, histvars
<1>9. QED
  BY <1>3, <1>4, <1>6, <1>7, <1>8, Zenon DEF Received, RecvFromFails, CallbackReturns, ownervars,
     optvars, histvars

\* The steps that change only who has a session id or is in connect_cb_.
LEMMA IdsUdpInv ==
  ASSUME UdpInv, UNCHANGED <<impl_, lnks_, point, opt_, recv_buf_, late, orphan, early>>,
         \A p \in ids' : p \in ids \/ \E o \in Owner : impl_[o] = p /\ p # nullptr
  PROVE  UdpInv'
<1>1. UdpTypeOK'
  <2>1. \A o \in Owner : impl_[o] # nullptr => impl_[o] \in Point
    BY Zenon DEF UdpInv, UdpTypeOK
  <2>2. ids \subseteq Point
    BY Zenon DEF UdpInv, UdpTypeOK
  <2>3. ids' \subseteq Point
    BY <2>1, <2>2, ZenonT(60)
  <2>4. QED
    BY <2>3, Zenon DEF UdpInv, UdpTypeOK
<1>2. FreshUntouched'
  BY DEF UdpInv, UdpTypeOK, FreshUntouched, LinksExact
<1>3. StartedOwned' /\ LateIsLast' /\ LinksExact' /\ OptionsInherited'
  BY DEF UdpInv, StartedOwned, LateIsLast, LinksExact, OptionsInherited, Owned
<1>4. QED
  BY <1>1, <1>2, <1>3, Zenon DEF UdpInv

\* Shutdown of an owner shuts its point down if that was started.
LEMMA OwnerShutdownUdpInv ==
  ASSUME UdpInv, NEW o \in Owner, OwnerShutdown(o)
  PROVE  UdpInv'
<1> DEFINE q == impl_[o]
           u == PointShutdown(point[q])
<1>1. /\ q # nullptr
      /\ impl_' = [impl_ EXCEPT ![o] = nullptr]
      /\ point' = [point EXCEPT ![q] = u]
      /\ UNCHANGED <<lnks_, opt_, recv_buf_, ids, late, orphan, early>>
  BY Zenon DEF OwnerShutdown, optvars, histvars
<1>2. q \in Point /\ point[q] \in Impl
  BY <1>1, ZenonT(60) DEF UdpInv, UdpTypeOK
<1>3. /\ u \in Impl /\ u.made = point[q].made /\ u.init_ = point[q].init_
      /\ u.receiver = point[q].receiver
      /\ point[q].shutdown_ => u.shutdown_
      /\ point[q].init_ => u.shutdown_
  BY <1>2, ImplOperations, Zenon
<1> HIDE DEF u
<1>4. UdpTypeOK'
  BY <1>1, <1>2, <1>3, SMTT(60) DEF UdpInv, UdpTypeOK
<1>5. FreshUntouched'
  BY <1>1, <1>2, <1>3, Zenon DEF UdpInv, UdpTypeOK, FreshUntouched
<1>6. StartedOwned'
  <2> SUFFICES ASSUME NEW p \in Point, point'[p].init_, ~point'[p].shutdown_
               PROVE  Owned(p)' \/ p \in orphan'
    BY SMTT(60) DEF StartedOwned
  <2>1. p # q
    BY <1>1, <1>2, <1>3, SMTT(60) DEF UdpInv, UdpTypeOK
  <2>2. Owned(p) \/ p \in orphan
    BY <1>1, <2>1, SMTT(60) DEF UdpInv, UdpTypeOK, StartedOwned
  <2>3. Owned(p) => Owned(p)'
    BY <1>1, <2>1, SMTT(60) DEF UdpInv, UdpTypeOK, Owned
  <2>4. QED
    BY <1>1, <2>2, <2>3, Zenon
<1>7. LateIsLast'
  BY <1>1, <1>2, <1>3, SMTT(60) DEF UdpInv, UdpTypeOK, LateIsLast
<1>8. LinksExact' /\ OptionsInherited'
  BY <1>1, UdpAssumption DEF UdpInv, UdpTypeOK, LinksExact, OptionsInherited, Point
<1>9. QED
  BY <1>4, <1>5, <1>6, <1>7, <1>8, Zenon DEF UdpInv

\* A setter on an owner reaches the point the owner has, by LinksExact, and
\* no point of another owner.
LEMMA SettersUdpInv ==
  ASSUME UdpInv, NEW o \in Owner,
         SetReceiveCb(o) \/ \E n \in PackSize : SetMaxPackSize(o, n)
  PROVE  UdpInv'
<1>1. UNCHANGED <<impl_, lnks_, point, ids, late, orphan>>
  BY Zenon DEF SetReceiveCb, SetMaxPackSize, ownervars, histvars
<1>2. LinksExact' /\ StartedOwned' /\ LateIsLast'
  BY <1>1, ZenonT(60) DEF UdpInv, LinksExact, StartedOwned, LateIsLast, Owned
<1>3. CASE SetReceiveCb(o)
  <2>1. /\ opt_' = [b \in OptionsBase |->
               IF b \in Below(o) THEN [opt_[b] EXCEPT !.receive_cb_ = TRUE] ELSE opt_[b]]
        /\ UNCHANGED <<recv_buf_, early>>
    BY <1>3, Zenon DEF SetReceiveCb, histvars
  <2>2. UdpTypeOK'
    BY <1>1, <2>1, ZenonT(60) DEF UdpInv, UdpTypeOK
  <2>3. FreshUntouched'
    BY <1>1, <2>1, Zenon DEF UdpInv, FreshUntouched
  <2>4. OptionsInherited'
    <3> SUFFICES ASSUME NEW e \in Owner, NEW p \in Point, impl_[e] = p
                 PROVE  /\ opt_'[<<p, "impl">>] = opt_'[<<e, "owner">>]
                        /\ recv_buf_[p].size = IF p \in early THEN Default
                                          ELSE opt_'[<<p, "impl">>].max_pack_size_
      BY <1>1, <2>1, ZenonT(60) DEF OptionsInherited
    <3>1. /\ opt_[<<p, "impl">>] = opt_[<<e, "owner">>]
          /\ recv_buf_[p].size = IF p \in early THEN Default
                            ELSE opt_[<<p, "impl">>].max_pack_size_
      BY Zenon DEF UdpInv, OptionsInherited
    <3>2. <<p, "impl">> \in OptionsBase /\ <<e, "owner">> \in OptionsBase
      BY SMTT(60) DEF OptionsBase
    <3>3. p \in lnks_[e] /\ (e # o => p \notin lnks_[o])
      BY UdpAssumption, Zenon DEF UdpInv, LinksExact, Point
    <3>4. /\ <<p, "impl">> \in Below(o) <=> e = o
          /\ <<e, "owner">> \in Below(o) <=> e = o
      BY <3>3, Zenon DEF Below
    <3>5. opt_[<<p, "impl">>] \in [max_pack_size_ : PackSize, receive_cb_ : BOOLEAN]
      BY <3>2, Zenon DEF UdpInv, UdpTypeOK
    <3>6. QED
      BY <2>1, <3>1, <3>2, <3>4, <3>5, ZenonT(60)
  <2>5. QED
    BY <1>2, <2>2, <2>3, <2>4, Zenon DEF UdpInv
<1>4. ASSUME NEW n \in PackSize, SetMaxPackSize(o, n) PROVE UdpInv'
  <2>1. /\ opt_' = [b \in OptionsBase |->
               IF b \in Below(o) THEN [opt_[b] EXCEPT !.max_pack_size_ = n] ELSE opt_[b]]
        /\ recv_buf_' = [p \in Point |-> IF p \in lnks_[o] THEN Resize(recv_buf_[p], n)
                                                            ELSE recv_buf_[p]]
        /\ early' = early \ lnks_[o]
    BY <1>4, Zenon DEF SetMaxPackSize
  <2>2. UdpTypeOK'
    BY <1>1, <2>1, ResizedVector, Zenon DEF UdpInv, UdpTypeOK
  <2>3. FreshUntouched'
    BY <1>1, <2>1, SMTT(60) DEF UdpInv, UdpTypeOK, FreshUntouched
  <2>4. OptionsInherited'
    <3> SUFFICES ASSUME NEW e \in Owner, NEW p \in Point, impl_[e] = p
                 PROVE  /\ opt_'[<<p, "impl">>] = opt_'[<<e, "owner">>]
                        /\ recv_buf_'[p].size = IF p \in early' THEN Default
                                           ELSE opt_'[<<p, "impl">>].max_pack_size_
      BY <1>1, Zenon DEF OptionsInherited
    <3>1. /\ opt_[<<p, "impl">>] = opt_[<<e, "owner">>]
          /\ recv_buf_[p].size = IF p \in early THEN Default
                            ELSE opt_[<<p, "impl">>].max_pack_size_
      BY Zenon DEF UdpInv, OptionsInherited
    <3>2. <<p, "impl">> \in OptionsBase /\ <<e, "owner">> \in OptionsBase
      BY Zenon DEF OptionsBase
    <3>3. p \in lnks_[e] /\ (e # o => p \notin lnks_[o])
      BY UdpAssumption, SMTT(60) DEF UdpInv, LinksExact, Point
    <3>4. /\ <<p, "impl">> \in Below(o) <=> e = o
          /\ <<e, "owner">> \in Below(o) <=> e = o
      BY <3>3, Zenon DEF Below
    <3>5. opt_[<<p, "impl">>] \in [max_pack_size_ : PackSize, receive_cb_ : BOOLEAN]
      BY <3>2, Zenon DEF UdpInv, UdpTypeOK
    <3>6. CASE e = o
      <4>1. recv_buf_'[p].size = n
        BY <2>1, <3>3, <3>6, ResizedVector, Zenon DEF UdpInv, UdpTypeOK
      <4>2. QED
        BY <2>1, <3>1, <3>2, <3>3, <3>4, <3>5, <3>6, <4>1, ZenonT(60)
    <3>7. CASE e # o
      BY <2>1, <3>1, <3>2, <3>3, <3>4, <3>7, Zenon
    <3>8. QED
      BY <3>6, <3>7, SMTT(60)
  <2>5. QED
    BY <1>2, <2>2, <2>3, <2>4, Zenon DEF UdpInv
<1>5. QED
  BY <1>3, <1>4, Zenon

\* Creating an endpoint: it is new, so nobody is linked with it; the one the
\* owner had is shut down if it was started.
LEMMA CreateUdpInv ==
  ASSUME UdpInv, NEW o \in Owner, NEW p \in Point,
         NEW u \in {New(p), PointStart(New(p))}, Create(o, p, u)
  PROVE  UdpInv'
<1>1. /\ impl_' = [impl_ EXCEPT ![o] = p]
      /\ point' = [q \in Point |-> IF q = p THEN u
                                    ELSE IF q = impl_[o] THEN PointShutdown(point[q])
                                    ELSE point[q]]
      /\ lnks_' = [lnks_ EXCEPT ![o] = @ \cup {p}]
      /\ opt_' = [opt_ EXCEPT ![<<p, "point">>] = opt_[<<o, "owner">>],
                              ![<<p, "impl">>] = opt_[<<o, "owner">>]]
      /\ early' = IF opt_[<<o, "owner">>].max_pack_size_ = Default THEN early
                                                                 ELSE early \cup {p}
      /\ UNCHANGED <<recv_buf_, ids, late, orphan>>
  BY Zenon DEF Create, Link
<1>2. ~point[p].made
  <2>1. point[p].made <=> p < p
    BY ZenonT(60) DEF Create
  <2>2. QED
    BY <2>1, UdpAssumption DEF Point
<1>3. /\ ~point[p].init_ /\ point[p].receiver = "none" /\ late[p] = 0
      /\ p \notin ids /\ p \notin early /\ recv_buf_[p].size = Default
      /\ \A e \in Owner : p \notin lnks_[e] /\ impl_[e] # p
  <2>1. /\ ~point[p].init_ /\ p \notin ids /\ p \notin early /\ recv_buf_[p] = Fresh
        /\ \A e \in Owner : p \notin lnks_[e]
        /\ point[p].init_ <=> point[p].receiver # "none"
    BY <1>2, Zenon DEF UdpInv, FreshUntouched
  <2>2. \A e \in Owner : impl_[e] # p
    BY <2>1, UdpAssumption, Zenon DEF UdpInv, LinksExact, Point
  <2>3. recv_buf_[p].size = Default
    BY <2>1, SMTT(60) DEF Fresh
  <2>4. late[p] = 0
    BY <2>1, Zenon DEF UdpInv, LateIsLast
  <2>5. QED
    BY <2>1, <2>2, <2>3, <2>4, Zenon
<1>4. /\ u \in Impl /\ u.made
      /\ u.init_ <=> u.receiver # "none"
  <2>1. /\ New(p) \in Impl /\ New(p).made
        /\ New(p).init_ = point[p].init_ /\ New(p).receiver = point[p].receiver
    BY ZenonT(60) DEF UdpInv, UdpTypeOK, New, Impl
  <2> HIDE DEF New
  <2>2. QED
    BY <1>3, <2>1, ImplOperations
<1>5. \A q \in Point \ {p} :
        /\ point'[q] \in Impl /\ point'[q].made = point[q].made
        /\ point'[q].init_ = point[q].init_ /\ point'[q].receiver = point[q].receiver
        /\ point[q].shutdown_ => point'[q].shutdown_
        /\ q = impl_[o] /\ point[q].init_ => point'[q].shutdown_
        /\ q # impl_[o] => point'[q] = point[q]
  BY <1>1, ImplOperations DEF UdpInv, UdpTypeOK
<1>6. point'[p] = u /\ DOMAIN point' = Point /\ point' = [q \in Point |-> point'[q]]
  BY <1>1, Zenon
<1>7. <<p, "impl">> \in OptionsBase /\ \A e \in Owner : <<e, "owner">> \in OptionsBase
  BY Zenon DEF OptionsBase
<1>8. UdpTypeOK'
  <2>1. point' \in [Point -> Impl]
    BY <1>4, <1>5, <1>6, Zenon
  <2>2. opt_' \in [OptionsBase -> [max_pack_size_ : PackSize, receive_cb_ : BOOLEAN]]
    BY <1>1, <1>7, ZenonT(60) DEF UdpInv, UdpTypeOK
  <2>3. QED
    BY <1>1, <2>1, <2>2, ZenonT(60) DEF UdpInv, UdpTypeOK
<1>9. FreshUntouched'
  BY <1>1, <1>4, <1>5, <1>6 DEF UdpInv, UdpTypeOK, FreshUntouched
<1>10. StartedOwned'
  <2> SUFFICES ASSUME NEW q \in Point, point'[q].init_, ~point'[q].shutdown_
               PROVE  Owned(q)' \/ q \in orphan'
    BY SMTT(60) DEF StartedOwned
  <2>1. CASE q = p
    BY <1>1, <2>1, SMTT(60) DEF UdpInv, UdpTypeOK, Owned
  <2>2. CASE q # p
    <3>1. q # impl_[o] /\ (Owned(q) \/ q \in orphan)
      BY <1>5, <2>2, ZenonT(60) DEF UdpInv, StartedOwned
    <3>2. Owned(q) => Owned(q)'
      BY <1>1, <3>1, ZenonT(60) DEF UdpInv, UdpTypeOK, Owned
    <3>3. QED
      BY <1>1, <3>1, <3>2, Zenon
  <2>3. QED
    BY <2>1, <2>2, Zenon
<1>11. LateIsLast'
  BY <1>1, <1>3, <1>5, SMTT(60) DEF UdpInv, UdpTypeOK, LateIsLast
<1>12. LinksExact'
  BY <1>1, <1>3, SMTT(60) DEF UdpInv, UdpTypeOK, LinksExact
<1>13. OptionsInherited'
  <2> SUFFICES ASSUME NEW e \in Owner, NEW q \in Point, impl_'[e] = q
               PROVE  /\ opt_'[<<q, "impl">>] = opt_'[<<e, "owner">>]
                      /\ recv_buf_'[q].size = IF q \in early' THEN Default
                                         ELSE opt_'[<<q, "impl">>].max_pack_size_
    BY SMTT(60) DEF OptionsInherited
  <2>1. opt_'[<<e, "owner">>] = opt_[<<e, "owner">>]
    BY <1>1, <1>7, SMTT(60) DEF UdpInv, UdpTypeOK
  <2>2. CASE e = o
    <3>1. q = p
      BY <1>1, <2>2, SMTT(60) DEF UdpInv, UdpTypeOK
    <3>2. opt_'[<<p, "impl">>] = opt_[<<o, "owner">>]
      BY <1>1, <1>7, SMTT(60) DEF UdpInv, UdpTypeOK
    <3>3. QED
      BY <1>1, <1>3, <2>1, <2>2, <3>1, <3>2, SMTT(60)
  <2>3. CASE e # o
    <3>1. impl_[e] = q /\ q # p
      BY <1>1, <1>3, <2>3, ZenonT(60) DEF UdpInv, UdpTypeOK
    <3>2. opt_'[<<q, "impl">>] = opt_[<<q, "impl">>]
      <4>1. <<q, "impl">> \in OptionsBase
        BY ZenonT(60) DEF OptionsBase
      <4>2. QED
        BY <1>1, <3>1, <4>1, Zenon DEF UdpInv, UdpTypeOK
    <3>3. QED
      BY <1>1, <2>1, <3>1, <3>2, ZenonT(60) DEF UdpInv, OptionsInherited
  <2>4. QED
    BY <2>2, <2>3, SMTT(60)
<1>14. QED
  BY <1>8, <1>9, <1>10, <1>11, <1>12, <1>13, Zenon DEF UdpInv

\* One step per action of the endpoints.
LEMMA StepUdpInv == UdpInv /\ [UdpNext]_udpvars => UdpInv'
<1> SUFFICES ASSUME UdpInv, [UdpNext]_udpvars PROVE UdpInv'
  BY Zenon
<1>1. ASSUME NEW p \in Point, NEW s \in Server, UdpServerStart(s, p) PROVE UdpInv'
  BY <1>1, CreateUdpInv, SMTT(60) DEF UdpServerStart, Owner
<1>2. ASSUME NEW p \in Point, NEW c \in Client, ClientConnect(c, p) PROVE UdpInv'
  BY <1>2, CreateUdpInv, Zenon DEF ClientConnect, Owner
<1>3. ASSUME NEW p \in Point, DropSessId(p) PROVE UdpInv'
  BY <1>3, IdsUdpInv, Zenon DEF DropSessId, ownervars, optvars, histvars
<1>4. ASSUME NEW p \in Point,
             \/ PointSend(p) \/ SessShutdown(p)
             \/ DoRecv(p) \/ Received(p) \/ RecvFromFails(p) \/ CallbackReturns(p)
      PROVE  UdpInv'
  BY <1>4, ImplStepsUdpInv, Zenon
<1>5. ASSUME NEW c \in Client, ConnectReturns(c) \/ GetSessId(c) PROVE UdpInv'
  BY <1>5, IdsUdpInv, Zenon DEF ConnectReturns, GetSessId, ownervars, optvars, histvars, Owner
<1>6. ASSUME NEW o \in Owner, OwnerShutdown(o) PROVE UdpInv'
  BY <1>6, OwnerShutdownUdpInv, Zenon
<1>7. ASSUME NEW o \in Owner,
             SetReceiveCb(o) \/ \E n \in PackSize : o \in Resizers /\ SetMaxPackSize(o, n)
      PROVE  UdpInv'
  BY <1>7, SettersUdpInv, Zenon
<1>8. CASE UNCHANGED udpvars
  BY <1>8, IdsUdpInv, Zenon DEF udpvars, ownervars, optvars, histvars
<1>9. QED
  BY <1>1, <1>2, <1>3, <1>4, <1>5, <1>6, <1>7, <1>8, Zenon DEF UdpNext

\* A receiving coroutine that was not told to stop has an owner, or was
\* started by a Send after its owner was gone, and after Shutdown receive_cb_
\* is called once more at most, for any number of servers, clients and
\* endpoints (UdpPointImpl::goStart, Shutdown, Send and DoRecv).
THEOREM ReceiverIsExact == UdpSpec => []ReceiverExact
<1>1. UdpInv => ReceiverExact
  <2> SUFFICES ASSUME UdpInv PROVE ReceiverExact
    BY SMTT(60)
  <2>1. OwnsReceiver
    BY Zenon DEF UdpInv, FreshUntouched, StartedOwned, OwnsReceiver
  <2>2. LateReceiveOnce
    BY DEF UdpInv, LateIsLast, LateReceiveOnce
  <2>3. QED
    BY <2>1, <2>2, Zenon DEF ReceiverExact
<1>2. QED
  BY <1>1, InitUdpInv, StepUdpInv, PTL DEF UdpSpec

\* DoRecv has a buffer while it waits or calls back, only then, and BufferTaken.
TurnInv ==
  /\ DOMAIN buf = Point
  /\ \A p \in Point : buf[p] # nullptr <=> point[p].receiver \in {"recv", "callback"}
  /\ BufferTaken

\* Every step keeps the account of the turns of DoRecv.
LEMMA StepTurnInv == UdpInv /\ UdpInv' /\ TurnInv /\ [UdpNext]_udpvars => TurnInv'
<1> SUFFICES ASSUME UdpInv, UdpInv', TurnInv, [UdpNext]_udpvars PROVE TurnInv'
  BY Zenon
<1>1. /\ point \in [Point -> Impl] /\ recv_buf_ \in [Point -> Vector]
      /\ point' \in [Point -> Impl] /\ lnks_ \in [Owner -> SUBSET Point]
      /\ \A p \in Point : point[p].init_ <=> point[p].receiver # "none"
  BY Zenon DEF UdpInv, UdpTypeOK, FreshUntouched
<1>2. ASSUME UNCHANGED <<recv_buf_, turnvars>>,
             \A p \in Point : point'[p].receiver \in {"recv", "callback"}
                                 <=> point[p].receiver \in {"recv", "callback"}
      PROVE  TurnInv'
  BY <1>2, Zenon DEF TurnInv, BufferTaken, turnvars
<1>3. ASSUME NEW p \in Point, NEW r, point' = [point EXCEPT ![p].receiver = r]
      PROVE  /\ point'[p].receiver = r
             /\ \A q \in Point \ {p} : point'[q].receiver = point[q].receiver
  BY <1>1, <1>3, Zenon DEF Impl
<1>4. ASSUME NEW p \in Point, Turn(p) \/ Loop(p), recv_buf_' = recv_buf_ PROVE TurnInv'
  <2>1. PICK r \in {"recv", "done"}, b \in Vector \cup {nullptr} :
          /\ point' = [point EXCEPT ![p].receiver = r]
          /\ buf' = [buf EXCEPT ![p] = b]
          /\ resized' = resized \ {p}
          /\ \/ r = "recv" /\ b = recv_buf_[p]
             \/ r = "done" /\ b = nullptr
    BY <1>1, <1>4, Zenon DEF Loop, Turn
  <2>2. /\ point'[p].receiver = r
        /\ \A q \in Point \ {p} : point'[q].receiver = point[q].receiver
    BY <1>3, <2>1, Zenon
  <2>3. /\ DOMAIN buf' = Point /\ buf'[p] = b
        /\ \A q \in Point \ {p} : buf'[q] = buf[q]
    BY <2>1, Zenon DEF TurnInv
  <2>4. recv_buf_[p] # nullptr
    BY <1>1, UdpAssumption, Zenon DEF Vector
  <2>5. QED
    BY <1>4, <2>1, <2>2, <2>3, <2>4, ZenonT(60) DEF TurnInv, BufferTaken
<1>5. ASSUME NEW o \in Owner, NEW n \in PackSize, SetMaxPackSize(o, n) PROVE TurnInv'
  <2>1. /\ UNCHANGED <<point, buf>>
        /\ resized' = resized \cup {p \in lnks_[o] : /\ buf[p] # nullptr
                                                    /\ recv_buf_[p] # Resize(recv_buf_[p], n)}
        /\ recv_buf_' = [p \in Point |-> IF p \in lnks_[o] THEN Resize(recv_buf_[p], n)
                                                            ELSE recv_buf_[p]]
    BY <1>5, Zenon DEF SetMaxPackSize
  <2>2. ASSUME NEW p \in Point, point[p].receiver \in {"recv", "callback"}
        PROVE  buf[p] = recv_buf_'[p] \/ p \in resized'
    <3>1. buf[p] # nullptr /\ (buf[p] = recv_buf_[p] \/ p \in resized)
      BY <2>2, Zenon DEF TurnInv, BufferTaken
    <3>2. QED
      BY <2>1, <3>1, Zenon
  <2>3. QED
    BY <2>1, <2>2, Zenon DEF TurnInv, BufferTaken
<1>6. ASSUME NEW o \in Owner, NEW p \in Point, NEW u \in {New(p), PointStart(New(p))},
             Create(o, p, u)
      PROVE  TurnInv'
  <2>1. ~point[p].made /\ point[p].receiver = "none"
    <3>1. point[p].made <=> p < p
      BY <1>6, Zenon DEF Create
    <3>2. ~point[p].made
      BY <3>1, UdpAssumption DEF Point
    <3>3. QED
      BY <1>1, <3>2, Zenon DEF UdpInv, FreshUntouched
  <2>2. u.receiver \in {"none", "start"}
    <3>1. New(p) \in Impl /\ New(p).receiver = point[p].receiver
      BY <1>1, NewImpl, Zenon DEF New
    <3>2. PointStart(New(p)).receiver = "start"
      BY <3>1, ImplOperations, Zenon
    <3>3. QED
      BY <2>1, <3>1, <3>2, Zenon
  <2>3. \A q \in Point : PointShutdown(point[q]).receiver = point[q].receiver
    BY <1>1, ImplOperations, Zenon
  <2>4. /\ point' = [q \in Point |-> IF q = p THEN u
                                     ELSE IF q = impl_[o] THEN PointShutdown(point[q])
                                     ELSE point[q]]
        /\ UNCHANGED <<recv_buf_, turnvars>>
    BY <1>6, Zenon DEF Create, Link
  <2>5. QED
    BY <1>2, <2>1, <2>2, <2>3, <2>4, ZenonT(60)
<1>7. ASSUME NEW p \in Point, PointSend(p) PROVE TurnInv'
  <2>1. /\ point' = [point EXCEPT ![p] = PointStart(point[p])]
        /\ point[p].receiver = "none" /\ UNCHANGED <<recv_buf_, turnvars>>
    BY <1>1, <1>7, Zenon DEF PointSend, optvars
  <2>2. PointStart(point[p]).receiver = "start"
    BY <1>1, ImplOperations, Zenon
  <2>3. QED
    BY <1>1, <1>2, <2>1, <2>2, ZenonT(60)
<1>8. ASSUME NEW p \in Point, point' = [point EXCEPT ![p] = PointShutdown(point[p])],
             UNCHANGED <<recv_buf_, turnvars>>
      PROVE  TurnInv'
  <2>1. PointShutdown(point[p]).receiver = point[p].receiver
    BY <1>1, ImplOperations, Zenon
  <2>2. QED
    BY <1>1, <1>2, <1>8, <2>1, ZenonT(60)
<1>9. ASSUME NEW o \in Owner, OwnerShutdown(o) PROVE TurnInv'
  <2>1. impl_[o] \in Point
    BY <1>9, Zenon DEF OwnerShutdown, UdpInv, UdpTypeOK
  <2>2. QED
    BY <1>8, <1>9, <2>1, Zenon DEF OwnerShutdown, optvars
<1>10. ASSUME NEW p \in Point, Received(p) PROVE TurnInv'
  <2>1. CASE Loop(p)
    BY <1>4, <1>10, <2>1, Zenon DEF Received, optvars
  <2>2. CASE point' = [point EXCEPT ![p].receiver = "callback"] /\ UNCHANGED turnvars
    <3>1. /\ point'[p].receiver = "callback" /\ point[p].receiver = "recv"
          /\ \A q \in Point \ {p} : point'[q].receiver = point[q].receiver
      BY <1>3, <1>10, <2>2, Zenon DEF Received
    <3>2. QED
      BY <1>2, <1>10, <2>2, <3>1, ZenonT(60) DEF Received, optvars
  <2>3. QED
    BY <1>10, <2>1, <2>2, Zenon DEF Received
<1>11. ASSUME UNCHANGED <<point, optvars, turnvars>> PROVE TurnInv'
  BY <1>2, <1>11, Zenon DEF optvars
<1>12. ASSUME NEW p \in Point, NEW s \in Server, UdpServerStart(s, p) PROVE TurnInv'
  BY <1>6, <1>12, Zenon DEF UdpServerStart, Owner
<1>13. ASSUME NEW p \in Point, NEW c \in Client, ClientConnect(c, p) PROVE TurnInv'
  BY <1>6, <1>13, Zenon DEF ClientConnect, Owner
<1>14. ASSUME NEW p \in Point, DropSessId(p) \/ SessShutdown(p) PROVE TurnInv'
  BY <1>8, <1>11, <1>14, Zenon DEF DropSessId, SessShutdown, optvars
<1>15. ASSUME NEW p \in Point, DoRecv(p) \/ RecvFromFails(p) \/ CallbackReturns(p)
       PROVE  TurnInv'
  BY <1>4, <1>15, Zenon DEF DoRecv, RecvFromFails, CallbackReturns, optvars
<1>16. ASSUME NEW c \in Client, ConnectReturns(c) \/ GetSessId(c) PROVE TurnInv'
  BY <1>11, <1>16, Zenon DEF ConnectReturns, GetSessId
<1>17. ASSUME NEW o \in Owner, SetReceiveCb(o) PROVE TurnInv'
  BY <1>2, <1>17, Zenon DEF SetReceiveCb
<1>18. CASE UNCHANGED udpvars
  BY <1>11, <1>18, Zenon DEF udpvars
<1>19. QED
  BY <1>5, <1>7, <1>9, <1>10, <1>12, <1>13, <1>14, <1>15, <1>16, <1>17, <1>18, Zenon DEF UdpNext

\* An endpoint has the options of its owner, whenever they were set, except
\* for the size of a buffer whose max_pack_size_ was set before the endpoint
\* was made, and each turn of DoRecv receives into recv_buf_ as it is, except
\* where SetMaxPackSize changes it while that turn waits (OptionsBase::Link,
\* SetReceiveCb, SetMaxPackSize and UdpPointImpl::OnSetMaxPackSize, DoRecv).
THEOREM OptionsDoReach == UdpSpec => []OptionsReach
<1>1. UdpInit => UdpInv /\ TurnInv
  <2> SUFFICES ASSUME UdpInit PROVE TurnInv
    BY InitUdpInv, Zenon
  <2>1. \A p \in Point : point[p].receiver = "none" /\ buf[p] = nullptr
    BY Zenon DEF UdpInit
  <2>2. DOMAIN buf = Point
    BY Zenon DEF UdpInit
  <2>3. QED
    BY <2>1, <2>2, Zenon DEF TurnInv, BufferTaken
<1>2. UdpInv /\ TurnInv /\ [UdpNext]_udpvars => (UdpInv /\ TurnInv)'
  BY StepUdpInv, StepTurnInv, Zenon
<1>3. UdpInv /\ TurnInv => OptionsReach
  BY Zenon DEF UdpInv, TurnInv, OptionsReach
<1>4. QED
  BY <1>1, <1>2, <1>3, PTL DEF UdpSpec

-----------------------------------------------------------------------------
(* The sessions *)

Closer == {"on_close", "notify", "erase"}
Left == Closer \cup {"done"}

SessTypeOK ==
  /\ receiver \in [Session -> {"none", "loop", "deref"} \cup Left]
  /\ sender \in [Session -> {"none", "loop", "write", "deref"} \cup Left]
  /\ shutdown_ref_ \in [Session -> 0..2]
  /\ close_ec_ \in [Session -> BOOLEAN]
  /\ disconnected \in [Session -> {0, 1}]
  /\ DOMAIN msg_send_list_ = Session

\* The account of the two coroutines: shutdown_ref_ counts those that have not
\* left, the first to leave is done, the other one closes, and by the time
\* either has left the reason is known.
SessOK(s) ==
  /\ receiver[s] = "none" <=> sender[s] = "none"
  /\ shutdown_ref_[s] = IF receiver[s] \in Left
                          THEN (IF sender[s] \in Left THEN 0 ELSE 1)
                          ELSE (IF sender[s] \in Left THEN 1 ELSE 2)
  /\ receiver[s] \in Closer => sender[s] = "done"
  /\ sender[s] \in Closer => receiver[s] = "done"
  /\ receiver[s] \notin {"none", "loop"} \/ sender[s] \notin {"none", "loop", "write"} => close_ec_[s]
  /\ disconnected[s] = IF At(s, "erase") \/ (receiver[s] = "done" /\ sender[s] = "done")
                         THEN 1 ELSE 0
  /\ At(s, "notify") \/ disconnected[s] = 1 => msg_send_list_[s] = <<>>

SessInv == SessTypeOK /\ \A s \in Session : SessOK(s)

-----------------------------------------------------------------------------
(* The client *)

\* Where the callers of Connect are: whoever is past try_lock has the mutex, and
\* the TcpClient it connects is the client's or was destroyed by Shutdown.
ConnectShape ==
  \A c \in Caller :
    /\ connects[c].at # "idle" => connect_mtx_ = c
    /\ connects[c].at = "connect" =>
         /\ connects[c].s \in Session \ (unused \cup sess_)
         /\ connects[c].s = tcp_impl_ \/ connects[c].s \in abandoned
    /\ connects[c].at = "start" => connects[c].s \in Session

ClTypeOK ==
  /\ connects \in [Caller -> [at : {"idle", "check", "connect", "start"},
                                s : Session \cup {NULL}]]
  /\ sess_ \subseteq Session /\ unused \subseteq Session /\ sess_ \cap unused = {}
  /\ tcp_impl_ \in Session \cup {NULL}

\* The inductive invariant for ClosedOnce and OwnsEstablished.
ClInv == SessInv /\ ClTypeOK /\ ConnectShape /\ OwnsEstablished

-----------------------------------------------------------------------------

\* A step changes one session.
LEMMA OneSession ==
  ASSUME SessInv, NEW s \in Session, SessTypeOK', SessOK(s)',
         \A u \in Session \ {s} :
           /\ receiver'[u] = receiver[u] /\ sender'[u] = sender[u]
           /\ shutdown_ref_'[u] = shutdown_ref_[u] /\ close_ec_'[u] = close_ec_[u]
           /\ disconnected'[u] = disconnected[u] /\ msg_send_list_'[u] = msg_send_list_[u]
  PROVE  SessInv'
<1>1. \A u \in Session \ {s} : SessOK(u)'
  BY SMTT(60) DEF SessInv, SessOK, At
<1>2. QED
  BY <1>1, ZenonT(60) DEF SessInv

\* The sessions start in the session invariant.
LEMMA InitSess == SessInit => SessInv
BY SMTT(60) DEF SessInit, SessInv, SessTypeOK, SessOK, At, Left, Closer

\* A step that touches no session keeps the session invariant.
LEMMA SessUnchanged ==
  ASSUME SessInv, UNCHANGED <<receiver, sender, shutdown_ref_, close_ec_, disconnected, msg_send_list_>>
  PROVE  SessInv'
BY ZenonT(60) DEF SessInv, SessTypeOK, SessOK, At

\* goStart, which starts the receiver and the sender, keeps the session invariant.
LEMMA goStartInv ==
  ASSUME SessInv, NEW s \in Session, goStart(s)
  PROVE  SessInv' /\ UNCHANGED close_ec_
<1>1. SessTypeOK /\ SessOK(s)
  BY Zenon DEF SessInv
<1>2. UNCHANGED <<shutdown_ref_, close_ec_, disconnected, msg_send_list_>>
  BY Zenon DEF goStart, msgvars
<1>3. /\ receiver[s] = "none" /\ receiver' = [receiver EXCEPT ![s] = "loop"]
      /\ sender' = [sender EXCEPT ![s] = "loop"]
  BY ZenonT(60) DEF goStart
<1>4. SessTypeOK'
  BY <1>1, <1>2, <1>3, Zenon DEF SessTypeOK
<1>5. receiver'[s] = "loop" /\ sender'[s] = "loop"
  BY <1>1, <1>3, ZenonT(60) DEF SessTypeOK
<1>6. SessOK(s)'
  BY <1>1, <1>2, <1>3, <1>5, Zenon DEF SessOK, At, Left, Closer
<1>7. QED
  BY <1>1, <1>2, <1>3, <1>4, <1>6, OneSession, Zenon DEF SessTypeOK

\* Shutdown keeps the session invariant and marks that session only as closing.
LEMMA ShutdownInv ==
  ASSUME SessInv, NEW s \in Session, Shutdown(s)
  PROVE  SessInv' /\ close_ec_' = [close_ec_ EXCEPT ![s] = TRUE]
<1>1. SessTypeOK /\ SessOK(s)
  BY Zenon DEF SessInv
<1>2. /\ UNCHANGED <<receiver, sender, shutdown_ref_, disconnected, msg_send_list_>>
      /\ close_ec_' = [close_ec_ EXCEPT ![s] = TRUE]
  BY ZenonT(60) DEF Shutdown, SetCloseEc, msgvars
<1>3. SessTypeOK' /\ close_ec_'[s]
  BY <1>1, <1>2, ZenonT(60) DEF SessTypeOK
<1>4. SessOK(s)'
  BY <1>1, <1>2, <1>3, ZenonT(60) DEF SessOK, At
<1>5. QED
  BY <1>1, <1>2, <1>3, <1>4, OneSession, ZenonT(60) DEF SessTypeOK

\* The steps of goReceive.
LEMMA ReceiverInv ==
  ASSUME SessInv, NEW s \in Session, Receiver(s)
  PROVE  SessInv' /\ \A u \in Session : close_ec_[u] => close_ec_'[u]
<1>1. SessTypeOK /\ SessOK(s)
  BY Zenon DEF SessInv
<1>2. CASE Receive(s)
  BY <1>2, SessUnchanged, ZenonT(60) DEF Receive, msgvars
<1>3. CASE ReceiveFails(s)
  <2>1. /\ UNCHANGED <<sender, shutdown_ref_, disconnected, msg_send_list_>>
        /\ close_ec_' = [close_ec_ EXCEPT ![s] = TRUE]
        /\ receiver[s] = "loop" /\ receiver' = [receiver EXCEPT ![s] = "deref"]
    BY <1>3, ZenonT(60) DEF ReceiveFails, SetCloseEc, msgvars
  <2>2. SessTypeOK' /\ close_ec_'[s] /\ receiver'[s] = "deref"
    BY <1>1, <2>1, ZenonT(60) DEF SessTypeOK
  <2>3. SessOK(s)'
    BY <1>1, <2>1, <2>2, ZenonT(60) DEF SessOK, At, Left, Closer
  <2>4. QED
    BY <1>1, <2>1, <2>2, <2>3, OneSession, ZenonT(60) DEF SessTypeOK
<1>4. CASE ReceiverDeref(s)
  <2>1. /\ UNCHANGED <<sender, close_ec_, disconnected, msg_send_list_>>
        /\ shutdown_ref_' = [shutdown_ref_ EXCEPT ![s] = @ - 1]
        /\ receiver[s] = "deref"
        /\ receiver' = [receiver EXCEPT ![s] = IF shutdown_ref_[s] = 1 THEN "on_close" ELSE "done"]
    BY <1>4, ZenonT(60) DEF ReceiverDeref, msgvars
  <2>2. /\ shutdown_ref_'[s] = shutdown_ref_[s] - 1
        /\ receiver'[s] = IF shutdown_ref_[s] = 1 THEN "on_close" ELSE "done"
    BY <1>1, <2>1, ZenonT(60) DEF SessTypeOK
  <2>3. shutdown_ref_[s] = (IF sender[s] \in Left THEN 1 ELSE 2) /\ (sender[s] \in Left => sender[s] = "done")
    BY <1>1, <2>1, ZenonT(60) DEF SessOK, Left, Closer
  <2>4. SessTypeOK'
    BY <1>1, <2>1, <2>3, SMTT(60) DEF SessTypeOK, Left, Closer
  <2>5. SessOK(s)'
    BY <1>1, <2>1, <2>2, <2>3, SMTT(60) DEF SessOK, At, Left, Closer
  <2>6. QED
    BY <1>1, <2>1, <2>4, <2>5, OneSession, ZenonT(60) DEF SessTypeOK
<1>5. QED
  BY <1>2, <1>3, <1>4, SMTT(60) DEF Receiver

\* The steps of goSend.
LEMMA SenderInv ==
  ASSUME SessInv, NEW s \in Session, Sender(s)
  PROVE  SessInv' /\ \A u \in Session : close_ec_[u] => close_ec_'[u]
<1>1. SessTypeOK /\ SessOK(s)
  BY Zenon DEF SessInv
<1>2. CASE SenderLeaves(s)
  <2>1. /\ UNCHANGED <<receiver, close_ec_, disconnected, msg_send_list_>>
        /\ sender[s] = "loop" /\ shutdown_ref_[s] = 1
        /\ shutdown_ref_' = [shutdown_ref_ EXCEPT ![s] = 0]
        /\ sender' = [sender EXCEPT ![s] = "on_close"]
    BY <1>2, ZenonT(60) DEF SenderLeaves, msgvars
  <2>2. SessTypeOK' /\ shutdown_ref_'[s] = 0 /\ sender'[s] = "on_close"
    BY <1>1, <2>1, SMTT(60) DEF SessTypeOK, Left, Closer
  <2>3. receiver[s] = "done" /\ close_ec_[s]
    BY <1>1, <2>1, SMTT(60) DEF SessOK, Left, Closer
  <2>4. SessOK(s)'
    BY <1>1, <2>1, <2>2, <2>3, ZenonT(60) DEF SessOK, At, Left, Closer
  <2>5. QED
    BY <1>1, <2>1, <2>2, <2>4, OneSession, SMTT(60) DEF SessTypeOK
<1>3. CASE Prepare(s) \/ WriteSome(s)
  <2>1. /\ UNCHANGED <<receiver, shutdown_ref_, close_ec_, disconnected>>
        /\ sender[s] \in {"loop", "write"}
        /\ \E x \in {"loop", "write"} : sender' = [sender EXCEPT ![s] = x]
        /\ \E q : msg_send_list_' = [msg_send_list_ EXCEPT ![s] = q]
    <3>1. CASE Prepare(s)
      BY <3>1, ZenonT(60) DEF Prepare
    <3>2. CASE WriteSome(s)
      BY <3>2, ZenonT(60) DEF WriteSome
    <3>3. QED
      BY <1>3, <3>1, <3>2, Zenon
  <2>2. SessTypeOK' /\ sender'[s] \in {"loop", "write"}
    BY <1>1, <2>1, ZenonT(60) DEF SessTypeOK
  <2>3. receiver[s] # "none" /\ receiver[s] \notin Closer
    BY <1>1, <2>1, ZenonT(60) DEF SessOK, Left, Closer
  <2>4. SessOK(s)'
    BY <1>1, <2>1, <2>2, <2>3, SMTT(60) DEF SessOK, At, Left, Closer
  <2>5. QED
    BY <1>1, <2>1, <2>2, <2>4, OneSession, ZenonT(60) DEF SessTypeOK
<1>4. CASE WriteFails(s)
  <2>1. /\ UNCHANGED <<receiver, shutdown_ref_, disconnected, msg_send_list_>>
        /\ close_ec_' = [close_ec_ EXCEPT ![s] = TRUE]
        /\ sender[s] = "write" /\ sender' = [sender EXCEPT ![s] = "deref"]
    BY <1>4, Zenon DEF WriteFails, SetCloseEc, msgvars
  <2>2. SessTypeOK' /\ close_ec_'[s] /\ sender'[s] = "deref"
    BY <1>1, <2>1, Zenon DEF SessTypeOK
  <2>3. SessOK(s)'
    BY <1>1, <2>1, <2>2, ZenonT(60) DEF SessOK, At, Left, Closer
  <2>4. QED
    BY <1>1, <2>1, <2>2, <2>3, OneSession, ZenonT(60) DEF SessTypeOK
<1>5. CASE SenderDeref(s)
  <2>1. /\ UNCHANGED <<receiver, close_ec_, disconnected, msg_send_list_>>
        /\ shutdown_ref_' = [shutdown_ref_ EXCEPT ![s] = @ - 1]
        /\ sender[s] = "deref"
        /\ sender' = [sender EXCEPT ![s] = IF shutdown_ref_[s] = 1 THEN "on_close" ELSE "done"]
    BY <1>5, Zenon DEF SenderDeref, msgvars
  <2>2. /\ shutdown_ref_'[s] = shutdown_ref_[s] - 1
        /\ sender'[s] = IF shutdown_ref_[s] = 1 THEN "on_close" ELSE "done"
    BY <1>1, <2>1, SMTT(60) DEF SessTypeOK
  <2>3. shutdown_ref_[s] = (IF receiver[s] \in Left THEN 1 ELSE 2) /\ (receiver[s] \in Left => receiver[s] = "done")
    BY <1>1, <2>1, ZenonT(60) DEF SessOK, Left, Closer
  <2>4. SessTypeOK'
    BY <1>1, <2>1, <2>3, SMTT(60) DEF SessTypeOK, Left, Closer
  <2>5. SessOK(s)'
    <3>1. /\ receiver'[s] = receiver[s] /\ close_ec_'[s] = close_ec_[s]
          /\ disconnected'[s] = disconnected[s] /\ msg_send_list_'[s] = msg_send_list_[s]
      BY <2>1, ZenonT(60)
    <3>2. /\ sender[s] = "deref" /\ receiver[s] # "none" /\ close_ec_[s]
          /\ receiver[s] \notin Closer /\ disconnected[s] = 0
      BY <1>1, <2>1, ZenonT(60) DEF SessOK, At, Closer, Left
    <3>3. shutdown_ref_'[s] = IF receiver[s] \in Left THEN 0 ELSE 1
      BY <2>2, <2>3
    <3>4. sender'[s] = IF receiver[s] \in Left THEN "on_close" ELSE "done"
      BY <2>2, <2>3
    <3>5. CASE receiver[s] \in Left
      <4>1. receiver[s] = "done" /\ sender'[s] = "on_close" /\ shutdown_ref_'[s] = 0
        BY <2>3, <3>3, <3>4, <3>5, ZenonT(60)
      <4>2. QED
        BY <3>1, <3>2, <4>1 DEF SessOK, At, Left, Closer
    <3>6. CASE receiver[s] \notin Left
      <4>1. sender'[s] = "done" /\ shutdown_ref_'[s] = 1
        BY <3>3, <3>4, <3>6, ZenonT(60)
      <4>2. QED
        BY <3>1, <3>2, <3>6, <4>1 DEF SessOK, At, Left, Closer
    <3>7. QED
      BY <3>5, <3>6, ZenonT(60)
  <2>6. QED
    BY <1>1, <2>1, <2>4, <2>5, OneSession, Zenon DEF SessTypeOK
<1>6. QED
  BY <1>2, <1>3, <1>4, <1>5, ZenonT(60) DEF Sender

\* One of the two coroutines closes and has reached x, the other one is done.
Closes(s, x) ==
  \/ receiver[s] = x /\ sender[s] = "done"
  \/ sender[s] = x /\ receiver[s] = "done"

\* What holds of a session while one of its coroutines runs OnClose.
LEMMA ClosingFacts ==
  ASSUME NEW s \in Session, SessOK(s)
  PROVE  /\ \A x \in Closer : Closes(s, x) => shutdown_ref_[s] = 0 /\ close_ec_[s]
         /\ Closes(s, "on_close") => disconnected[s] = 0
         /\ Closes(s, "notify") => disconnected[s] = 0 /\ msg_send_list_[s] = <<>>
         /\ Closes(s, "erase") => disconnected[s] = 1 /\ msg_send_list_[s] = <<>>
<1>1. \A x \in Closer : Closes(s, x) => shutdown_ref_[s] = 0 /\ close_ec_[s]
  BY ZenonT(60) DEF SessOK, Closes, Left, Closer
<1>2. Closes(s, "on_close") \/ Closes(s, "notify") => disconnected[s] = 0
  BY ZenonT(60) DEF SessOK, Closes, At
<1>3. Closes(s, "erase") => disconnected[s] = 1
  BY ZenonT(60) DEF SessOK, Closes, At
<1>4. Closes(s, "notify") \/ Closes(s, "erase") => msg_send_list_[s] = <<>>
  BY <1>3, ZenonT(60) DEF SessOK, Closes, At
<1>5. QED
  BY <1>1, <1>2, <1>3, <1>4, ZenonT(60)

\* A session between two steps of OnClose satisfies its invariant.
LEMMA ClosingOK ==
  ASSUME NEW s \in Session, shutdown_ref_'[s] = 0, close_ec_'[s],
         \/ Closes(s, "notify")' /\ disconnected'[s] = 0
         \/ Closes(s, "erase")' /\ disconnected'[s] = 1
         \/ Closes(s, "done")' /\ disconnected'[s] = 1,
         msg_send_list_'[s] = <<>>
  PROVE  SessOK(s)'
<1>1. CASE Closes(s, "notify")' /\ disconnected'[s] = 0
  BY <1>1, ZenonT(60) DEF SessOK, Closes, At, Left, Closer
<1>2. CASE Closes(s, "erase")' /\ disconnected'[s] = 1
  BY <1>2, ZenonT(60) DEF SessOK, Closes, At, Left, Closer
<1>3. CASE Closes(s, "done")' /\ disconnected'[s] = 1
  BY <1>3, ZenonT(60) DEF SessOK, Closes, At, Left, Closer
<1>4. QED
  BY <1>1, <1>2, <1>3, Zenon

\* OnClose, the user's callback, and the end of OnSessionClose.
LEMMA ClosingInv ==
  ASSUME SessInv, NEW s \in Session, Closing(s) \/ Finish(s)
  PROVE  SessInv' /\ UNCHANGED close_ec_
<1>1. SessTypeOK /\ SessOK(s)
  BY Zenon DEF SessInv
<1>2. \/ receiver[s] \in Closer /\ sender[s] = "done"
      \/ sender[s] \in Closer /\ receiver[s] = "done"
  BY <1>1, ZenonT(60) DEF Closing, OnClose, Disconnected, Finish, Move, At, SessOK, Closer
<1>3. CASE OnClose(s)
  <2>1. /\ UNCHANGED <<shutdown_ref_, close_ec_, disconnected>>
        /\ msg_send_list_' = [msg_send_list_ EXCEPT ![s] = <<>>]
        /\ At(s, "on_close")
        /\ receiver' = [receiver EXCEPT ![s] = IF @ = "on_close" THEN "notify" ELSE @]
        /\ sender' = [sender EXCEPT ![s] = IF @ = "on_close" THEN "notify" ELSE @]
    BY <1>3, SMTT(60) DEF OnClose, Move
  <2>2. /\ msg_send_list_'[s] = <<>>
        /\ receiver'[s] = (IF receiver[s] = "on_close" THEN "notify" ELSE receiver[s])
        /\ sender'[s] = (IF sender[s] = "on_close" THEN "notify" ELSE sender[s])
    BY <1>1, <2>1, ZenonT(60) DEF SessTypeOK
  <2>3. SessTypeOK'
    BY <1>1, <2>1, ZenonT(60) DEF SessTypeOK, Left, Closer
  <2>4. SessOK(s)'
    <3>1. Closes(s, "on_close")
      BY <1>2, <2>1, ZenonT(60) DEF At, Closer, Closes
    <3>2. Closes(s, "notify")'
      BY <2>2, <3>1, ZenonT(60) DEF Closes
    <3>3. shutdown_ref_[s] = 0 /\ close_ec_[s]
      BY <1>1, <3>1, ClosingFacts, ZenonT(60) DEF Closer
    <3>4. disconnected'[s] = 0 /\ msg_send_list_'[s] = <<>>
      BY <1>1, <2>1, <2>2, <3>1, ClosingFacts, ZenonT(60)
    <3>5. QED
      BY <2>1, <3>2, <3>3, <3>4, ClosingOK, ZenonT(60)
  <2>5. QED
    BY <1>1, <2>1, <2>3, <2>4, OneSession, ZenonT(60) DEF SessTypeOK
<1>4. CASE Disconnected(s)
  <2>1. /\ UNCHANGED <<shutdown_ref_, close_ec_, msg_send_list_>>
        /\ disconnected' = [disconnected EXCEPT ![s] = @ + 1]
        /\ At(s, "notify")
        /\ receiver' = [receiver EXCEPT ![s] = IF @ = "notify" THEN "erase" ELSE @]
        /\ sender' = [sender EXCEPT ![s] = IF @ = "notify" THEN "erase" ELSE @]
    BY <1>4, ZenonT(60) DEF Disconnected, Move, msgvars
  <2>2. /\ disconnected[s] = 0 /\ disconnected'[s] = 1
        /\ receiver'[s] = (IF receiver[s] = "notify" THEN "erase" ELSE receiver[s])
        /\ sender'[s] = (IF sender[s] = "notify" THEN "erase" ELSE sender[s])
    BY <1>1, <1>2, <2>1, SMTT(60) DEF SessTypeOK, SessOK, At
  <2>3. SessTypeOK'
    <3>1. disconnected' = [disconnected EXCEPT ![s] = 1]
      BY <2>1, <2>2, Zenon
    <3>2. QED
      BY <1>1, <2>1, <3>1, ZenonT(60) DEF SessTypeOK, Left, Closer
  <2>4. SessOK(s)'
    <3>1. Closes(s, "notify")
      BY <1>2, <2>1, ZenonT(60) DEF At, Closer, Closes
    <3>2. Closes(s, "erase")'
      BY <2>2, <3>1, ZenonT(60) DEF Closes
    <3>3. shutdown_ref_[s] = 0 /\ close_ec_[s]
      BY <1>1, <3>1, ClosingFacts, ZenonT(60) DEF Closer
    <3>4. disconnected'[s] = 1 /\ msg_send_list_'[s] = <<>>
      BY <1>1, <2>1, <2>2, <3>1, ClosingFacts, ZenonT(60)
    <3>5. QED
      BY <2>1, <3>2, <3>3, <3>4, ClosingOK, ZenonT(60)
  <2>5. QED
    BY <1>1, <2>1, <2>3, <2>4, OneSession, Zenon DEF SessTypeOK
<1>5. CASE Finish(s)
  <2>1. /\ UNCHANGED <<shutdown_ref_, close_ec_, disconnected, msg_send_list_>>
        /\ At(s, "erase")
        /\ receiver' = [receiver EXCEPT ![s] = IF @ = "erase" THEN "done" ELSE @]
        /\ sender' = [sender EXCEPT ![s] = IF @ = "erase" THEN "done" ELSE @]
    BY <1>5, ZenonT(60) DEF Finish, Move, msgvars
  <2>2. /\ receiver'[s] = (IF receiver[s] = "erase" THEN "done" ELSE receiver[s])
        /\ sender'[s] = (IF sender[s] = "erase" THEN "done" ELSE sender[s])
    BY <1>1, <2>1, ZenonT(60) DEF SessTypeOK
  <2>3. SessTypeOK'
    BY <1>1, <2>1, ZenonT(60) DEF SessTypeOK, Left, Closer
  <2>4. SessOK(s)'
    <3>1. Closes(s, "erase")
      BY <1>2, <2>1, ZenonT(60) DEF At, Closer, Closes
    <3>2. Closes(s, "done")'
      BY <2>2, <3>1, ZenonT(60) DEF Closes
    <3>3. shutdown_ref_[s] = 0 /\ close_ec_[s]
      BY <1>1, <3>1, ClosingFacts, ZenonT(60) DEF Closer
    <3>4. disconnected'[s] = 1 /\ msg_send_list_'[s] = <<>>
      BY <1>1, <2>1, <2>2, <3>1, ClosingFacts, ZenonT(60)
    <3>5. QED
      BY <2>1, <3>2, <3>3, <3>4, ClosingOK, ZenonT(60)
  <2>5. QED
    BY <1>1, <2>1, <2>3, <2>4, OneSession, ZenonT(60) DEF SessTypeOK
<1>6. QED
  BY <1>3, <1>4, <1>5, Zenon DEF Closing

\* Every step of a session's coroutines keeps the invariant, and none reopens a session.
LEMMA SessStepInv ==
  ASSUME SessInv, SessStep
  PROVE  SessInv' /\ \A u \in Session : close_ec_[u] => close_ec_'[u]
<1>1. CASE \E m \in Msg : Send(m)
  BY <1>1, SessUnchanged, ZenonT(60) DEF Send, SendRefused, SendCheck, SendPush, Timeout,
     connvars
<1>2. ASSUME NEW s \in Session, UserShutdown(s)
      PROVE  SessInv' /\ \A u \in Session : close_ec_[u] => close_ec_'[u]
  BY <1>2, ShutdownInv, ZenonT(60) DEF UserShutdown, SessInv, SessTypeOK
<1>3. QED
  BY <1>1, <1>2, ReceiverInv, SenderInv, ClosingInv, SMTT(60) DEF SessStep

\* The session invariant gives the property that OnClose runs once.
LEMMA SessInvSuffices == SessInv => ClosedOnce
<1> SUFFICES ASSUME SessInv, NEW s \in Session
             PROVE  /\ disconnected[s] <= 1
                    /\ ~(receiver[s] \in {"on_close", "notify", "erase"} /\ sender[s] # "done")
                    /\ ~(sender[s] \in {"on_close", "notify", "erase"} /\ receiver[s] # "done")
                    /\ receiver[s] = "done" /\ sender[s] = "done" => disconnected[s] = 1
                    /\ disconnected[s] = 1 => close_ec_[s] /\ msg_send_list_[s] = <<>>
  BY ZenonT(60) DEF ClosedOnce
<1>1. SessOK(s) /\ disconnected[s] \in {0, 1}
  BY ZenonT(60) DEF SessInv, SessTypeOK
<1>2. disconnected[s] <= 1
  BY <1>1
<1>3. /\ receiver[s] \in Closer => sender[s] = "done"
      /\ sender[s] \in Closer => receiver[s] = "done"
      /\ receiver[s] = "done" /\ sender[s] = "done" => disconnected[s] = 1
  BY <1>1, ZenonT(60) DEF SessOK
<1>4. disconnected[s] = 1 => close_ec_[s] /\ msg_send_list_[s] = <<>>
  <2>1. At(s, "erase") \/ (receiver[s] = "done" /\ sender[s] = "done") \/ disconnected[s] = 0
    BY <1>1, ZenonT(60) DEF SessOK
  <2>2. At(s, "erase") \/ (receiver[s] = "done" /\ sender[s] = "done") => close_ec_[s]
    BY <1>1, ZenonT(60) DEF SessOK, At
  <2>3. disconnected[s] = 1 => msg_send_list_[s] = <<>>
    BY <1>1, ZenonT(60) DEF SessOK
  <2>4. disconnected[s] = 1 => disconnected[s] # 0
    OBVIOUS
  <2>5. QED
    BY <2>1, <2>2, <2>3, <2>4, ZenonT(60)
<1>5. QED
  BY <1>2, <1>3, <1>4, ZenonT(60) DEF Closer

-----------------------------------------------------------------------------

\* While the callers of Connect and the client stay as they are, an established
\* session is one that was.
LEMMA ClientUnchanged ==
  ASSUME ClTypeOK, ConnectShape, OwnsEstablished, UNCHANGED clientvars,
         \A s \in Session : close_ec_[s] => close_ec_'[s]
  PROVE  ClTypeOK' /\ ConnectShape' /\ OwnsEstablished'
BY ZenonT(60) DEF ClTypeOK, ConnectShape, OwnsEstablished, IsEstab, clientvars

\* The steps of Connect.
LEMMA ConnectInv ==
  ASSUME ClInv, NEW c \in Caller, Connect(c)
  PROVE  ClInv'
<1>1. SessInv /\ ClTypeOK /\ ConnectShape /\ OwnsEstablished
  BY ZenonT(60) DEF ClInv
<1>2. /\ connects \in [Caller -> [at : {"idle", "check", "connect", "start"}, s : Session \cup {NULL}]]
      /\ sess_ \subseteq Session /\ unused \subseteq Session /\ sess_ \cap unused = {}
      /\ tcp_impl_ \in Session \cup {NULL}
      /\ Idle \in [at : {"idle", "check", "connect", "start"}, s : Session \cup {NULL}]
      /\ Idle.at = "idle"
  BY <1>1, SMTT(60) DEF ClTypeOK, Idle
<1>3. UNCHANGED sessvars => SessInv' /\ UNCHANGED close_ec_
  BY <1>1, SessUnchanged, Zenon DEF sessvars, connvars, msgvars
<1>4. CASE ConnectLock(c)
  <2>1. /\ connects[c].at = "idle" /\ connect_mtx_ = NULL /\ connect_mtx_' = c
        /\ connects' = [connects EXCEPT ![c] = [connects[c] EXCEPT !.at = "check"]]
        /\ UNCHANGED <<sessvars, tcp_impl_, sess_, unused, abandoned>>
    BY <1>2, <1>4, Zenon DEF ConnectLock
  <2>2. /\ connects' \in [Caller -> [at : {"idle", "check", "connect", "start"}, s : Session \cup {NULL}]]
        /\ connects'[c].at = "check" /\ \A d \in Caller \ {c} : connects'[d] = connects[d]
    BY <1>2, <2>1, Zenon
  <2>3. \A d \in Caller : connects[d].at = "idle"
    BY <1>1, <2>1, TcpClientAssumption, Zenon DEF ConnectShape
  <2>4. ClTypeOK' /\ ConnectShape'
    BY <1>2, <2>1, <2>2, <2>3, Zenon DEF ClTypeOK, ConnectShape
  <2>5. OwnsEstablished'
    BY <1>1, <1>3, <2>1, SMTT(60) DEF OwnsEstablished, IsEstab
  <2>6. QED
    BY <1>3, <2>1, <2>4, <2>5, Zenon DEF ClInv
<1>5. ASSUME NEW d \in Caller, connects[d].at # "idle", d # c, connects[c].at # "idle" PROVE FALSE
  BY <1>1, <1>5, ZenonT(60) DEF ConnectShape
<1>6. ASSUME Leave(c), UNCHANGED <<tcp_impl_, sess_, unused, abandoned>>, SessInv', UNCHANGED close_ec_,
             connects[c].at # "idle"
      PROVE  ClInv'
  <2>1. /\ connects' \in [Caller -> [at : {"idle", "check", "connect", "start"}, s : Session \cup {NULL}]]
        /\ connects'[c] = Idle /\ \A d \in Caller \ {c} : connects'[d] = connects[d]
    BY <1>2, <1>6, ZenonT(60) DEF Leave
  <2>2. \A d \in Caller : connects'[d].at = "idle"
    BY <1>2, <1>5, <1>6, <2>1, ZenonT(60)
  <2>3. ClTypeOK' /\ ConnectShape'
    BY <1>2, <1>6, <2>1, <2>2, ZenonT(60) DEF ClTypeOK, ConnectShape
  <2>4. OwnsEstablished'
    BY <1>1, <1>6, ZenonT(60) DEF OwnsEstablished, IsEstab
  <2>5. QED
    BY <1>6, <2>3, <2>4, ZenonT(60) DEF ClInv
<1>7. CASE ConnectRefused(c) \/ ConnectFails(c)
  <2>1. CASE ConnectRefused(c)
    BY <1>3, <1>6, <2>1, Zenon DEF ConnectRefused
  <2>2. CASE ConnectFails(c)
    BY <1>3, <1>6, <2>2, Zenon DEF ConnectFails
  <2>3. QED
    BY <1>7, <2>1, <2>2, ZenonT(60)
<1>8. CASE ConnectStart(c)
  <2>1. connects[c].s \in Session
    BY <1>1, <1>8, ZenonT(60) DEF ConnectStart, ConnectShape
  <2>2. SessInv' /\ UNCHANGED close_ec_
    BY <1>1, <1>8, <2>1, goStartInv, Zenon DEF ConnectStart
  <2>3. QED
    BY <1>6, <1>8, <2>2, ZenonT(60) DEF ConnectStart
<1>9. CASE ConnectSession(c)
  <2>1. PICK s : s = connects[c].s
    BY Zenon
  <2>2. /\ connects[c].at = "connect" /\ sess_' = sess_ \cup {s}
        /\ connects' = [connects EXCEPT ![c] = [connects[c] EXCEPT !.at = "start"]]
        /\ UNCHANGED <<sessvars, connect_mtx_, tcp_impl_, unused, abandoned>>
    BY <1>2, <1>9, <2>1, Zenon DEF ConnectSession
  <2>3. /\ connects' \in [Caller -> [at : {"idle", "check", "connect", "start"}, s : Session \cup {NULL}]]
        /\ connects'[c].at = "start" /\ connects'[c].s = s
        /\ \A d \in Caller \ {c} : connects'[d] = connects[d]
    BY <1>2, <2>1, <2>2, SMTT(60)
  <2>4. s \in Session \ (unused \cup sess_) /\ (s = tcp_impl_ \/ s \in abandoned) /\ connect_mtx_ = c
    BY <1>1, <2>1, <2>2, SMTT(60) DEF ConnectShape
  <2>5. \A d \in Caller \ {c} : connects[d].at = "idle"
    BY <1>2, <1>5, <2>2, SMTT(60)
  <2>6. ClTypeOK' /\ ConnectShape'
    BY <1>2, <2>2, <2>3, <2>4, <2>5 DEF ClTypeOK, ConnectShape
  <2>7. OwnsEstablished'
    BY <1>1, <1>3, <2>2, <2>4, SMTT(60) DEF OwnsEstablished, IsEstab
  <2>8. QED
    BY <1>3, <2>2, <2>6, <2>7, Zenon DEF ClInv
<1>10. ASSUME NEW s \in Session, ConnectCreate(c, s)
       PROVE  ClInv'
  <2>1. /\ connects[c].at = "check" /\ (tcp_impl_ # NULL => ~IsEstab(tcp_impl_))
        /\ s \in unused /\ unused' = unused \ {s} /\ tcp_impl_' = s
        /\ DestroyClient(tcp_impl_)
        /\ connects' = [connects EXCEPT ![c] = [at |-> "connect", s |-> s]]
        /\ UNCHANGED <<connect_mtx_, sess_, abandoned>>
    BY <1>10, ZenonT(60) DEF ConnectCreate
  <2>2. /\ connects' \in [Caller -> [at : {"idle", "check", "connect", "start"}, s : Session \cup {NULL}]]
        /\ connects'[c].at = "connect" /\ connects'[c].s = s
        /\ \A d \in Caller \ {c} : connects'[d] = connects[d]
    BY <1>2, <2>1, ZenonT(60)
  <2>3. \A d \in Caller \ {c} : connects[d].at = "idle"
    BY <1>2, <1>5, <2>1, SMTT(60)
  <2>4. connect_mtx_ = c
    BY <1>1, <2>1, ZenonT(60) DEF ConnectShape
  <2>5. ClTypeOK' /\ ConnectShape'
    BY <1>2, <2>1, <2>2, <2>3, <2>4, SMTT(60) DEF ClTypeOK, ConnectShape
  <2>6. SessInv' /\ \A u \in Session : close_ec_[u] => close_ec_'[u]
    BY <1>1, <1>2, <1>3, <2>1, ShutdownInv, ZenonT(60) DEF DestroyClient, SessInv, SessTypeOK
  <2>7. OwnsEstablished'
    BY <1>1, <1>2, <2>1, <2>6, TcpClientAssumption, ZenonT(60) DEF OwnsEstablished, IsEstab
  <2>8. QED
    BY <2>5, <2>6, <2>7, ZenonT(60) DEF ClInv
<1>11. QED
  BY <1>4, <1>7, <1>8, <1>9, <1>10, SMTT(60) DEF Connect

\* The client's Shutdown keeps the client invariant.
LEMMA ClientShutdownInv ==
  ASSUME ClInv, ClientShutdown
  PROVE  ClInv'
<1>1. SessInv /\ ClTypeOK /\ ConnectShape /\ OwnsEstablished /\ close_ec_ \in [Session -> BOOLEAN]
  BY ZenonT(60) DEF ClInv, SessInv, SessTypeOK
<1>2. /\ tcp_impl_ \in Session /\ DestroyClient(tcp_impl_) /\ tcp_impl_' = NULL
      /\ UNCHANGED <<connect_mtx_, sess_, unused, connects>>
  BY <1>1, ZenonT(60) DEF ClientShutdown, ClTypeOK
<1>3. /\ SessInv' /\ \A u \in Session : close_ec_[u] => close_ec_'[u]
      /\ tcp_impl_ \in sess_ => close_ec_'[tcp_impl_]
  <2>1. CASE tcp_impl_ \in sess_
    BY <1>1, <1>2, <2>1, ShutdownInv, ZenonT(60) DEF DestroyClient
  <2>2. CASE tcp_impl_ \notin sess_
    BY <1>1, <1>2, <2>2, SessUnchanged, ZenonT(60) DEF DestroyClient, sessvars, connvars,
       msgvars
  <2>3. QED
    BY <2>1, <2>2, Zenon
<1>4. ASSUME NEW c \in Caller, connects[c].at = "connect", connects[c].s = tcp_impl_
      PROVE  tcp_impl_ \in abandoned'
  <2>1. connects[c] = [at |-> "connect", s |-> tcp_impl_] /\ tcp_impl_ \notin sess_
    BY <1>1, <1>4, SMTT(60) DEF ConnectShape, ClTypeOK
  <2>2. QED
    BY <2>1, ZenonT(60) DEF ClientShutdown
<1>5. abandoned \subseteq abandoned'
  BY ZenonT(60) DEF ClientShutdown
<1>6. ClTypeOK'
  BY <1>1, <1>2, ZenonT(60) DEF ClTypeOK
<1>7. ConnectShape'
  BY <1>1, <1>2, <1>4, <1>5, ZenonT(60) DEF ConnectShape
<1>8. OwnsEstablished'
  BY <1>1, <1>2, <1>3, <1>5, ZenonT(60) DEF OwnsEstablished, IsEstab
<1>9. QED
  BY <1>3, <1>6, <1>7, <1>8, SMTT(60) DEF ClInv

\* ClInv is kept.
LEMMA ClStepInv == ClInv /\ [ClNext]_clvars => ClInv'
<1> SUFFICES ASSUME ClInv, [ClNext]_clvars PROVE ClInv'
  BY Zenon
<1>1. SessInv /\ ClTypeOK /\ ConnectShape /\ OwnsEstablished
  BY ZenonT(60) DEF ClInv
<1>2. CASE SessStep /\ UNCHANGED clientvars
  BY <1>1, <1>2, SessStepInv, ClientUnchanged, ZenonT(60) DEF ClInv
<1>3. CASE UNCHANGED clvars
  <2>1. SessInv' /\ UNCHANGED <<close_ec_, clientvars>>
    BY <1>1, <1>3, SessUnchanged, ZenonT(60) DEF clvars, sessvars, connvars, msgvars
  <2>2. QED
    BY <1>1, <2>1, ClientUnchanged, ZenonT(60) DEF ClInv
<1>4. ASSUME NEW m \in Msg, ClientSendRefused(m) PROVE ClInv'
  <2>1. SessInv' /\ UNCHANGED <<close_ec_, clientvars>>
    BY <1>1, <1>4, SessUnchanged, Zenon DEF ClientSendRefused, connvars
  <2>2. QED
    BY <1>1, <2>1, ClientUnchanged, ZenonT(60) DEF ClInv
<1>5. ASSUME NEW s \in Session, ClientOnSessionClose(s) PROVE ClInv'
  <2>1. SessInv' /\ UNCHANGED close_ec_
    BY <1>1, <1>5, ClosingInv, ZenonT(60) DEF ClientOnSessionClose
  <2>2. ClTypeOK' /\ ConnectShape' /\ OwnsEstablished'
    BY <1>1, <1>5, <2>1, Zenon DEF ClientOnSessionClose, ClTypeOK, ConnectShape,
       OwnsEstablished, IsEstab
  <2>3. QED
    BY <2>1, <2>2, ZenonT(60) DEF ClInv
<1>6. QED
  BY <1>2, <1>3, <1>4, <1>5, ConnectInv, ClientShutdownInv, Zenon DEF ClNext

\* The client starts in its invariant.
LEMMA ClInitInv == ClInit => ClInv
<1> SUFFICES ASSUME ClInit PROVE ClInv
  BY Zenon
<1>1. SessInv
  BY InitSess, ZenonT(60) DEF ClInit
<1>2. ClTypeOK /\ ConnectShape /\ OwnsEstablished
  BY Zenon DEF ClInit, ClTypeOK, ConnectShape, OwnsEstablished, IsEstab, Idle
<1>3. QED
  BY <1>1, <1>2, Zenon DEF ClInv

\* Whatever fails first, reading, writing or the user's Shutdown, and however
\* goReceive and goSend come to count down shutdown_ref_, OnClose runs once,
\* after both have left, with the reason set and nothing left to send.
THEOREM SessionClosedOnce == ClSpec => []ClosedOnce
<1>1. ClInv => ClosedOnce
  BY SessInvSuffices, Zenon DEF ClInv
<1>2. QED
  BY <1>1, ClInitInv, ClStepInv, PTL DEF ClSpec

\* Client::Connect and Client::Shutdown, called by any number of coroutines at
\* once, never leave behind an established session that the Client does not
\* hold, except one that Shutdown found in the middle of its Connect.
THEOREM ClientOwnsSession == ClSpec => []OwnsEstablished
<1>1. ClInv => OwnsEstablished
  BY ZenonT(60) DEF ClInv
<1>2. QED
  BY <1>1, ClInitInv, ClStepInv, PTL DEF ClSpec
-----------------------------------------------------------------------------
(* The server *)

\* The sessions of the server, with the one Accept has in hand, that are up.
UpSessions == {s \in sessions_ \cup accepted : socket_[s] = "up"}

\* A server that was shut down accepts no more.  ShutdownAll, which keeps
\* others from sessions_, has shut down what is not in todo.  After Shutdown
\* no two sessions are up.
SrvInv ==
  /\ sessions_ \subseteq Session /\ accepted \subseteq Session
  /\ \A s, u \in accepted : s = u
  /\ socket_ \in [Session -> {"up", "down", "closed"}]
  /\ shutdown_ => acceptor_ # "open"
  /\ control = "all" => \A s \in sessions_ : socket_[s] = "up" => s \in todo
  /\ shutdown_ /\ control = "idle" => \A s, u \in UpSessions : s = u

\* The socket of a session never comes up again.
SocketDown ==
  /\ socket_' \in [Session -> {"up", "down", "closed"}]
  /\ \A s \in Session : socket_'[s] = "up" => socket_[s] = "up"

\* Shutdown takes the socket down and brings none up.
LEMMA ShutdownSocketDown ==
  ASSUME socket_ \in [Session -> {"up", "down", "closed"}], NEW s \in Session, Shutdown(s)
  PROVE  SocketDown /\ socket_'[s] # "up"
BY ZenonT(60) DEF Shutdown, ShutdownSocket, SocketDown

\* No step of a session brings a socket up again.
LEMMA SessSocketDown ==
  ASSUME socket_ \in [Session -> {"up", "down", "closed"}],
         \/ SessStep
         \/ \E s \in Session : goStart(s) \/ Finish(s)
         \/ UNCHANGED socket_
  PROVE  SocketDown
<1>1. CASE UNCHANGED socket_
  BY <1>1, ZenonT(60) DEF SocketDown
<1>2. ASSUME NEW s \in Session, goStart(s) \/ Finish(s) PROVE UNCHANGED socket_
  BY <1>2, SMTT(60) DEF goStart, Finish
<1>3. ASSUME NEW m \in Msg, Send(m) PROVE UNCHANGED socket_
  BY <1>3, ZenonT(60) DEF Send, SendRefused, SendCheck, SendPush, Timeout, connvars
<1>4. ASSUME NEW s \in Session, UserShutdown(s) PROVE SocketDown
  BY <1>4, ShutdownSocketDown, Zenon DEF UserShutdown
<1>5. ASSUME NEW s \in Session, Receiver(s) \/ Sender(s) \/ Closing(s) PROVE SocketDown
  <2>1. \/ UNCHANGED socket_ \/ ShutdownSocket(s)
        \/ socket_' = [socket_ EXCEPT ![s] = "closed"]
    BY <1>5, ZenonT(60) DEF Receiver, Receive, ReceiveFails, ReceiverDeref, Sender,
       SenderLeaves, Prepare,
       WriteSome, WriteFails, SenderDeref, Closing, OnClose, Disconnected
  <2>2. QED
    BY <2>1, SMTT(60) DEF ShutdownSocket, SocketDown
<1>6. QED
  BY <1>1, <1>2, <1>3, <1>4, <1>5, Zenon DEF SessStep

\* SrvInv is kept by the steps that bring no session and leave the caller of
\* Shutdown where it is.
LEMMA NoNewSession ==
  ASSUME SrvInv, SocketDown,
         sessions_' \subseteq Session, accepted' \subseteq accepted,
         sessions_' \cup accepted' \subseteq sessions_ \cup accepted,
         control = "all" => sessions_' \subseteq sessions_,
         acceptor_' = "open" => acceptor_ = "open",
         UNCHANGED <<shutdown_, control, todo>>
  PROVE  SrvInv'
<1>1. UpSessions' \subseteq UpSessions
  BY ZenonT(60) DEF SrvInv, SocketDown, UpSessions
<1>2. QED
  BY <1>1, ZenonT(60) DEF SrvInv, SocketDown

\* Every step of the server keeps its invariant.
LEMMA SrvStepInv == SrvInv /\ [SrvNext]_srvvars => SrvInv'
<1> SUFFICES ASSUME SrvInv, [SrvNext]_srvvars PROVE SrvInv'
  BY Zenon
<1>1. /\ socket_ \in [Session -> {"up", "down", "closed"}]
      /\ sessions_ \subseteq Session /\ accepted \subseteq Session
  BY ZenonT(60) DEF SrvInv
<1>2. CASE SessStep /\ UNCHANGED servervars
  BY <1>1, <1>2, SessSocketDown, NoNewSession, SMTT(60) DEF servervars, SrvInv
<1>3. CASE UNCHANGED srvvars
  BY <1>1, <1>3, SessSocketDown, NoNewSession, ZenonT(60) DEF srvvars, sessvars, connvars,
     servervars, SrvInv
<1>4. UNCHANGED sessvars => UNCHANGED socket_ /\ SocketDown
  BY <1>1, SessSocketDown, ZenonT(60) DEF sessvars, connvars
<1>5. CASE ServerStart
  BY <1>4, <1>5, ZenonT(60) DEF ServerStart, SrvInv, UpSessions
<1>6. CASE AcceptEnds
  BY <1>1, <1>4, <1>6, NoNewSession, ZenonT(60) DEF AcceptEnds
<1>7. CASE InsertSession
  <2>1. /\ control # "all" /\ sessions_' = sessions_ \cup accepted /\ SocketDown
        /\ UNCHANGED <<socket_, acceptor_, shutdown_, accepted, control, todo>>
    BY <1>4, <1>7, ZenonT(60) DEF InsertSession, MutexFree, SrvInv
  <2>2. QED
    BY <1>1, <2>1, NoNewSession, ZenonT(60)
<1>8. CASE StartSession
  BY <1>1, <1>8, SessSocketDown, NoNewSession, ZenonT(60) DEF StartSession
<1>9. ASSUME NEW s \in Session, Accept(s) PROVE SrvInv'
  BY <1>4, <1>9, ZenonT(60) DEF Accept, SrvInv
<1>10. ASSUME NEW s \in Session, OnSessionClose(s) PROVE SrvInv'
  BY <1>1, <1>10, SessSocketDown, NoNewSession, ZenonT(60) DEF OnSessionClose, SrvInv
<1>11. CASE ServerShutdown \/ CallShutdownAll
  BY <1>4, <1>11, SMTT(60) DEF ServerShutdown, CallShutdownAll, SrvInv
<1>12. CASE ShutdownAllLock
  BY <1>4, <1>12, ZenonT(60) DEF ShutdownAllLock, SrvInv
<1>13. ASSUME NEW s \in Session, ShutdownAllNext(s) PROVE SrvInv'
  BY <1>1, <1>13, ShutdownSocketDown, ZenonT(60) DEF ShutdownAllNext, SrvInv, SocketDown
<1>14. CASE ShutdownAllUnlock
  BY <1>4, <1>14, SMTT(60) DEF ShutdownAllUnlock, SrvInv, UpSessions
<1>15. QED
  BY <1>2, <1>3, <1>5, <1>6, <1>7, <1>8, <1>9, <1>10, <1>11, <1>12, <1>13, <1>14, SMTT(60)
     DEF SrvNext, Control

\* The sessions of a server are closed once, too: Accept starts a session once,
\* and what ShutdownAll does to it is what its user's Shutdown does.
LEMMA SrvStepSessInv == SrvInv /\ SessInv /\ [SrvNext]_srvvars => SessInv'
<1> SUFFICES ASSUME SrvInv, SessInv, [SrvNext]_srvvars PROVE SessInv'
  BY ZenonT(60)
<1>1. CASE SessStep
  BY <1>1, SessStepInv, ZenonT(60)
<1>2. CASE UNCHANGED sessvars
  BY <1>2, SessUnchanged, ZenonT(60) DEF sessvars, connvars, msgvars
<1>3. CASE StartSession
  BY <1>3, goStartInv, ZenonT(60) DEF StartSession, SrvInv
<1>4. ASSUME NEW s \in Session, ShutdownAllNext(s) PROVE SessInv'
  BY <1>4, ShutdownInv, Zenon DEF ShutdownAllNext
<1>5. ASSUME NEW s \in Session, OnSessionClose(s) PROVE SessInv'
  BY <1>5, ClosingInv, ZenonT(60) DEF OnSessionClose
<1>6. QED
  BY <1>1, <1>2, <1>3, <1>4, <1>5, Zenon DEF SrvNext, srvvars, Control, ServerStart, Accept,
     AcceptEnds, InsertSession, ServerShutdown, CallShutdownAll, ShutdownAllLock,
     ShutdownAllUnlock

\* The server starts in its invariant, with its sessions in theirs.
LEMMA SrvInitInv == SrvInit => SrvInv /\ SessInv
BY InitSess DEF SrvInit, SessInit, SrvInv

\* When Shutdown has returned at most one session is up, the one that Accept had
\* in hand while ShutdownAll went through sessions_, for any number of sessions
\* and any further calls of Shutdown and ShutdownAll.
THEOREM OneSessionLeft == SrvSafety => []ShutdownLeavesOne
<1>1. SrvInv => ShutdownLeavesOne
  BY Zenon DEF SrvInv, ShutdownLeavesOne, UpSessions
<1>2. QED
  BY <1>1, SrvInitInv, SrvStepInv, PTL DEF SrvSafety

\* OnClose runs once for each session of a server, however Accept, ShutdownAll,
\* the user's Shutdown and the session's own coroutines interleave.
THEOREM ServerSessionClosedOnce == SrvSafety => []ClosedOnce
BY SrvInitInv, SrvStepInv, SrvStepSessInv, SessInvSuffices, PTL DEF SrvSafety
===============================================================================
