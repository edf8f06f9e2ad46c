--------------------------------- MODULE Udp ---------------------------------
(***************************************************************************)
(* UDP endpoints (udp_detail.h, udp_detail.cpp, udp.cpp) under Server and  *)
(* Client (network.cpp), and the options that are handed down from one to  *)
(* the other (option.h).                                                   *)
(*                                                                         *)
(* A Server or Client owns one UdpPoint at a time, which owns a            *)
(* UdpPointImpl.  The latter is also held by its receiving coroutine and   *)
(* by every session id, so it may outlive its owner.  All callers are      *)
(* coroutines of one scheduler thread: a call is one step up to the point  *)
(* where it waits or runs a callback.  Addresses and data are left out.    *)
(***************************************************************************)
EXTENDS Naturals, FiniteSets

CONSTANTS
  Server,   \* objects of class Server
  Client,   \* objects of class Client
  MaxPoint, \* bound: the number of UdpPoints that are ever made
  PackSize, \* values of max_pack_size_
  Default,  \* its default value
  Resizers, \* bound: the owners on which SetMaxPackSize is called
  nullptr   \* the null pointer

ASSUME UdpAssumption ==
  /\ Server \cap Client = {}
  /\ Default \in PackSize
  /\ Resizers \subseteq Server \cup Client
  /\ MaxPoint \in Nat
  /\ nullptr \notin 1..MaxPoint \cup [size : PackSize, cap : PackSize]

Owner == Server \cup Client

\* The UdpPoints, in the order they are made, each with its UdpPointImpl.
Point == 1..MaxPoint

\* The objects that have options: an owner, a UdpPoint, a UdpPointImpl.
OptionsBase == (Owner \X {"owner"}) \cup (Point \X {"point", "impl"})

VARIABLES
  impl_,      \* the UdpPoint of each owner, or nullptr
  lnks_,      \* the UdpPoints each owner has been linked with
  connecting, \* the clients inside connect_cb_, with connect_mtx_ locked
  point,      \* the UdpPointImpl of each UdpPoint
  opt_,       \* the options of each object
  recv_buf_,  \* the buffer of each UdpPointImpl
  buf,        \* the buffer DoRecv took for its turn, nullptr outside DoRecv
  ids,        \* the points of which users keep a session id
  late,       \* history: receive callbacks each point began after Shutdown
  orphan,     \* history: points that started after their UdpPoint was gone
  early,      \* history: points made after, not before, a SetMaxPackSize
  resized     \* history: points whose recv_buf_ changed since this turn began

ownervars == <<impl_, lnks_, connecting>>
optvars == <<opt_, recv_buf_>>
turnvars == <<buf, resized>>
histvars == <<late, orphan, early>>
udpvars == <<ownervars, point, optvars, turnvars, ids, histvars>>

\* A std::vector: its size and its capacity, which tells its memory apart: it
\* moves when it must grow, and the memory it had is freed.
Resize(v, n) == [size |-> n, cap |-> IF n > v.cap THEN n ELSE v.cap]
Fresh == [size |-> Default, cap |-> Default]

\* A UdpPointImpl: made or not, its two flags, its socket (none, open or shut),
\* and where its coroutine is (none, start before DoRecv has begun, recv,
\* callback or done).
UdpInit ==
  /\ impl_ = [o \in Owner |-> nullptr]
  /\ lnks_ = [o \in Owner |-> {}]
  /\ connecting = {}
  /\ point = [p \in Point |-> [made |-> FALSE, init_ |-> FALSE, shutdown_ |-> FALSE,
                               socket_ |-> "none", receiver |-> "none"]]
  /\ opt_ = [b \in OptionsBase |-> [max_pack_size_ |-> Default, receive_cb_ |-> FALSE]]
  /\ recv_buf_ = [p \in Point |-> Fresh]
  /\ buf = [p \in Point |-> nullptr]
  /\ ids = {}
  /\ late = [p \in Point |-> 0]
  /\ orphan = {}
  /\ early = {}
  /\ resized = {}

-----------------------------------------------------------------------------

\* goStart past its test of init_: the socket is made, and the coroutine.
PointStart(u) == [u EXCEPT !.init_ = TRUE, !.socket_ = "open", !.receiver = "start"]

\* Mutant: Shutdown does not touch the socket.
PointShutdownKeepsSocket(u) == IF u.init_ THEN [u EXCEPT !.shutdown_ = TRUE] ELSE u

\* UdpPointImpl::Shutdown; before goStart it does nothing.
PointShutdown(u) ==
  IF u.init_ THEN [u EXCEPT !.shutdown_ = TRUE, !.socket_ = "shut"] ELSE u

\* Mutant: Link stops at the object it is called with.
LinkOne(o, p) ==
  /\ lnks_' = [lnks_ EXCEPT ![o] = @ \cup {p}]
  /\ opt_' = [opt_ EXCEPT ![<<p, "point">>] = opt_[<<o, "owner">>]]
  /\ UNCHANGED recv_buf_

\* Link(*impl_->GetOptions()): Link and, below it, OnLink copy the options
\* down.  Neither calls OnSetMaxPackSize.
Link(o, p) ==
  /\ lnks_' = [lnks_ EXCEPT ![o] = @ \cup {p}]
  /\ opt_' = [opt_ EXCEPT ![<<p, "point">>] = opt_[<<o, "owner">>],
                          ![<<p, "impl">>] = opt_[<<o, "owner">>]]
  /\ UNCHANGED recv_buf_

\* Mutant: the UdpPoint an owner had before is not destroyed.
CreateKeepsOld(o, p, u) ==
  /\ \A q \in Point : point[q].made <=> q < p
  /\ impl_' = [impl_ EXCEPT ![o] = p]
  /\ point' = [point EXCEPT ![p] = u]
  /\ Link(o, p)
  /\ early' = IF opt_[<<o, "owner">>].max_pack_size_ = Default THEN early
                                                             ELSE early \cup {p}
  /\ UNCHANGED <<turnvars, ids, late, orphan>>

\* impl_ = CreateServer() or CreateClient(), which destroys the UdpPoint the
\* owner had before, and Link.  What becomes of the new one is u.
Create(o, p, u) ==
  /\ \A q \in Point : point[q].made <=> q < p
  /\ impl_' = [impl_ EXCEPT ![o] = p]
  /\ point' = [q \in Point |-> IF q = p THEN u
                               ELSE IF q = impl_[o] THEN PointShutdown(point[q])
                               ELSE point[q]]
  /\ Link(o, p)
  /\ early' = IF opt_[<<o, "owner">>].max_pack_size_ = Default THEN early
                                                             ELSE early \cup {p}
  /\ UNCHANGED <<turnvars, ids, late, orphan>>

New(p) == [point[p] EXCEPT !.made = TRUE]

\* Server::goStart with a udp url; opening the socket may fail.
UdpServerStart(s, p) ==
  /\ \E u \in {New(p), PointStart(New(p))} : Create(s, p, u)
  /\ UNCHANGED connecting

\* Client::Connect with a udp url.  IsEstab of a UdpPoint is always true, so
\* that there is no other Connect before the next Shutdown.  UdpPoint::Connect
\* fails to open the socket, fails to connect it, or runs connect_cb_.
ClientConnect(c, p) ==
  /\ c \notin connecting
  /\ impl_[c] = nullptr
  /\ \/ Create(c, p, New(p)) /\ UNCHANGED connecting
     \/ Create(c, p, PointStart(New(p))) /\ UNCHANGED connecting
     \/ Create(c, p, PointStart(New(p))) /\ connecting' = connecting \cup {c}

\* connect_cb_ returns; Client::Connect unlocks connect_mtx_.
ConnectReturns(c) ==
  /\ c \in connecting
  /\ connecting' = connecting \ {c}
  /\ UNCHANGED <<impl_, lnks_, point, optvars, turnvars, ids, histvars>>

\* Server::Shutdown and Client::Shutdown: impl_.reset() destroys the UdpPoint.
OwnerShutdown(o) ==
  /\ impl_[o] # nullptr
  /\ impl_' = [impl_ EXCEPT ![o] = nullptr]
  /\ point' = [point EXCEPT ![impl_[o]] = PointShutdown(@)]
  /\ UNCHANGED <<lnks_, connecting, optvars, turnvars, ids, histvars>>

\* Client::GetSessId.
GetSessId(c) ==
  /\ impl_[c] # nullptr
  /\ ids' = ids \cup {impl_[c]}
  /\ UNCHANGED <<ownervars, point, optvars, turnvars, histvars>>

\* The user's last copy of a session id goes.
DropSessId(p) ==
  /\ p \in ids
  /\ ids' = ids \ {p}
  /\ UNCHANGED <<ownervars, point, optvars, turnvars, histvars>>

\* Whether the UdpPoint of p has not been destroyed.
Owned(p) == \E o \in Owner : impl_[o] = p

\* udp::Send through a session id, and Client::Send: the first Send of a point
\* that could not be started starts it.  Later ones change nothing here.
PointSend(p) ==
  /\ p \in ids \/ \E c \in Client : impl_[c] = p
  /\ ~point[p].init_
  /\ point' = [point EXCEPT ![p] = PointStart(@)]
  /\ orphan' = IF Owned(p) THEN orphan ELSE orphan \cup {p}
  /\ UNCHANGED <<ownervars, optvars, turnvars, ids, late, early>>

\* udp::Shutdown(id).
SessShutdown(p) ==
  /\ p \in ids
  /\ point[p].init_ /\ ~point[p].shutdown_
  /\ point' = [point EXCEPT ![p] = PointShutdown(@)]
  /\ UNCHANGED <<ownervars, optvars, turnvars, ids, histvars>>

\* Mutant: DoRecv takes the buffer once, before its loop.
TurnKeepsBuffer(p) ==
  /\ point' = [point EXCEPT ![p].receiver = "recv"]
  /\ buf' = IF point[p].receiver = "start" THEN [buf EXCEPT ![p] = recv_buf_[p]] ELSE buf
  /\ resized' = resized \ {p}

\* A turn of DoRecv begins: it takes the buffer and waits in recvfrom.
Turn(p) ==
  /\ point' = [point EXCEPT ![p].receiver = "recv"]
  /\ buf' = [buf EXCEPT ![p] = recv_buf_[p]]
  /\ resized' = resized \ {p}

\* The coroutine runs for the first time.
DoRecv(p) ==
  /\ point[p].receiver = "start"
  /\ Turn(p)
  /\ UNCHANGED <<ownervars, optvars, ids, histvars>>

\* Mutant: DoRecv goes on after Shutdown.
LoopAlways(p) == Turn(p)

\* The end of a turn of DoRecv: if (shutdown_) break.
Loop(p) ==
  \/ ~point[p].shutdown_ /\ Turn(p)
  \/ /\ point[p].shutdown_
     /\ point' = [point EXCEPT ![p].receiver = "done"]
     /\ buf' = [buf EXCEPT ![p] = nullptr]
     /\ resized' = resized \ {p}

\* recvfrom returns without error: a datagram, or nothing once the socket is
\* shut down.  receive_cb_ gets a session id, which it may keep.
Received(p) ==
  /\ point[p].receiver = "recv"
  /\ IF opt_[<<p, "impl">>].receive_cb_
       THEN /\ point' = [point EXCEPT ![p].receiver = "callback"]
            /\ late' = [late EXCEPT ![p] = IF point[p].shutdown_ THEN @ + 1 ELSE @]
            /\ ids' \in {ids, ids \cup {p}}
            /\ UNCHANGED turnvars
       ELSE /\ Loop(p)
            /\ UNCHANGED <<late, ids>>
  /\ UNCHANGED <<ownervars, optvars, orphan, early>>

\* recvfrom fails.
RecvFromFails(p) ==
  /\ point[p].receiver = "recv"
  /\ Loop(p)
  /\ UNCHANGED <<ownervars, optvars, ids, histvars>>

\* receive_cb_ returns.
CallbackReturns(p) ==
  /\ point[p].receiver = "callback"
  /\ Loop(p)
  /\ UNCHANGED <<ownervars, optvars, ids, histvars>>

\* The objects below an owner that SetReceiveCb and SetMaxPackSize reach.
Below(o) == {<<o, "owner">>} \cup (lnks_[o] \X {"point", "impl"})

\* SetReceiveCb and the setters like it.  A link to a UdpPoint that has been
\* destroyed dangles; what a call does then is undefined and left out.
SetReceiveCb(o) ==
  /\ \A p \in lnks_[o] : Owned(p)
  /\ opt_' = [b \in OptionsBase |->
               IF b \in Below(o) THEN [opt_[b] EXCEPT !.receive_cb_ = TRUE] ELSE opt_[b]]
  /\ UNCHANGED <<ownervars, point, recv_buf_, turnvars, ids, histvars>>

\* SetMaxPackSize; OnSetMaxPackSize of the UdpPointImpl resizes its buffer,
\* also while its coroutine is in recvfrom with the buffer it took.
SetMaxPackSize(o, n) ==
  /\ \A p \in lnks_[o] : Owned(p)
  /\ opt_' = [b \in OptionsBase |->
               IF b \in Below(o) THEN [opt_[b] EXCEPT !.max_pack_size_ = n] ELSE opt_[b]]
  /\ recv_buf_' = [p \in Point |-> IF p \in lnks_[o] THEN Resize(recv_buf_[p], n)
                                                      ELSE recv_buf_[p]]
  /\ early' = early \ lnks_[o]
  /\ resized' = resized \cup {p \in lnks_[o] : /\ buf[p] # nullptr
                                              /\ recv_buf_[p] # Resize(recv_buf_[p], n)}
  /\ UNCHANGED <<ownervars, point, buf, ids, late, orphan>>

\* The coroutine gets its turn, and DoRecv of a point whose socket is shut down:
\* recvfrom returns.
ReceiverLeaves(p) ==
  \/ DoRecv(p)
  \/ point[p].socket_ = "shut" /\ (Received(p) \/ RecvFromFails(p))
  \/ CallbackReturns(p)

UdpNext ==
  \/ \E p \in Point :
       \/ \E s \in Server : UdpServerStart(s, p)
       \/ \E c \in Client : ClientConnect(c, p)
       \/ DropSessId(p) \/ PointSend(p) \/ SessShutdown(p)
       \/ DoRecv(p) \/ Received(p) \/ RecvFromFails(p) \/ CallbackReturns(p)
  \/ \E c \in Client : ConnectReturns(c) \/ GetSessId(c)
  \/ \E o \in Owner :
       \/ OwnerShutdown(o)
       \/ SetReceiveCb(o)
       \/ \E n \in PackSize : o \in Resizers /\ SetMaxPackSize(o, n)

\* The scheduler runs a new coroutine, callbacks return, and recvfrom returns on
\* a socket that was shut down.
UdpFairness == \A p \in Point : WF_udpvars(ReceiverLeaves(p))

UdpSpec == UdpInit /\ [][UdpNext]_udpvars /\ UdpFairness

-----------------------------------------------------------------------------

\* A coroutine in DoRecv that nobody has told to stop belongs to a Server or
\* Client that still can, however often they were restarted.  The exception:
\* a Send through a session id starts a point whose owner is gone already.
OwnsReceiver ==
  \A p \in Point :
    point[p].receiver \in {"start", "recv", "callback"} /\ ~point[p].shutdown_
      => Owned(p) \/ p \in orphan

\* disconnect_cb_, called by Shutdown, is not the last callback: receive_cb_
\* may be called once more, by the coroutine that was in recvfrom, not twice.
LateReceiveOnce == \A p \in Point : late[p] <= 1

\* The buffer that recvfrom waits with, and whose bytes receive_cb_ is given, is
\* recv_buf_ as it is now.  The exception: SetMaxPackSize changed recv_buf_ since
\* this turn of DoRecv began; b then has the old size, and memory that was freed
\* if recv_buf_ moved.
BufferTaken ==
  \A p \in Point :
    point[p].receiver \in {"recv", "callback"} => buf[p] = recv_buf_[p] \/ p \in resized

\* What is set on a Server or Client is what its endpoint has, whether it was
\* set before or after goStart or Connect.  The exception: recv_buf_ keeps the
\* default size when max_pack_size_ was set before the endpoint was made.
OptionsInherited ==
  \A o \in Owner : \A p \in Point :
    impl_[o] = p =>
      /\ opt_[<<p, "impl">>] = opt_[<<o, "owner">>]
      /\ recv_buf_[p].size = IF p \in early THEN Default
                                            ELSE opt_[<<p, "impl">>].max_pack_size_

\* The options of a Server or Client reach its endpoint, and its receives from
\* the next turn of DoRecv on (OptionsBase::Link, SetMaxPackSize and
\* OnSetMaxPackSize), with the exceptions of the two definitions above.
OptionsReach == OptionsInherited /\ BufferTaken

\* After Shutdown the receiving coroutine ends, and lets its UdpPointImpl go.
ReceiverEnds ==
  \A p \in Point : point[p].shutdown_ ~> point[p].receiver = "done"

\* A receiving coroutine that was not told to stop has an owner, and one that
\* was told calls back once more at most (UdpPointImpl::Shutdown and DoRecv).
ReceiverExact == OwnsReceiver /\ LateReceiveOnce
=============================================================================
