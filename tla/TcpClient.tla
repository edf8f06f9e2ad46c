------------------------------ MODULE TcpClient ------------------------------
(***************************************************************************)
(* A network::Client of protocol tcp (network.cpp) with its TcpClient and  *)
(* TcpClientImpl (tcp_detail.h, tcp_detail.cpp) and the sessions it makes. *)
(* Several coroutines call Connect, Send and Shutdown of the same Client.  *)
(*                                                                         *)
(* Client::Connect makes a new TcpClient each time; here it is named after *)
(* the session it is going to make.  Replacing or resetting impl_ destroys *)
(* the TcpClient, but a Connect that is under way keeps its TcpClientImpl. *)
(*                                                                         *)
(* A caller of Connect is idle; at check (it has connect_mtx_); connect    *)
(* (in socket::connect); start (the session is in sess_, not started).     *)
(***************************************************************************)
EXTENDS TcpSession

CONSTANTS
  Caller, \* coroutines that call Connect
  NULL

ASSUME TcpClientAssumption == NULL \notin Session \cup Caller

VARIABLES
  connect_mtx_, \* who holds Client::connect_mtx_, or NULL
  tcp_impl_,    \* Client::impl_, or NULL
  sess_,        \* the TcpClients whose impl has its session in sess_
  unused,       \* the TcpClients that have not been made yet
  connects,     \* where each caller of Connect is, and for which TcpClient
  abandoned     \* the TcpClients destroyed by Shutdown during their Connect

clientvars == <<connect_mtx_, tcp_impl_, sess_, unused, connects, abandoned>>
clvars == <<sessvars, clientvars>>

Idle == [at |-> "idle", s |-> NULL]

ClInit ==
  /\ SessInit
  /\ connect_mtx_ = NULL
  /\ tcp_impl_ = NULL
  /\ sess_ = {}
  /\ unused = Session
  /\ connects = [c \in Caller |-> Idle]
  /\ abandoned = {}

IsEstab(s) == s \in sess_ /\ ~close_ec_[s]

\* ~TcpClient: the session, if there is one, is shut down.
DestroyClient(s) ==
  IF s \in sess_ THEN Shutdown(s) ELSE UNCHANGED sessvars

Leave(c) ==
  /\ connects' = [connects EXCEPT ![c] = Idle]
  /\ connect_mtx_' = NULL

-----------------------------------------------------------------------------

\* Mutant: the mutex is not asked for.
ConnectLockIgnored(c) ==
  /\ connects[c] = Idle
  /\ connect_mtx_' = c
  /\ connects' = [connects EXCEPT ![c].at = "check"]
  /\ UNCHANGED <<sessvars, tcp_impl_, sess_, unused, abandoned>>

\* try_lock; if it fails Connect returns ec_connecting and changes nothing.
ConnectLock(c) ==
  /\ connects[c] = Idle
  /\ connect_mtx_ = NULL
  /\ connect_mtx_' = c
  /\ connects' = [connects EXCEPT ![c].at = "check"]
  /\ UNCHANGED <<sessvars, tcp_impl_, sess_, unused, abandoned>>

\* The client is connected, or the url is no good.
ConnectRefused(c) ==
  /\ connects[c].at = "check"
  /\ Leave(c)
  /\ UNCHANGED <<sessvars, tcp_impl_, sess_, unused, abandoned>>

\* A new TcpClient replaces the old one, which is destroyed.
ConnectCreate(c, s) ==
  /\ connects[c].at = "check"
  /\ tcp_impl_ # NULL => ~IsEstab(tcp_impl_)
  /\ s \in unused
  /\ unused' = unused \ {s}
  /\ tcp_impl_' = s
  /\ DestroyClient(tcp_impl_)
  /\ connects' = [connects EXCEPT ![c] = [at |-> "connect", s |-> s]]
  /\ UNCHANGED <<connect_mtx_, sess_, abandoned>>

ConnectFails(c) ==
  /\ connects[c].at = "connect"
  /\ Leave(c)
  /\ UNCHANGED <<sessvars, tcp_impl_, sess_, unused, abandoned>>

\* TcpClientImpl::Connect after the socket is connected.  Its own mutex is
\* free and its sess_ empty: nobody else calls this TcpClient.
ConnectSession(c) ==
  /\ connects[c].at = "connect"
  /\ sess_' = sess_ \cup {connects[c].s}
  /\ connects' = [connects EXCEPT ![c].at = "start"]
  /\ UNCHANGED <<sessvars, connect_mtx_, tcp_impl_, unused, abandoned>>

ConnectStart(c) ==
  /\ connects[c].at = "start"
  /\ goStart(connects[c].s)
  /\ Leave(c)
  /\ UNCHANGED <<tcp_impl_, sess_, unused, abandoned>>

\* Client::Shutdown, by anybody, also during a Connect.
ClientShutdown ==
  /\ tcp_impl_ # NULL
  /\ DestroyClient(tcp_impl_)
  /\ tcp_impl_' = NULL
  /\ abandoned' = abandoned \cup {s \in {tcp_impl_} \ sess_ :
                                    \E c \in Caller : connects[c] = [at |-> "connect", s |-> s]}
  /\ UNCHANGED <<connect_mtx_, sess_, unused, connects>>

\* Client::Send without a session, after some Connect.  With one it is Send of
\* the session.
ClientSendRefused(m) ==
  /\ state[m] = "unsent"
  /\ unused # Session
  /\ tcp_impl_ = NULL \/ tcp_impl_ \notin sess_
  /\ Callback({m}, "ec_shutdown")
  /\ state' = [state EXCEPT ![m] = "sent"]
  /\ UNCHANGED <<connvars, msg_chan_, msg_send_list_, timeout, pos, pushed, wire, overtaken,
                 clientvars>>

\* The end of TcpClientImpl::OnSessionClose.
ClientOnSessionClose(s) ==
  /\ Finish(s)
  /\ sess_' = sess_ \ {s}
  /\ UNCHANGED <<connect_mtx_, tcp_impl_, unused, connects, abandoned>>

Connect(c) ==
  \/ ConnectLock(c) \/ ConnectRefused(c) \/ ConnectFails(c)
  \/ ConnectSession(c) \/ ConnectStart(c)
  \/ \E s \in Session : ConnectCreate(c, s)

ClNext ==
  \/ SessStep /\ UNCHANGED clientvars
  \/ \E c \in Caller : Connect(c)
  \/ ClientShutdown
  \/ \E m \in Msg : ClientSendRefused(m)
  \/ \E s \in Session : ClientOnSessionClose(s)

ClSpec == ClInit /\ [][ClNext]_clvars

-----------------------------------------------------------------------------

\* A Client never has two connections, nor loses hold of one: an established
\* session is that of impl_, unless Client::Shutdown came while it was being
\* connected, when the TcpClient has no session yet to shut down.
OwnsEstablished ==
  \A s \in Session : IsEstab(s) => s = tcp_impl_ \/ s \in abandoned
=============================================================================
