------------------------------- MODULE Network -------------------------------
(***************************************************************************)
(* The two protocols behind Server and Client (network.cpp).  The url      *)
(* given to goStart or Connect selects tcp::instance() or udp::instance(), *)
(* and with it the implementation: TcpServer.tla or Udp.tla.  The two      *)
(* share no state, so their interleavings are not explored: a behaviour is *)
(* one of the selected protocol.                                           *)
(***************************************************************************)
EXTENDS TcpServer, Udp

VARIABLE protocol_ \* the protocol that local_addr_.proto_ selects

netvars == <<srvvars, udpvars, protocol_>>

NetInit == SrvInit /\ UdpInit /\ protocol_ \in {"tcp", "udp"}

NetNext ==
  /\ \/ protocol_ = "tcp" /\ SrvNext /\ UNCHANGED udpvars
     \/ protocol_ = "udp" /\ UdpNext /\ UNCHANGED srvvars
  /\ UNCHANGED protocol_

\* The implementation that is not selected stays in its initial state, in which
\* nothing that fairness is about is enabled.
NetSpec == NetInit /\ [][NetNext]_netvars /\ SrvFairness /\ UdpFairness
=============================================================================
