----------------------------- MODULE MCTcpServer -----------------------------
(***************************************************************************)
(* max_pack_size_ is 0 here: a receive fails, as it may at any time with a *)
(* larger buffer.  What a callback leaves in recv_buf_ does not matter to  *)
(* the server; the sessions of MCTcpClient receive.                        *)
(***************************************************************************)
EXTENDS Network, TLC

CONSTANTS s1, s2, m0, m1

MCSessOf == (m1 :> s1) @@ (m0 :> s2)

\* One byte, and an empty message.
MCSize == (m1 :> 1) @@ (m0 :> 0)

=============================================================================
