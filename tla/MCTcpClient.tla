----------------------------- MODULE MCTcpClient -----------------------------
EXTENDS TcpClient, TLC

CONSTANTS s1, m1, m2

MCSessOf == [m \in Msg |-> s1]

\* A message that can be written in two parts, and a short one.
MCSize == (m1 :> 2) @@ (m2 :> 1)

Callers == Permutations(Caller)

=============================================================================
