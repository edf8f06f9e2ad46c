------------------------------ MODULE TcpServer ------------------------------
(***************************************************************************)
(* TcpServerImpl (network/tcp_detail.cpp) with its sessions: the coroutine *)
(* in Accept, one caller of ShutdownAll and Shutdown, and the sessions,    *)
(* which leave sessions_ in OnSessionClose.  sessions_mutex_ is a CoMutex  *)
(* (CoMutex.tla); the caller of ShutdownAll has it while it walks through  *)
(* sessions_, Accept and OnSessionClose for one step.                      *)
(***************************************************************************)
EXTENDS TcpSession

VARIABLES
  acceptor_, \* none, open, shut (shut down) or closed
  shutdown_, \* TcpServerImpl::shutdown_
  sessions_, \* TcpServerImpl::sessions_
  accepting, \* where Accept is: none, accept, insert, start or done
  accepted,  \* the session Accept has made and not started, if any
  control,   \* where the caller of Shutdown is: idle, lock or all
  todo       \* the sessions ShutdownAll has not come to yet

servervars == <<acceptor_, shutdown_, sessions_, accepting, accepted, control, todo>>
srvvars == <<sessvars, servervars>>

SrvInit ==
  /\ SessInit
  /\ acceptor_ = "none"
  /\ shutdown_ = FALSE
  /\ sessions_ = {}
  /\ accepting = "none"
  /\ accepted = {}
  /\ control = "idle"
  /\ todo = {}

\* sessions_mutex_ is free.
MutexFree == control # "all"

\* TcpServerImpl::goStart.  When the acceptor cannot be made nothing happens; a
\* server that was shut down is not started again.
ServerStart ==
  /\ acceptor_ = "none"
  /\ ~shutdown_
  /\ acceptor_' = "open"
  /\ accepting' = "accept"
  /\ UNCHANGED <<sessvars, shutdown_, sessions_, accepted, control, todo>>

-----------------------------------------------------------------------------
(* Accept                                                                  *)

\* accept returns a socket.
Accept(s) ==
  /\ accepting = "accept"
  /\ acceptor_ = "open"
  /\ receiver[s] = "none"
  /\ accepted' = {s}
  /\ accepting' = "insert"
  /\ UNCHANGED <<sessvars, acceptor_, shutdown_, sessions_, control, todo>>

\* accept fails after Shutdown.  Any other failure leads to another accept.
AcceptEnds ==
  /\ accepting = "accept"
  /\ shutdown_
  /\ acceptor_' = "closed"
  /\ accepting' = "done"
  /\ UNCHANGED <<sessvars, shutdown_, sessions_, accepted, control, todo>>

InsertSession ==
  /\ accepting = "insert"
  /\ MutexFree
  /\ sessions_' = sessions_ \cup accepted
  /\ accepting' = "start"
  /\ UNCHANGED <<sessvars, acceptor_, shutdown_, accepted, control, todo>>

StartSession ==
  /\ accepting = "start"
  /\ \E s \in accepted : goStart(s)
  /\ accepted' = {}
  /\ accepting' = "accept"
  /\ UNCHANGED <<acceptor_, shutdown_, sessions_, control, todo>>

-----------------------------------------------------------------------------
(* Shutdown and ShutdownAll                                                *)

\* Mutant: the acceptor is not shut down.
ServerShutdownKeepsAcceptor ==
  /\ control = "idle"
  /\ shutdown_' = TRUE
  /\ control' = "lock"
  /\ UNCHANGED <<sessvars, acceptor_, sessions_, accepting, accepted, todo>>

\* shutdown_ is set and the acceptor shut down, if there is one.  shutdown_ is
\* read only after accept has failed.
ServerShutdown ==
  /\ control = "idle"
  /\ shutdown_' = TRUE
  /\ acceptor_' = IF acceptor_ = "open" THEN "shut" ELSE acceptor_
  /\ control' = "lock"
  /\ UNCHANGED <<sessvars, sessions_, accepting, accepted, todo>>

\* A call of ShutdownAll by itself.
CallShutdownAll ==
  /\ control = "idle"
  /\ control' = "lock"
  /\ UNCHANGED <<sessvars, acceptor_, shutdown_, sessions_, accepting, accepted, todo>>

ShutdownAllLock ==
  /\ control = "lock"
  /\ control' = "all"
  /\ todo' = sessions_
  /\ UNCHANGED <<sessvars, acceptor_, shutdown_, sessions_, accepting, accepted>>

ShutdownAllNext(s) ==
  /\ control = "all"
  /\ s \in todo
  /\ Shutdown(s)
  /\ todo' = todo \ {s}
  /\ UNCHANGED <<acceptor_, shutdown_, sessions_, accepting, accepted, control>>

ShutdownAllUnlock ==
  /\ control = "all"
  /\ todo = {}
  /\ control' = "idle"
  /\ UNCHANGED <<sessvars, acceptor_, shutdown_, sessions_, accepting, accepted, todo>>

\* The end of OnSessionClose.
OnSessionClose(s) ==
  /\ MutexFree
  /\ Finish(s)
  /\ sessions_' = sessions_ \ {s}
  /\ UNCHANGED <<acceptor_, shutdown_, accepting, accepted, control, todo>>

-----------------------------------------------------------------------------

Control ==
  \/ ServerShutdown \/ CallShutdownAll
  \/ ShutdownAllLock \/ ShutdownAllUnlock
  \/ \E s \in Session : ShutdownAllNext(s)

SrvNext ==
  \/ SessStep /\ UNCHANGED servervars
  \/ ServerStart \/ AcceptEnds \/ InsertSession \/ StartSession
  \/ \E s \in Session : Accept(s) \/ OnSessionClose(s)
  \/ Control

\* ShutdownAll goes on, and whoever waits for sessions_mutex_ gets it however
\* often it is taken in between: CoMutex hands it over in order of arrival.
SrvFairness ==
  /\ SessFairness
  /\ WF_srvvars(ShutdownAllUnlock \/ ShutdownAllLock)
  /\ \A s \in Session : WF_srvvars(ShutdownAllNext(s)) /\ SF_srvvars(OnSessionClose(s))
  /\ SF_srvvars(InsertSession)
  /\ WF_srvvars(StartSession)

SrvSafety == SrvInit /\ [][SrvNext]_srvvars

SrvSpec == SrvSafety /\ SrvFairness

-----------------------------------------------------------------------------

\* When Shutdown has returned, at most one session is still up: the one Accept
\* had in hand, which ShutdownAll could not find in sessions_.
ShutdownLeavesOne ==
  shutdown_ /\ control = "idle" =>
    \A s, u \in sessions_ \cup accepted :
      socket_[s] = "up" /\ socket_[u] = "up" => s = u

\* A session that is not established any more (IsEstab is false) is reported to
\* the user once and leaves sessions_ for good.
SessionCloses ==
  \A s \in Session :
    close_ec_[s] ~> [](disconnected[s] = 1 /\ s \notin sessions_)

=============================================================================
