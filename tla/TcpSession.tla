----------------------------- MODULE TcpSession -----------------------------
(***************************************************************************)
(* TcpSession (network/tcp_detail.h, tcp_detail.cpp): a connected socket   *)
(* with two coroutines, one that receives and one that sends, and any      *)
(* number of callers of Send and Shutdown on any thread.  Whichever        *)
(* coroutine leaves last, by the count shutdown_ref_, closes the session.  *)
(*                                                                         *)
(* A coroutine of a session is at                                          *)
(*   none      not started                                                 *)
(*   loop      at the head of its loop; the receiver in read_some          *)
(*   write     the sender in write_some                                    *)
(*   deref     after an error, SetCloseEc and socket_->shutdown            *)
(*   on_close  in OnClose, before it has drained msg_chan_                 *)
(*   notify    in OnClose, before disconnect_cb_                           *)
(*   erase     in disconnect_cb_, after the user's callback                *)
(*   done      returned                                                    *)
(* A message is unsent; checked (in Send, past the test of shutdown_ref_,  *)
(* its timer running); sent (Send has returned).                           *)
(*                                                                         *)
(* msg_chan_ is the Channel of Channel.tla, here a queue; bytes are        *)
(* counted and carry the name of the message they belong to.               *)
(***************************************************************************)
EXTENDS Naturals, Sequences, FiniteSets

LOCAL INSTANCE Functions

CONSTANTS
  Session,       \* sessions
  Msg,           \* messages, each given to Send once
  SessOf,        \* the session each message is sent on
  Size,          \* buf.size() of each message
  c_multi,       \* most messages popped, and most buffers written, at a time
  ChanCapacity,  \* capacity of msg_chan_ (2^64 - 1 in the code)
  max_pack_size_ \* size of recv_buf_

ASSUME TcpSessionAssumption ==
  /\ SessOf \in [Msg -> Session]
  /\ Size \in [Msg -> Nat]
  /\ c_multi \in Nat \ {0}
  /\ ChanCapacity \in Nat
  /\ max_pack_size_ \in Nat

VARIABLES
  receiver,       \* where the receiving coroutine of each session is
  sender,         \* where the sending coroutine of each session is
  shutdown_ref_,  \* TcpSession::shutdown_ref_
  close_ec_,      \* whether TcpSession::close_ec_ is set
  socket_,        \* up, down (shut down) or closed
  recv_pos,       \* pos of goReceive: unconsumed bytes in recv_buf_
  msg_chan_,      \* TcpSession::msg_chan_
  msg_send_list_, \* TcpSession::msg_send_list_
  state,          \* how far Send has come with each message
  timeout,        \* Msg::timeout
  pos,            \* Msg::pos; Msg::send_half is pos > 0
  called,         \* the error codes each message's callback was called with
  pushed,         \* the messages pushed to msg_chan_, in order
  wire,           \* the bytes written to the socket, by message
  overtaken,      \* history: messages between test and push when OnClose drained
  disconnected    \* how often the user's disconnect callback was called

connvars == <<receiver, sender, shutdown_ref_, close_ec_, socket_, recv_pos, disconnected>>
msgvars == <<msg_chan_, msg_send_list_, state, timeout, pos, called, pushed, wire,
             overtaken>>
sessvars == <<connvars, msgvars>>

SessInit ==
  /\ receiver = [s \in Session |-> "none"]
  /\ sender = [s \in Session |-> "none"]
  /\ shutdown_ref_ = [s \in Session |-> 2]
  /\ close_ec_ = [s \in Session |-> FALSE]
  /\ socket_ = [s \in Session |-> "up"]
  /\ recv_pos = [s \in Session |-> 0]
  /\ msg_chan_ = [s \in Session |-> <<>>]
  /\ msg_send_list_ = [s \in Session |-> <<>>]
  /\ state = [m \in Msg |-> "unsent"]
  /\ timeout = [m \in Msg |-> FALSE]
  /\ pos = [m \in Msg |-> 0]
  /\ called = [m \in Msg |-> <<>>]
  /\ pushed = [s \in Session |-> <<>>]
  /\ wire = [s \in Session |-> <<>>]
  /\ overtaken = {}
  /\ disconnected = [s \in Session |-> 0]

\* goStart, up to the start of the two coroutines it creates.
goStart(s) ==
  /\ receiver[s] = "none"
  /\ receiver' = [receiver EXCEPT ![s] = "loop"]
  /\ sender' = [sender EXCEPT ![s] = "loop"]
  /\ UNCHANGED <<shutdown_ref_, close_ec_, socket_, recv_pos, disconnected, msgvars>>

\* The callbacks of a set of messages are called with ec.
Callback(ms, ec) ==
  called' = [m \in Msg |-> IF m \in ms THEN Append(called[m], ec) ELSE called[m]]

-----------------------------------------------------------------------------
(* Errors: SetCloseEc, then socket_->shutdown.  close_ec_ is not read      *)
(* between the two.                                                        *)

SetCloseEc(s) == close_ec_' = [close_ec_ EXCEPT ![s] = TRUE]

ShutdownSocket(s) ==
  socket_' = [socket_ EXCEPT ![s] = IF @ = "up" THEN "down" ELSE @]

\* TcpSession::Shutdown, by a user that has the session's id.
Shutdown(s) ==
  /\ SetCloseEc(s)
  /\ ShutdownSocket(s)
  /\ UNCHANGED <<receiver, sender, shutdown_ref_, recv_pos, disconnected, msgvars>>

-----------------------------------------------------------------------------
(* goReceive                                                               *)

\* Bytes arrive and the callback leaves some of them: consume is at most n + pos.
Receive(s) ==
  /\ receiver[s] = "loop"
  /\ recv_pos[s] < max_pack_size_
  /\ \E n \in 1..(max_pack_size_ - recv_pos[s]) :
       \E consume \in 0..(recv_pos[s] + n) :
         recv_pos' = [recv_pos EXCEPT ![s] = @ + n - consume]
  /\ UNCHANGED <<receiver, sender, shutdown_ref_, close_ec_, socket_, disconnected, msgvars>>

\* The receive buffer is full, read_some fails, or the callback rejects the data.
ReceiveFails(s) ==
  /\ receiver[s] = "loop"
  /\ SetCloseEc(s)
  /\ ShutdownSocket(s)
  /\ receiver' = [receiver EXCEPT ![s] = "deref"]
  /\ UNCHANGED <<sender, shutdown_ref_, recv_pos, disconnected, msgvars>>

\* Mutant: the result of the decrement is not tested.
ReceiverDerefUntested(s) ==
  /\ receiver[s] = "deref"
  /\ shutdown_ref_' = [shutdown_ref_ EXCEPT ![s] = @ - 1]
  /\ receiver' = [receiver EXCEPT ![s] = "on_close"]
  /\ UNCHANGED <<sender, close_ec_, socket_, recv_pos, disconnected, msgvars>>

ReceiverDeref(s) ==
  /\ receiver[s] = "deref"
  /\ shutdown_ref_' = [shutdown_ref_ EXCEPT ![s] = @ - 1]
  /\ receiver' = [receiver EXCEPT ![s] = IF shutdown_ref_[s] = 1 THEN "on_close" ELSE "done"]
  /\ UNCHANGED <<sender, close_ec_, socket_, recv_pos, disconnected, msgvars>>

-----------------------------------------------------------------------------
(* goSend                                                                  *)

\* goSend finds that the receiver has left, and takes over the close.  Nobody
\* else changes a shutdown_ref_ of 1 between the test and the decrement.
SenderLeaves(s) ==
  /\ sender[s] = "loop"
  /\ shutdown_ref_[s] = 1
  /\ shutdown_ref_' = [shutdown_ref_ EXCEPT ![s] = 0]
  /\ sender' = [sender EXCEPT ![s] = "on_close"]
  /\ UNCHANGED <<receiver, close_ec_, socket_, recv_pos, disconnected, msgvars>>

First(q, n) == SubSeq(q, 1, IF Len(q) < n THEN Len(q) ELSE n)

Without(q, ms) == SelectSeq(q, LAMBDA m : m \notin ms)

\* Mutant: send_half is not looked at.
ExpiredHalf(m) == timeout[m]

\* msg->timeout && !msg->send_half.
Expired(m) == timeout[m] /\ pos[m] = 0

\* The expired messages "Make buffers" comes to: it stops at the first live
\* message after c_multi others.
Skipped(q) ==
  {q[i] : i \in {j \in DOMAIN q :
     /\ Expired(q[j])
     /\ Cardinality({k \in 1..(j - 1) : ~Expired(q[k])}) <= c_multi}}

\* From the head of the loop to write_some, or to co_yield with nothing to
\* write.  A timer that fires in between changes nothing that shows: a message
\* that has expired is given up when it is popped or when buffers are made.
Prepare(s) ==
  LET popped == First(msg_chan_[s], c_multi)
      late   == {m \in Range(popped) : timeout[m]}
      list   == msg_send_list_[s] \o Without(popped, late)
      rest   == Without(list, Skipped(list))
  IN  /\ sender[s] = "loop"
      /\ shutdown_ref_[s] # 1
      /\ Callback(late \cup Skipped(list), "ec_timeout")
      /\ msg_chan_' = [msg_chan_ EXCEPT ![s] = Without(@, Range(popped))]
      /\ msg_send_list_' = [msg_send_list_ EXCEPT ![s] = rest]
      /\ sender' = [sender EXCEPT ![s] = IF rest = <<>> THEN "loop" ELSE "write"]
      /\ UNCHANGED <<receiver, shutdown_ref_, close_ec_, socket_, recv_pos, disconnected,
                     state, timeout, pos, pushed, wire, overtaken>>

\* The bytes of the messages q, one after the other, without the first from[m] of
\* each message m.
Bytes(q, from) ==
  LET upto[i \in 0..Len(q)] ==
        IF i = 0 THEN <<>> ELSE upto[i - 1] \o [b \in 1..(Size[q[i]] - from[q[i]]) |-> q[i]]
  IN  upto[Len(q)]

Written(m, bytes) == Len(SelectSeq(bytes, LAMBDA b : b = m))

\* write_some takes n bytes.  What was written completely is answered and
\* removed, and a message written in part goes on from there.
WriteSome(s) ==
  LET bytes == Bytes(First(msg_send_list_[s], c_multi), pos)
  IN  /\ sender[s] = "write"
      /\ socket_[s] = "up"
      /\ \E n \in 1..Len(bytes) :
           LET out   == SubSeq(bytes, 1, n)
               whole == {m \in Range(out) : pos[m] + Written(m, out) = Size[m]}
           IN  /\ wire' = [wire EXCEPT ![s] = @ \o out]
               /\ Callback(whole, "ok")
               /\ msg_send_list_' = [msg_send_list_ EXCEPT ![s] = Without(@, whole)]
               /\ pos' = [m \in Msg |-> IF m \in whole THEN pos[m] ELSE pos[m] + Written(m, out)]
      /\ sender' = [sender EXCEPT ![s] = "loop"]
      /\ UNCHANGED <<receiver, shutdown_ref_, close_ec_, socket_, recv_pos, disconnected,
                     msg_chan_, state, timeout, pushed, overtaken>>

\* Mutant: the socket is not shut down, so the receiver is not told.
WriteFailsNoShutdown(s) ==
  /\ sender[s] = "write"
  /\ SetCloseEc(s)
  /\ sender' = [sender EXCEPT ![s] = "deref"]
  /\ UNCHANGED <<receiver, shutdown_ref_, socket_, recv_pos, disconnected, msgvars>>

\* write_some fails: certainly on a socket that was shut down.
WriteFails(s) ==
  /\ sender[s] = "write"
  /\ SetCloseEc(s)
  /\ ShutdownSocket(s)
  /\ sender' = [sender EXCEPT ![s] = "deref"]
  /\ UNCHANGED <<receiver, shutdown_ref_, recv_pos, disconnected, msgvars>>

SenderDeref(s) ==
  /\ sender[s] = "deref"
  /\ shutdown_ref_' = [shutdown_ref_ EXCEPT ![s] = @ - 1]
  /\ sender' = [sender EXCEPT ![s] = IF shutdown_ref_[s] = 1 THEN "on_close" ELSE "done"]
  /\ UNCHANGED <<receiver, close_ec_, socket_, recv_pos, disconnected, msgvars>>
-----------------------------------------------------------------------------
(* OnClose, by the coroutine that left last.                               *)

At(s, here) == receiver[s] = here \/ sender[s] = here

Move(s, here, next) ==
  /\ At(s, here)
  /\ receiver' = [receiver EXCEPT ![s] = IF @ = here THEN next ELSE @]
  /\ sender' = [sender EXCEPT ![s] = IF @ = here THEN next ELSE @]

\* socket_->close, and everything in msg_chan_ and msg_send_list_ is answered.
OnClose(s) ==
  /\ Move(s, "on_close", "notify")
  /\ socket_' = [socket_ EXCEPT ![s] = "closed"]
  /\ Callback(Range(msg_chan_[s]) \cup Range(msg_send_list_[s]), "ec_shutdown")
  /\ msg_chan_' = [msg_chan_ EXCEPT ![s] = <<>>]
  /\ msg_send_list_' = [msg_send_list_ EXCEPT ![s] = <<>>]
  /\ overtaken' = overtaken \cup {m \in Msg : SessOf[m] = s /\ state[m] = "checked"}
  /\ UNCHANGED <<shutdown_ref_, close_ec_, recv_pos, disconnected, state, timeout, pos, pushed,
                 wire>>

\* disconnect_cb_: the user's callback, called by the owner's OnSessionClose.
Disconnected(s) ==
  /\ Move(s, "notify", "erase")
  /\ disconnected' = [disconnected EXCEPT ![s] = @ + 1]
  /\ UNCHANGED <<shutdown_ref_, close_ec_, socket_, recv_pos, msgvars>>

-----------------------------------------------------------------------------
(* Send, on any thread that has the session's id.                          *)

\* The caller has the id from connect_cb_ on, and may keep it after the close.
CanSend(m) == state[m] = "unsent" /\ sender[SessOf[m]] # "none"

\* Send returns at once: the session is closing, or the buffer is empty.
SendRefused(m) ==
  /\ CanSend(m)
  /\ shutdown_ref_[SessOf[m]] < 2 \/ Size[m] = 0
  /\ Callback({m}, IF shutdown_ref_[SessOf[m]] < 2 THEN "ec_shutdown" ELSE "ok")
  /\ state' = [state EXCEPT ![m] = "sent"]
  /\ UNCHANGED <<connvars, msg_chan_, msg_send_list_, timeout, pos, pushed, wire, overtaken>>

\* Mutant: the test of shutdown_ref_ is missing.
SendCheckUntested(m) ==
  /\ CanSend(m)
  /\ Size[m] > 0
  /\ state' = [state EXCEPT ![m] = "checked"]
  /\ UNCHANGED <<connvars, msg_chan_, msg_send_list_, timeout, pos, called, pushed,
                 wire, overtaken>>

SendCheck(m) ==
  /\ CanSend(m)
  /\ shutdown_ref_[SessOf[m]] = 2
  /\ Size[m] > 0
  /\ state' = [state EXCEPT ![m] = "checked"]
  /\ UNCHANGED <<connvars, msg_chan_, msg_send_list_, timeout, pos, called, pushed,
                 wire, overtaken>>

\* TryPush, and the answer ec_send_overflow when it fails.
SendPush(m) ==
  LET s == SessOf[m]
  IN  /\ state[m] = "checked"
      /\ state' = [state EXCEPT ![m] = "sent"]
      /\ \/ /\ Len(msg_chan_[s]) < ChanCapacity
            /\ msg_chan_' = [msg_chan_ EXCEPT ![s] = Append(@, m)]
            /\ pushed' = [pushed EXCEPT ![s] = Append(@, m)]
            /\ UNCHANGED called
         \/ /\ Len(msg_chan_[s]) >= ChanCapacity
            /\ Callback({m}, "ec_send_overflow")
            /\ UNCHANGED <<msg_chan_, pushed>>
      /\ UNCHANGED <<connvars, msg_send_list_, timeout, pos, wire, overtaken>>

\* The timer of a message nobody has answered yet.  Nobody looks at the flag of
\* an answered message.
Timeout(m) ==
  /\ state[m] # "unsent"
  /\ called[m] = <<>>
  /\ timeout' = [timeout EXCEPT ![m] = TRUE]
  /\ UNCHANGED <<connvars, msg_chan_, msg_send_list_, state, pos, called, pushed, wire, overtaken>>

Send(m) == SendRefused(m) \/ SendCheck(m) \/ SendPush(m) \/ Timeout(m)

Receiver(s) == Receive(s) \/ ReceiveFails(s) \/ ReceiverDeref(s)

Sender(s) == SenderLeaves(s) \/ Prepare(s) \/ WriteSome(s) \/ WriteFails(s) \/ SenderDeref(s)

Closing(s) == OnClose(s) \/ Disconnected(s)

\* The owner's OnSessionClose has returned.
Finish(s) ==
  /\ Move(s, "erase", "done")
  /\ UNCHANGED <<shutdown_ref_, close_ec_, socket_, recv_pos, disconnected, msgvars>>

\* A user that got the session's id in connect_cb_ shuts it down.
UserShutdown(s) == receiver[s] # "none" /\ Shutdown(s)

SessStep ==
  \/ \E s \in Session : UserShutdown(s) \/ Receiver(s) \/ Sender(s) \/ Closing(s)
  \/ \E m \in Msg : Send(m)

-----------------------------------------------------------------------------
\* The coroutines of a session are run when they can go on.  Reading and
\* writing on a socket that is up may take for ever; on one that was shut down
\* both fail.
SessFairness ==
  \A s \in Session :
    /\ WF_sessvars(socket_[s] # "up" /\ ReceiveFails(s))
    /\ WF_sessvars(ReceiverDeref(s))
    /\ WF_sessvars(SenderLeaves(s) \/ Prepare(s) \/ SenderDeref(s))
    /\ WF_sessvars(socket_[s] # "up" /\ WriteFails(s))
    /\ WF_sessvars(Closing(s))

-----------------------------------------------------------------------------

\* Every message that Send has taken is in msg_chan_, in msg_send_list_ or
\* answered, exactly one of them and once, through overflow, timeout, partial
\* writes and OnClose: no callback is called twice.  Once OnClose has drained
\* msg_chan_ every callback was called, of the messages sent before and of those
\* sent later.  The exception: a Send that was past its test of shutdown_ref_ and
\* pushes after that leaves its message in msg_chan_ for good, unanswered.
MessageInOnePlace ==
  \A m \in Msg :
    LET s == SessOf[m]
    IN  /\ Written(m, msg_chan_[s]) + Written(m, msg_send_list_[s]) + Len(called[m])
             = (IF state[m] = "sent" THEN 1 ELSE 0)
        /\ socket_[s] = "closed" /\ state[m] = "sent" /\ m \notin overtaken
             => Len(called[m]) = 1

\* The bytes on the socket are those of the messages answered "ok", whole and in
\* the order of Send, followed by the first bytes of at most one more message.
\* A message answered with a timeout or an overflow has sent nothing.
StreamExact ==
  \A s \in Session :
    LET ok      == SelectSeq(pushed[s], LAMBDA m : called[m] = <<"ok">>)
        partial == {m \in Range(pushed[s]) \ Range(ok) : Written(m, wire[s]) > 0}
        whole   == Bytes(ok, [m \in Msg |-> 0])
    IN  /\ Len(whole) <= Len(wire[s]) /\ whole = SubSeq(wire[s], 1, Len(whole))
        /\ Len(wire[s]) > Len(whole) => \E m \in partial :
             /\ \A i \in (Len(whole) + 1)..Len(wire[s]) : wire[s][i] = m
             /\ Len(wire[s]) - Len(whole) < Size[m]
             /\ called[m] \in {<<>>, <<"ec_shutdown">>}

\* OnClose runs once, after both coroutines have left the socket and the send
\* list alone, and reports why: close_ec_ has been set.
ClosedOnce ==
  \A s \in Session :
    /\ disconnected[s] <= 1
    /\ ~(receiver[s] \in {"on_close", "notify", "erase"} /\ sender[s] # "done")
    /\ ~(sender[s] \in {"on_close", "notify", "erase"} /\ receiver[s] # "done")
    /\ receiver[s] = "done" /\ sender[s] = "done" => disconnected[s] = 1
    /\ disconnected[s] = 1 => close_ec_[s] /\ msg_send_list_[s] = <<>>
=============================================================================
