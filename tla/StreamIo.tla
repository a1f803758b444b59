------------------------------ MODULE StreamIo ------------------------------
(***************************************************************************)
(* The payload of one connection, from the peer through smoltcp's buffers  *)
(* and the stream's futures to the task that serves it and back.           *)
(*   dpdk-net/src/socket/tcp.rs            send, recv, close, drop         *)
(*   dpdk-net/src/runtime/tokio_compat.rs  AsyncRead and AsyncWrite        *)
(*   dpdk-net-test/src/app/echo_server.rs  handle_connection               *)
(*   dpdk-net-test/src/app/custom_http.rs  handle_connection               *)
(*                                                                         *)
(* Two tasks are modelled.  "echo" uses the futures: recv, send, close.    *)
(* "tokio" uses the traits the way the HTTP servers do: read, write_all,   *)
(* flush, and at the end either a shutdown (hyper) or just the drop        *)
(* (custom_http); its answer to a request is the request's own bytes, as   *)
(* simple_echo_handler's.  The peer's bytes are numbered.  smoltcp and the *)
(* network are the environment: a reliable stream, cut off by a reset.     *)
(***************************************************************************)
EXTENDS Integers, Sequences, FiniteSetsExt

CONSTANTS RxCap, TxCap,   \* sizes of the socket buffers
          BufSize,        \* the task's read buffer
          MaxBytes        \* bound: bytes the peer sends

ASSUME StreamAssumption ==
  {RxCap, TxCap, BufSize} \subseteq Nat \ {0} /\ MaxBytes \in Nat

VARIABLES
  state,             \* of the smoltcp socket, "Free" when removed
  rx_buffer,         \* received, not yet read
  tx_buffer,         \* written, not yet acknowledged
  recv_waker, send_waker,  \* is the task registered?
  peer_sent,         \* how many bytes the peer has sent
  got,               \* the bytes the peer has received and acknowledged
  reset,             \* has the peer reset the connection?
  handler,           \* "echo" or "tokio"
  pc,                \* what the task awaits
  waiting,           \* TRUE: the task sleeps until it is woken
  data, offset       \* the slice being sent and TcpSendFuture::offset

socket_vars == <<state, rx_buffer, tx_buffer>>
waker_vars == <<recv_waker, send_waker>>
peer_vars == <<peer_sent, got, reset>>
task_vars == <<handler, pc, waiting, data, offset>>
vars == <<socket_vars, waker_vars, peer_vars, task_vars>>

Dead == {"Closed", "TimeWait", "Free"}
ClosingStates == {"FinWait1", "FinWait2", "Closing", "LastAck"}

(* smoltcp: when recv_slice and send_slice do not return an error.         *)
MayRecv == state \in {"Established", "FinWait1", "FinWait2"} \/ rx_buffer # <<>>
MaySend == state \in {"Established", "CloseWait"}

Unsent == SubSeq(data, offset + 1, Len(data))
Bytes(n) == [i \in 1..n |-> i]

(* A stream just accepted, served by either kind of task.                  *)
Init ==
  /\ state = "Established" /\ rx_buffer = <<>> /\ tx_buffer = <<>>
  /\ recv_waker = FALSE /\ send_waker = FALSE
  /\ peer_sent = 0 /\ got = <<>> /\ reset = FALSE
  /\ handler \in {"echo", "tokio"}
  /\ pc = "read" /\ waiting = FALSE
  /\ data = <<>> /\ offset = 0
-----------------------------------------------------------------------------
(* smoltcp wakes the receiving side, the sending side, or (set_state) both.*)
WakeRecv ==
  /\ recv_waker' = FALSE
  /\ waiting' = (waiting /\ ~recv_waker)
  /\ UNCHANGED send_waker
WakeSend ==
  /\ send_waker' = FALSE
  /\ waiting' = (waiting /\ ~send_waker)
  /\ UNCHANGED recv_waker
set_state(s) ==
  /\ state' = s
  /\ recv_waker' = FALSE /\ send_waker' = FALSE
  /\ waiting' = (waiting /\ ~recv_waker /\ ~send_waker)

(* A segment with new bytes, as many as fit in the window.                 *)
PeerSends ==
  /\ state \in {"Established", "FinWait1", "FinWait2"}
  /\ \E n \in 1..Min({RxCap - Len(rx_buffer), MaxBytes - peer_sent}) :
       /\ peer_sent' = peer_sent + n
       /\ rx_buffer' = rx_buffer \o [i \in 1..n |-> peer_sent + i]
  /\ WakeRecv
  /\ UNCHANGED <<state, tx_buffer, got, reset, handler, pc, data, offset>>

(* The peer acknowledges the first bytes of tx_buffer.                     *)
PeerAcks ==
  /\ state \in {"Established", "CloseWait"} \cup ClosingStates
  /\ \E n \in 1..Len(tx_buffer) :
       /\ got' = got \o SubSeq(tx_buffer, 1, n)
       /\ tx_buffer' = SubSeq(tx_buffer, n + 1, Len(tx_buffer))
  /\ WakeSend
  /\ UNCHANGED <<state, rx_buffer, peer_sent, reset, handler, pc, data, offset>>

PeerFin ==
  /\ peer_sent = MaxBytes
  /\ \E t \in {<<"Established", "CloseWait">>, <<"FinWait1", "Closing">>,
               <<"FinWait2", "TimeWait">>} : state = t[1] /\ set_state(t[2])
  /\ UNCHANGED <<rx_buffer, tx_buffer, peer_vars, handler, pc, data, offset>>

(* The FIN is sent after the last byte of tx_buffer.                       *)
PeerAcksFin ==
  /\ tx_buffer = <<>>
  /\ \E t \in {<<"FinWait1", "FinWait2">>, <<"Closing", "TimeWait">>,
               <<"LastAck", "Closed">>} : state = t[1] /\ set_state(t[2])
  /\ UNCHANGED <<rx_buffer, tx_buffer, peer_vars, handler, pc, data, offset>>

(* A reset closes the socket; its buffers keep their contents.             *)
PeerResets ==
  /\ state \notin Dead
  /\ set_state("Closed")
  /\ reset' = TRUE
  /\ UNCHANGED <<rx_buffer, tx_buffer, peer_sent, got, handler, pc, data, offset>>
-----------------------------------------------------------------------------
(* Plausible mistakes in this code; each replaces the definition named in  *)
(* its comment when the properties are tested for their strength.          *)

Poll(h, label) == handler = h /\ pc = label /\ ~waiting

\* PendingSend: registers for the other direction
RegisterRecvForSend ==
  /\ recv_waker' = TRUE /\ waiting' = TRUE
  /\ UNCHANGED send_waker

\* PollSend: the offset is not advanced after a partial send
OffsetForgotten ==
  /\ Poll("echo", "send")
  /\ LET n == Min({TxCap - Len(tx_buffer), Len(data) - offset})
     IN  /\ MaySend
         /\ tx_buffer' = tx_buffer \o SubSeq(data, offset + 1, offset + n)
         /\ \/ /\ n = Len(data) /\ pc' = "read" /\ offset' = Len(data)
               /\ UNCHANGED <<waker_vars, waiting>>
            \/ /\ n < Len(data) /\ send_waker' = TRUE /\ waiting' = TRUE
               /\ UNCHANGED <<recv_waker, pc, offset>>
  /\ UNCHANGED <<state, rx_buffer, peer_vars, handler, data>>

\* recv_slice: the end of the stream is taken for `no data yet'
EndIsPending(onData, onEnd) ==
  LET n == Min({BufSize, Len(rx_buffer)})
  IN  \/ /\ n > 0
         /\ data' = SubSeq(rx_buffer, 1, n) /\ offset' = 0
         /\ rx_buffer' = SubSeq(rx_buffer, n + 1, Len(rx_buffer))
         /\ pc' = onData
         /\ UNCHANGED <<waker_vars, waiting>>
      \/ /\ n = 0
         /\ recv_waker' = TRUE /\ waiting' = TRUE
         /\ UNCHANGED <<rx_buffer, data, offset, pc, send_waker>>

\* close: the stream is dropped without the FIN handshake
DropWithoutClose ==
  /\ Poll("echo", "close")
  /\ pc' = "drop"
  /\ UNCHANGED <<socket_vars, waker_vars, peer_vars, handler, waiting, data, offset>>

\* poll_flush: done when the data has been handed to smoltcp
FlushAtOnce ==
  /\ Poll("tokio", "flush")
  /\ pc' = "read"
  /\ UNCHANGED <<socket_vars, waker_vars, peer_vars, handler, waiting, data, offset>>
-----------------------------------------------------------------------------
(* A future that stays pending has registered for one direction.           *)
PendingRecv ==
  /\ recv_waker' = TRUE /\ waiting' = TRUE
  /\ UNCHANGED send_waker
PendingSend ==
  /\ send_waker' = TRUE /\ waiting' = TRUE
  /\ UNCHANGED recv_waker

(* TcpRecvFuture::poll and poll_read: take what is there; at the end of    *)
(* the stream, or when the connection failed, the handler's loop ends.     *)
recv_slice(onData, onEnd) ==
  LET n == Min({BufSize, Len(rx_buffer)})
  IN  \/ /\ n > 0
         /\ data' = SubSeq(rx_buffer, 1, n) /\ offset' = 0
         /\ rx_buffer' = SubSeq(rx_buffer, n + 1, Len(rx_buffer))
         /\ pc' = onData
         /\ UNCHANGED <<waker_vars, waiting>>
      \/ /\ n = 0 /\ MayRecv
         /\ PendingRecv
         /\ UNCHANGED <<rx_buffer, data, offset, pc>>
      \/ /\ n = 0 /\ ~MayRecv
         /\ pc' \in onEnd
         /\ UNCHANGED <<rx_buffer, data, offset, waker_vars, waiting>>

PollRecv ==
  /\ Poll("echo", "read")
  /\ recv_slice("send", {"close"})
  /\ UNCHANGED <<state, tx_buffer, peer_vars, handler>>

poll_read ==
  /\ Poll("tokio", "read")
  /\ recv_slice("write", {"shutdown", "drop"})
  /\ UNCHANGED <<state, tx_buffer, peer_vars, handler>>

(* TcpSendFuture::poll: enqueue what fits, advance the offset, wait for    *)
(* room until the whole slice is enqueued; an error ends the loop.         *)
PollSend ==
  /\ Poll("echo", "send")
  /\ LET n == Min({TxCap - Len(tx_buffer), Len(data) - offset})
     IN  \/ /\ MaySend
            /\ tx_buffer' = tx_buffer \o SubSeq(data, offset + 1, offset + n)
            /\ offset' = offset + n
            /\ \/ /\ n > 0 /\ offset' >= Len(data)
                  /\ pc' = "read"
                  /\ UNCHANGED <<waker_vars, waiting>>
               \/ /\ n = 0 \/ offset' < Len(data)
                  /\ PendingSend
                  /\ UNCHANGED pc
         \/ /\ ~MaySend
            /\ pc' = "close"
            /\ UNCHANGED <<tx_buffer, offset, waker_vars, waiting>>
  /\ UNCHANGED <<state, rx_buffer, peer_vars, handler, data>>

(* One poll_write of write_all, which calls it again until the slice is    *)
(* written; an error is returned to the handler, which gives up.           *)
poll_write ==
  /\ Poll("tokio", "write")
  /\ LET n == Min({TxCap - Len(tx_buffer), Len(data) - offset})
     IN  \/ /\ MaySend /\ n > 0
            /\ tx_buffer' = tx_buffer \o SubSeq(data, offset + 1, offset + n)
            /\ offset' = offset + n
            /\ pc' = IF offset' = Len(data) THEN "flush" ELSE "write"
            /\ UNCHANGED <<waker_vars, waiting>>
         \/ /\ MaySend /\ n = 0
            /\ PendingSend
            /\ UNCHANGED <<tx_buffer, offset, pc>>
         \/ /\ ~MaySend
            /\ pc' = "drop"
            /\ UNCHANGED <<tx_buffer, offset, waker_vars, waiting>>
  /\ UNCHANGED <<state, rx_buffer, peer_vars, handler, data>>

(* poll_flush: done when the send buffer is empty, that is acknowledged.   *)
poll_flush ==
  /\ Poll("tokio", "flush")
  /\ \/ /\ tx_buffer = <<>>
        /\ pc' = "read"
        /\ UNCHANGED <<waker_vars, waiting>>
     \/ /\ tx_buffer # <<>>
        /\ PendingSend
        /\ UNCHANGED pc
  /\ UNCHANGED <<socket_vars, peer_vars, handler, data, offset>>
-----------------------------------------------------------------------------
(* smoltcp's close() in the states a stream can be in.                     *)
Closed(s) == CASE s = "Established" -> "FinWait1"
               [] s = "CloseWait"   -> "LastAck"
               [] OTHER             -> s

(* close() or poll_shutdown: start closing unless that has been done, and  *)
(* wait for Closed or TimeWait; then the stream is dropped.                *)
CloseAndWait ==
  /\ state' = Closed(state)
  /\ \/ /\ state' \in Dead
        /\ pc' = "drop"
        /\ UNCHANGED <<waker_vars, waiting>>
     \/ /\ state' \notin Dead
        /\ PendingSend
        /\ UNCHANGED pc
  /\ UNCHANGED <<rx_buffer, tx_buffer, peer_vars, handler, data, offset>>

close == Poll("echo", "close") /\ CloseAndWait
poll_shutdown == Poll("tokio", "shutdown") /\ CloseAndWait

(* Drop for TcpStream: a dead socket is removed, a closing one finishes on *)
(* its own, any other is aborted.                                          *)
DropStream ==
  /\ pc = "drop"
  /\ pc' = "done"
  /\ state' = CASE state \in Dead          -> "Free"
                [] state \in ClosingStates -> state
                [] OTHER                   -> "Closed"
  /\ recv_waker' = FALSE /\ send_waker' = FALSE
  /\ UNCHANGED <<rx_buffer, tx_buffer, peer_vars, handler, waiting, data, offset>>
-----------------------------------------------------------------------------
Peer == PeerSends \/ PeerAcks \/ PeerFin \/ PeerAcksFin \/ PeerResets
Task ==
  \/ PollRecv \/ PollSend \/ close
  \/ poll_read \/ poll_write \/ poll_flush \/ poll_shutdown
  \/ DropStream

Next == Peer \/ Task

Spec == Init /\ [][Next]_vars

(* The executor polls a woken task; a peer that stays connected sends all  *)
(* it has, then its FIN, and acknowledges what it receives.                *)
FairSpec ==
  /\ Spec
  /\ WF_vars(Task)
  /\ WF_vars(PeerSends) /\ WF_vars(PeerAcks) /\ WF_vars(PeerFin)
  /\ WF_vars(PeerAcksFin)
-----------------------------------------------------------------------------
TypeOK ==
  /\ state \in {"Established", "CloseWait"} \cup ClosingStates \cup Dead
  /\ rx_buffer \in Seq(1..MaxBytes) /\ Len(rx_buffer) <= RxCap
  /\ tx_buffer \in Seq(1..MaxBytes) /\ Len(tx_buffer) <= TxCap
  /\ recv_waker \in BOOLEAN /\ send_waker \in BOOLEAN
  /\ peer_sent \in 0..MaxBytes /\ got \in Seq(1..MaxBytes) /\ reset \in BOOLEAN
  /\ handler \in {"echo", "tokio"} /\ waiting \in BOOLEAN
  /\ pc \in {"read", "send", "write", "flush", "close", "shutdown", "drop", "done"}
  /\ data \in Seq(1..MaxBytes) /\ Len(data) <= BufSize
  /\ offset \in 0..Len(data)

(* No byte is lost, repeated or moved on its way through the buffers, the  *)
(* partial reads and the partial sends: what the peer has got back, what   *)
(* is in tx_buffer, what the task has yet to send and what it has yet to   *)
(* read are, in this order, the bytes the peer has sent.                   *)
EchoInOrder == got \o tx_buffer \o Unsent \o rx_buffer = Bytes(peer_sent)

(* The task never sleeps without being registered for what it waits for,   *)
(* nor when it could go on: there is nothing to read, no room to send, or  *)
(* the close handshake is not over.                                        *)
NoLostWakeup ==
  waiting =>
    /\ pc = "read" => recv_waker /\ rx_buffer = <<>> /\ MayRecv
    /\ pc # "read" => send_waker
    /\ pc \in {"send", "write"} => tx_buffer # <<>> /\ MaySend
    /\ pc \in {"close", "shutdown"} => state \in ClosingStates

(* A completed flush means that the peer has everything written so far: a  *)
(* server that drops the stream afterwards, which aborts the connection,   *)
(* cuts off no answer.                                                     *)
FlushMeansDelivered ==
  (handler = "tokio" /\ pc \in {"read", "shutdown"}) => tx_buffer = <<>> /\ Unsent = <<>>

(* A peer that does not reset gets all of its bytes back.                  *)
AllEchoed == <>(reset \/ got = Bytes(MaxBytes))

(* The echo task ends, whatever the peer does; without a reset so does     *)
(* the other one.  (A reset during poll_flush leaves bytes in the send     *)
(* buffer, and poll_flush looks at nothing else: it then waits for ever.)  *)
TaskEnds == <>(pc = "done" \/ (reset /\ handler = "tokio"))
=============================================================================
