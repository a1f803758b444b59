----------------------------- MODULE TcpSockets -----------------------------
(***************************************************************************)
(* One reactor thread: the life of its TCP sockets from bind, connect and  *)
(* accept to their removal from the SocketSet.                             *)
(*   dpdk-net/src/socket/tcp.rs      TcpListener, TcpStream, their futures *)
(*   dpdk-net/src/runtime/reactor.rs the loop that drives smoltcp          *)
(*                                                                         *)
(* The thread is cooperative: it runs ingress, egress and cleanup without  *)
(* giving way, and the application's tasks only while the reactor yields.  *)
(* `phase' is where it is.  smoltcp is the environment: its connection     *)
(* states, the control segment each socket has still to emit, and one      *)
(* waker per direction.  Payload is left out: a socket matters here for    *)
(* its state, its owner and who waits on it.                               *)
(***************************************************************************)
EXTENDS FiniteSets, Naturals, Sequences, Functions

CONSTANTS Handles,       \* bound: slots of the SocketSet
          Backlog,       \* size of the listener's pool, at least 1
          Backpressure,  \* may egress leave segments unsent?
          MayCancel      \* may the reactor be cancelled?

ASSUME SocketsAssumption ==
  /\ Backlog \in Nat \ {0}
  /\ Backpressure \in BOOLEAN
  /\ MayCancel \in BOOLEAN

VARIABLES
  sock,              \* SocketSet: state of each socket, or "Free"
  out,               \* control segment the socket has still to emit
  recv_waker,        \* TRUE: the accept task is registered for receive
  send_waker,        \* TRUE: the stream's task is registered for send
  listener,          \* "unbound", "bound" or "dropped"
  handles,           \* TcpListener::handles
  accept_task,       \* "ready" to be polled or "waiting" for a wake-up
  streams,           \* handles owned by a TcpStream
  op,                \* the future a stream's task awaits
  waiting,           \* streams whose task waits for a wake-up
  orphaned_closing,  \* ReactorInner::orphaned_closing
  phase,             \* where the reactor thread is
  cancel             \* the shutdown flag

smoltcp_vars == <<sock, out, recv_waker, send_waker>>
listener_vars == <<listener, handles, accept_task>>
stream_vars == <<streams, op, waiting>>
vars == <<smoltcp_vars, listener_vars, stream_vars, orphaned_closing,
          phase, cancel>>

States == {"Listen", "SynSent", "SynReceived", "Established", "FinWait1",
           "FinWait2", "CloseWait", "Closing", "LastAck", "TimeWait", "Closed"}
Dead == {"Closed", "TimeWait"}
ClosingStates == {"FinWait1", "FinWait2", "Closing", "LastAck"}
Live == {h \in Handles : sock[h] # "Free"}
Unused == Handles \ Live
-----------------------------------------------------------------------------
(* smoltcp: how a segment from the peer moves a socket.  A reset in        *)
(* SynReceived returns the socket to Listen.                               *)
Segments ==
  {<<"Listen", "syn", "SynReceived">>,
   <<"SynSent", "syn-ack", "Established">>,
   <<"SynReceived", "ack", "Established">>,
   <<"SynReceived", "fin-ack", "CloseWait">>,
   <<"Established", "fin", "CloseWait">>,
   <<"FinWait1", "ack", "FinWait2">>,
   <<"FinWait1", "fin", "Closing">>,
   <<"FinWait1", "fin-ack", "TimeWait">>,
   <<"FinWait2", "fin", "TimeWait">>,
   <<"Closing", "ack", "TimeWait">>,
   <<"LastAck", "ack", "Closed">>,
   <<"SynReceived", "rst", "Listen">>} \cup
  {<<s, "rst", "Closed">> : s \in {"SynSent", "Established", "CloseWait"}
                                    \cup ClosingStates}

(* The peer can answer only what the socket has emitted.                   *)
Answers == {"syn-ack", "ack", "fin-ack"}

(* smoltcp's set_state on h: both wakers are taken and woken.              *)
Wake(h) ==
  /\ accept_task' = IF recv_waker[h] THEN "ready" ELSE accept_task
  /\ waiting' = IF send_waker[h] THEN waiting \ {h} ELSE waiting
  /\ recv_waker' = [recv_waker EXCEPT ![h] = FALSE]
  /\ send_waker' = [send_waker EXCEPT ![h] = FALSE]

set_state(h, state, segment) ==
  /\ sock' = [sock EXCEPT ![h] = state]
  /\ out' = [out EXCEPT ![h] = segment]
  /\ Wake(h)

(* The reset an aborted socket has still to emit: of a connection the peer *)
(* takes part in, or ("rst-syn") of an attempt it has not answered.        *)
Reset(h) == CASE sock[h] = "Closed"  -> out[h]
              [] sock[h] = "SynSent" -> "rst-syn"
              [] OTHER               -> "rst"

(* sockets.remove: the socket is dropped, its wakers with it.              *)
remove(H) ==
  /\ sock' = [h \in Handles |-> IF h \in H THEN "Free" ELSE sock[h]]
  /\ out' = [h \in Handles |-> IF h \in H THEN "none" ELSE out[h]]
  /\ recv_waker' = [h \in Handles |-> h \notin H /\ recv_waker[h]]
  /\ send_waker' = [h \in Handles |-> h \notin H /\ send_waker[h]]
-----------------------------------------------------------------------------
Init ==
  /\ sock = [h \in Handles |-> "Free"]
  /\ out = [h \in Handles |-> "none"]
  /\ recv_waker = [h \in Handles |-> FALSE]
  /\ send_waker = [h \in Handles |-> FALSE]
  /\ listener = "unbound" /\ handles = <<>> /\ accept_task = "ready"
  /\ streams = {} /\ op = [h \in Handles |-> "none"] /\ waiting = {}
  /\ orphaned_closing = {}
  /\ phase = "tasks" /\ cancel = FALSE
-----------------------------------------------------------------------------
(* The application runs between two iterations, or after the reactor.      *)
Running == phase \in {"tasks", "stopped"}
-----------------------------------------------------------------------------
(* Plausible mistakes in this code; each replaces the definition named in  *)
(* its comment when the properties are tested for their strength.          *)

\* Loop: an iteration begins with a cleanup, before its egress
CleanupAtStart ==
  /\ phase = "tasks"
  /\ LET done == {h \in orphaned_closing : sock[h] \in Dead}
     IN  /\ remove(done)
         /\ orphaned_closing' = orphaned_closing \ done
  /\ phase' = IF cancel THEN "stopped" ELSE "ingress"
  /\ UNCHANGED <<listener_vars, stream_vars, cancel>>

\* cleanup_orphaned: retain() keeps the handles it has removed
CleanupRetainsAll ==
  /\ phase = "cleanup"
  /\ remove({h \in orphaned_closing : sock[h] \in Dead})
  /\ phase' = "tasks"
  /\ UNCHANGED <<orphaned_closing, listener_vars, stream_vars, cancel>>

\* AcceptPending: registers only on the sockets that are still listening
RegisterListening ==
  /\ Running /\ listener = "bound" /\ accept_task = "ready"
  /\ \A i \in DOMAIN handles : sock[handles[i]] # "Established"
  /\ \E i \in DOMAIN handles : sock[handles[i]] \notin Dead
  /\ recv_waker' = [h \in Handles |-> \/ recv_waker[h]
                                      \/ h \in Range(handles) /\ sock[h] = "Listen"]
  /\ accept_task' = "waiting"
  /\ UNCHANGED <<sock, out, send_waker, listener, handles, stream_vars,
                 orphaned_closing, phase, cancel>>

\* Pending: the waker is not registered
PendingUnregistered(h) ==
  /\ waiting' = waiting \cup {h}
  /\ UNCHANGED <<op, send_waker>>

\* DropStream: an active socket is orphaned without being aborted
DropWithoutAbort(h) ==
  /\ Running /\ h \in streams
  /\ streams' = streams \ {h}
  /\ op' = [op EXCEPT ![h] = "none"]
  /\ waiting' = waiting \ {h}
  /\ \/ sock[h] \in Dead /\ remove({h}) /\ UNCHANGED orphaned_closing
     \/ /\ sock[h] \notin Dead
        /\ orphaned_closing' = orphaned_closing \cup {h}
        /\ UNCHANGED smoltcp_vars
  /\ UNCHANGED <<listener_vars, phase, cancel>>
-----------------------------------------------------------------------------
(* run_with: poll_ingress_single for one segment addressed to socket h.    *)
poll_ingress_single(h) ==
  /\ phase = "ingress"
  /\ \E t \in Segments :
       /\ t[1] = sock[h]
       /\ t[2] \in Answers => out[h] = "none"
       /\ set_state(h, t[3], CASE t[3] = "SynReceived" -> "syn-ack"
                               [] t[3] \in {"Closed", "TimeWait", "Listen"} -> "none"
                               [] OTHER -> out[h])
  /\ UNCHANGED <<listener, handles, streams, op, orphaned_closing, phase, cancel>>

(* The batch limit is reached or the device has no more frames.            *)
EndIngress ==
  /\ phase = "ingress"
  /\ phase' = "egress"
  /\ UNCHANGED <<smoltcp_vars, listener_vars, stream_vars, orphaned_closing,
                 cancel>>

(* poll_egress: every socket emits what it has to, unless the device hands *)
(* out no token or the neighbor is unknown.  An aborted socket forgets its *)
(* peer after the reset.                                                   *)
poll_egress ==
  /\ phase = "egress"
  /\ \E emitted \in SUBSET {h \in Live : out[h] # "none"} :
       /\ ~Backpressure => emitted = {h \in Live : out[h] # "none"}
       /\ out' = [h \in Handles |-> IF h \in emitted THEN "none" ELSE out[h]]
  /\ phase' = "cleanup"
  /\ UNCHANGED <<sock, recv_waker, send_waker, listener_vars, stream_vars,
                 orphaned_closing, cancel>>

(* The TimeWait timer runs out while smoltcp looks for work.               *)
TimeWaitExpires(h) ==
  /\ phase = "egress"
  /\ sock[h] = "TimeWait"
  /\ set_state(h, "Closed", "none")
  /\ UNCHANGED <<listener, handles, streams, op, orphaned_closing, phase, cancel>>

(* cleanup_orphaned, then yield_now lets the tasks run.                    *)
cleanup_orphaned ==
  /\ phase = "cleanup"
  /\ LET done == {h \in orphaned_closing : sock[h] \in Dead}
     IN  /\ remove(done)
         /\ orphaned_closing' = orphaned_closing \ done
  /\ phase' = "tasks"
  /\ UNCHANGED <<listener_vars, stream_vars, cancel>>

(* The reactor task is polled again and tests the cancel flag.             *)
Loop ==
  /\ phase = "tasks"
  /\ phase' = IF cancel THEN "stopped" ELSE "ingress"
  /\ UNCHANGED <<smoltcp_vars, listener_vars, stream_vars, orphaned_closing,
                 cancel>>

Cancel ==
  /\ MayCancel /\ ~cancel
  /\ cancel' = TRUE
  /\ UNCHANGED <<smoltcp_vars, listener_vars, stream_vars, orphaned_closing,
                 phase>>
-----------------------------------------------------------------------------
(* TcpListener::bind_with_backlog: a pool of listening sockets.            *)
bind_with_backlog ==
  /\ Running /\ listener = "unbound"
  /\ \E hs \in [1..Backlog -> Unused] :
       /\ IsInjective(hs)
       /\ handles' = hs
       /\ sock' = [h \in Handles |-> IF h \in Range(hs) THEN "Listen" ELSE sock[h]]
  /\ listener' = "bound" /\ accept_task' = "ready"
  /\ UNCHANGED <<out, recv_waker, send_waker, stream_vars, orphaned_closing,
                 phase, cancel>>

PollAccept == Running /\ listener = "bound" /\ accept_task = "ready"
FirstEstablished(i) ==
  /\ i \in DOMAIN handles /\ sock[handles[i]] = "Established"
  /\ \A j \in DOMAIN handles : sock[handles[j]] = "Established" => i <= j

(* AcceptFuture::poll, connection found: its slot gets a new listening     *)
(* socket and the connected one goes to a TcpStream.  The server's loop    *)
(* calls accept() again.                                                   *)
AcceptReady ==
  /\ PollAccept
  /\ \E i \in DOMAIN handles, new \in Unused :
       /\ FirstEstablished(i)
       /\ sock' = [sock EXCEPT ![new] = "Listen"]
       /\ handles' = [handles EXCEPT ![i] = new]
       /\ streams' = streams \cup {handles[i]}
  /\ UNCHANGED <<out, recv_waker, send_waker, listener, accept_task, op,
                 waiting, orphaned_closing, phase, cancel>>

(* AcceptFuture::poll, all sockets dead: Err(Unaddressable), and no state  *)
(* changes: the task stays ready and may call accept() again.              *)
AllSlotsDead == \A i \in DOMAIN handles : sock[handles[i]] \in Dead

(* AcceptFuture::poll, nothing yet: register on every socket of the pool.  *)
AcceptPending ==
  /\ PollAccept
  /\ \A i \in DOMAIN handles : sock[handles[i]] # "Established"
  /\ ~AllSlotsDead
  /\ recv_waker' = [h \in Handles |-> h \in Range(handles) \/ recv_waker[h]]
  /\ accept_task' = "waiting"
  /\ UNCHANGED <<sock, out, send_waker, listener, handles, stream_vars,
                 orphaned_closing, phase, cancel>>

(* Drop for TcpListener: abort and remove at once; no reset is emitted.    *)
DropListener ==
  /\ Running /\ listener = "bound"
  /\ remove(Range(handles))
  /\ handles' = <<>> /\ listener' = "dropped"
  /\ UNCHANGED <<accept_task, stream_vars, orphaned_closing, phase, cancel>>
-----------------------------------------------------------------------------
(* TcpStream::connect followed by wait_connected.                          *)
connect(h) ==
  /\ Running /\ h \in Unused
  /\ sock' = [sock EXCEPT ![h] = "SynSent"]
  /\ out' = [out EXCEPT ![h] = "syn"]
  /\ streams' = streams \cup {h}
  /\ op' = [op EXCEPT ![h] = "wait_connected"]
  /\ UNCHANGED <<recv_waker, send_waker, listener_vars, waiting,
                 orphaned_closing, phase, cancel>>

PollStream(h, future) ==
  /\ Running
  /\ h \in streams \ waiting
  /\ op[h] = future

(* A future returns Ready, or registers the send waker and stays pending.  *)
Ready(h) ==
  /\ op' = [op EXCEPT ![h] = "none"]
  /\ UNCHANGED <<send_waker, waiting>>
Pending(h) ==
  /\ send_waker' = [send_waker EXCEPT ![h] = TRUE]
  /\ waiting' = waiting \cup {h}
  /\ UNCHANGED op

(* WaitConnectedFuture::poll: done when Established, failed when dead.     *)
PollWaitConnected(h) ==
  /\ PollStream(h, "wait_connected")
  /\ IF sock[h] \in {"Established"} \cup Dead THEN Ready(h) ELSE Pending(h)
  /\ UNCHANGED <<sock, out, recv_waker, listener_vars, streams,
                 orphaned_closing, phase, cancel>>

(* TcpStream::close: socket.close() starts the FIN handshake (or gives up  *)
(* a connection attempt), and the CloseFuture waits for its end.           *)
close(h) ==
  /\ Running /\ h \in streams /\ op[h] = "none"
  /\ op' = [op EXCEPT ![h] = "close"]
  /\ \/ /\ sock[h] = "SynSent"
        /\ set_state(h, "Closed", Reset(h))
     \/ /\ sock[h] = "Established"
        /\ set_state(h, "FinWait1", "fin")
     \/ /\ sock[h] = "CloseWait"
        /\ set_state(h, "LastAck", "fin")
     \/ /\ sock[h] \in Dead \cup ClosingStates
        /\ UNCHANGED <<smoltcp_vars, accept_task, waiting>>
  /\ UNCHANGED <<listener, handles, streams, orphaned_closing, phase, cancel>>

(* CloseFuture::poll.                                                      *)
PollClose(h) ==
  /\ PollStream(h, "close")
  /\ IF sock[h] \in Dead THEN Ready(h) ELSE Pending(h)
  /\ UNCHANGED <<sock, out, recv_waker, listener_vars, streams,
                 orphaned_closing, phase, cancel>>

(* TcpStream::abort.                                                       *)
abort(h) ==
  /\ Running /\ h \in streams
  /\ set_state(h, "Closed", Reset(h))
  /\ UNCHANGED <<listener, handles, streams, op, orphaned_closing, phase, cancel>>

(* Drop for TcpStream, its future (if any) cancelled: a dead socket is     *)
(* removed, a closing one is left to the reactor, and any other one is     *)
(* aborted and left to the reactor.                                        *)
DropStream(h) ==
  /\ Running /\ h \in streams
  /\ streams' = streams \ {h}
  /\ op' = [op EXCEPT ![h] = "none"]
  /\ waiting' = waiting \ {h}
  /\ \/ /\ sock[h] \in Dead
        /\ remove({h})
        /\ UNCHANGED orphaned_closing
     \/ /\ sock[h] \in ClosingStates
        /\ orphaned_closing' = orphaned_closing \cup {h}
        /\ UNCHANGED smoltcp_vars
     \/ /\ sock[h] \notin Dead \cup ClosingStates
        /\ orphaned_closing' = orphaned_closing \cup {h}
        /\ sock' = [sock EXCEPT ![h] = "Closed"]
        /\ out' = [out EXCEPT ![h] = Reset(h)]
        /\ recv_waker' = [recv_waker EXCEPT ![h] = FALSE]
        /\ send_waker' = [send_waker EXCEPT ![h] = FALSE]
  /\ UNCHANGED <<listener_vars, phase, cancel>>
-----------------------------------------------------------------------------
reactor_run_with ==
  \/ \E h \in Handles : poll_ingress_single(h) \/ TimeWaitExpires(h)
  \/ EndIngress
  \/ poll_egress
  \/ cleanup_orphaned
  \/ Loop

Application ==
  \/ bind_with_backlog \/ AcceptReady \/ AcceptPending \/ DropListener
  \/ \E h \in Handles :
       \/ connect(h) \/ PollWaitConnected(h)
       \/ close(h) \/ PollClose(h) \/ abort(h) \/ DropStream(h)

Next == reactor_run_with \/ Application \/ Cancel

Spec == Init /\ [][Next]_vars

(* A peer that finishes handshakes: it answers a SYN, a SYN-ACK or a FIN.  *)
PeerResponds(h) ==
  /\ sock[h] \in {"SynSent", "SynReceived"} \cup ClosingStates
  /\ poll_ingress_single(h)

(* The reactor never stops looping, and the executor polls every task that *)
(* has been woken (its run queue is FIFO and yield_now goes to its end).   *)
FairSpec ==
  /\ Spec
  /\ WF_vars(EndIngress) /\ WF_vars(poll_egress)
  /\ WF_vars(cleanup_orphaned) /\ WF_vars(Loop)
  /\ \A h \in Handles : /\ SF_vars(PeerResponds(h))
                        /\ SF_vars(PollClose(h))
                        /\ SF_vars(PollWaitConnected(h))

(* The same with a server that keeps calling accept().                     *)
ServerSpec == FairSpec /\ SF_vars(AcceptReady) /\ SF_vars(AcceptPending)
-----------------------------------------------------------------------------
TypeOK ==
  /\ sock \in [Handles -> States \cup {"Free"}]
  /\ out \in [Handles -> {"none", "syn", "syn-ack", "fin", "rst", "rst-syn"}]
  /\ recv_waker \in [Handles -> BOOLEAN] /\ send_waker \in [Handles -> BOOLEAN]
  /\ listener \in {"unbound", "bound", "dropped"}
  /\ handles \in Seq(Handles) /\ Len(handles) = (IF listener = "bound" THEN Backlog ELSE 0)
  /\ accept_task \in {"ready", "waiting"}
  /\ streams \subseteq Handles /\ waiting \subseteq streams
  /\ op \in [Handles -> {"none", "wait_connected", "close"}]
  /\ orphaned_closing \subseteq Handles
  /\ phase \in {"ingress", "egress", "cleanup", "tasks", "stopped"}
  /\ cancel \in BOOLEAN

(* Every socket of the SocketSet has exactly one owner: a slot of the      *)
(* listener, a TcpStream, or the orphan list.  No owner holds a handle     *)
(* that was removed (sockets.get would panic) or that has been reused by   *)
(* another connection, and no socket is left without an owner (a leak).    *)
OwnedOnce ==
  /\ Live = Range(handles) \cup streams \cup orphaned_closing
  /\ Range(handles) \cap streams = {}
  /\ Range(handles) \cap orphaned_closing = {}
  /\ streams \cap orphaned_closing = {}
  /\ IsInjective(handles)

(* Whatever state a stream is dropped in, its orphan is on its way to      *)
(* Closed or TimeWait, the only states cleanup_orphaned removes.           *)
OrphansAreClosing ==
  \A h \in orphaned_closing : sock[h] \in ClosingStates \cup Dead

(* No task sleeps on an event that has already happened: each future       *)
(* checks the state and registers its waker in one go, on every socket it  *)
(* waits for, and every change of state wakes it.                          *)
NoLostWakeup ==
  /\ (listener = "bound" /\ accept_task = "waiting")
       => /\ \A i \in DOMAIN handles : sock[handles[i]] # "Established"
          /\ ~AllSlotsDead
  /\ \A h \in waiting :
       /\ op[h] = "close" => sock[h] \notin Dead
       /\ op[h] = "wait_connected" => sock[h] \notin Dead \cup {"Established"}

(* Why no wake-up is lost: a waiting task is registered on every socket it *)
(* waits for, and its socket has not changed state since (set_state takes  *)
(* the wakers).                                                            *)
WakersRegistered ==
  /\ (listener = "bound" /\ accept_task = "waiting")
       => \A i \in DOMAIN handles : recv_waker[handles[i]]
  /\ \A h \in waiting : send_waker[h] /\ op[h] # "none"

(* The inductive invariant: ownership, closing orphans and wake-ups hold   *)
(* together, and every step preserves them.                                *)
IInv == TypeOK /\ OwnedOnce /\ OrphansAreClosing /\ NoLostWakeup /\ WakersRegistered

(* What the deferred cleanup does give, congested or not: neither the      *)
(* listener nor another stream removes an orphan or takes its handle, and  *)
(* the reactor removes it only when it is dead and an egress has come      *)
(* after its drop.                                                         *)
OrphansLeftToCleanup ==
  [][\A h \in orphaned_closing :
       sock'[h] = "Free" => phase = "cleanup" /\ sock[h] \in Dead]_vars

(* "We can't remove immediately because the RST needs to be transmitted in *)
(* the next poll_egress cycle" (tcp.rs:164): an orphan is not removed      *)
(* before its RST has left.  It may be: an egress cut short by a full      *)
(* device is followed by the cleanup of the same iteration.                *)
OrphanResetsSent ==
  [][\A h \in orphaned_closing : out[h] = "rst" => sock'[h] # "Free"]_vars

(* "This sends a RST and terminates the connection" (abort, tcp.rs:139):   *)
(* the reset of an aborted stream leaves before its socket goes.  It need  *)
(* not: dropping the stream finds the socket Closed and removes it.        *)
AbortResetsSent ==
  [][\A h \in streams : out[h] = "rst" => sock'[h] # "Free"]_vars

(* With a peer that finishes handshakes, every orphan is removed.          *)
OrphansRemoved ==
  \A h \in Handles : (h \in orphaned_closing) ~> (h \notin orphaned_closing)

(* close() "returns a future that completes when the connection is fully   *)
(* closed": with such a peer it does complete.                             *)
CloseReturns ==
  \A h \in Handles : (op[h] = "close") ~> (op[h] # "close")

(* wait_connected() returns when the handshake succeeds or fails, unless   *)
(* the peer's FIN came before the poll: its future waits in CloseWait, for *)
(* Established or Closed.                                                  *)
WaitConnectedReturns ==
  \A h \in Handles :
    (op[h] = "wait_connected") ~> (op[h] # "wait_connected" \/ sock[h] = "CloseWait")

(* "This ensures there's always at least one socket ready to receive       *)
(* incoming SYN packets": with a server that keeps accepting, the listener *)
(* has a listening socket again and again (as long as the bound on the     *)
(* SocketSet is not reached).                                              *)
ListenerReady ==
  []<>((listener = "bound" /\ Unused # {})
         => \E i \in DOMAIN handles : sock[handles[i]] = "Listen")
=============================================================================
