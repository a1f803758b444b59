--------------------------- MODULE TcpSocketsProofs ---------------------------
(***************************************************************************)
(* Proofs about the sockets of one reactor, for every number of sockets    *)
(* and every backlog, with and without TX backpressure and cancellation.   *)
(***************************************************************************)
EXTENDS TcpSockets, TLAPS

(* The type invariant is preserved by every step.                          *)
LEMMA TypeStep ==
  ASSUME TypeOK, [Next]_vars
  PROVE  TypeOK'
<1> USE SocketsAssumption DEF TypeOK, States, Dead, ClosingStates, Live, Unused
<1>1. ASSUME NEW h \in Handles, poll_ingress_single(h)
      PROVE  TypeOK'
  <2>1. PICK t \in Segments :
          /\ set_state(h, t[3], CASE t[3] = "SynReceived" -> "syn-ack"
                                  [] t[3] \in {"Closed", "TimeWait", "Listen"} -> "none"
                                  [] OTHER -> out[h])
    BY <1>1 DEF poll_ingress_single
  <2>2. t[3] \in States
    BY DEF Segments
  <2> QED BY <1>1, <2>1, <2>2 DEF poll_ingress_single, set_state, Wake
<1>2. ASSUME NEW h \in Handles, TimeWaitExpires(h)
      PROVE  TypeOK'
  BY <1>2 DEF TimeWaitExpires, set_state, Wake
<1>3. CASE EndIngress
  BY <1>3 DEF EndIngress, smoltcp_vars, listener_vars, stream_vars
<1>4. CASE poll_egress
  BY <1>4 DEF poll_egress, listener_vars, stream_vars
<1>5. CASE cleanup_orphaned
  BY <1>5 DEF cleanup_orphaned, remove, listener_vars, stream_vars
<1>6. CASE Loop
  BY <1>6 DEF Loop, smoltcp_vars, listener_vars, stream_vars
<1>7. CASE Cancel
  BY <1>7 DEF Cancel, smoltcp_vars, listener_vars, stream_vars
<1>8. CASE bind_with_backlog
  BY <1>8 DEF bind_with_backlog, stream_vars
<1>9. CASE AcceptReady
  BY <1>9 DEF AcceptReady, FirstEstablished
<1>10. CASE AcceptPending
  BY <1>10 DEF AcceptPending, stream_vars
<1>11. CASE DropListener
  BY <1>11 DEF DropListener, remove, stream_vars
<1>12. ASSUME NEW h \in Handles, connect(h)
       PROVE  TypeOK'
  BY <1>12 DEF connect, listener_vars
<1>13. ASSUME NEW h \in Handles, PollWaitConnected(h)
       PROVE  TypeOK'
  BY <1>13 DEF PollWaitConnected, PollStream, Ready, Pending, listener_vars
<1>14. ASSUME NEW h \in Handles, close(h)
       PROVE  TypeOK'
  BY <1>14 DEF close, set_state, Wake, Reset, smoltcp_vars
<1>15. ASSUME NEW h \in Handles, PollClose(h)
       PROVE  TypeOK'
  BY <1>15 DEF PollClose, PollStream, Ready, Pending, listener_vars
<1>16. ASSUME NEW h \in Handles, abort(h)
       PROVE  TypeOK'
  BY <1>16 DEF abort, set_state, Wake, Reset
<1>17. ASSUME NEW h \in Handles, DropStream(h)
       PROVE  TypeOK'
  BY <1>17, ZenonT(40) DEF DropStream, remove, Reset, smoltcp_vars, listener_vars
<1>18. CASE UNCHANGED vars
  BY <1>18 DEF vars, smoltcp_vars, listener_vars, stream_vars
<1> QED
  BY <1>1, <1>2, <1>3, <1>4, <1>5, <1>6, <1>7, <1>8, <1>9, <1>10, <1>11,
     <1>12, <1>13, <1>14, <1>15, <1>16, <1>17, <1>18
     DEF Next, reactor_run_with, Application
-----------------------------------------------------------------------------
(* Every socket keeps exactly one owner.  A step that removes sockets      *)
(* takes them from their owner in the same step; one that creates a        *)
(* socket takes an unused slot, which by the invariant nobody owns.        *)
LEMMA OwnershipStep ==
  ASSUME TypeOK, OwnedOnce, [Next]_vars
  PROVE  OwnedOnce'
<1> USE SocketsAssumption DEF TypeOK, OwnedOnce, Live, Unused, Range, IsInjective
<1>1. ASSUME NEW h \in Handles, poll_ingress_single(h)
      PROVE  OwnedOnce'
  <2>1. PICK t \in Segments :
          /\ t[1] = sock[h]
          /\ sock' = [sock EXCEPT ![h] = t[3]]
    BY <1>1 DEF poll_ingress_single, set_state
  <2>2. t[1] # "Free" /\ t[3] # "Free"
    BY DEF Segments, ClosingStates
  <2>3. Live' = Live
    BY <2>1, <2>2
  <2> QED BY <1>1, <2>3 DEF poll_ingress_single
<1>2. ASSUME NEW h \in Handles, TimeWaitExpires(h)
      PROVE  OwnedOnce'
  <2>1. Live' = Live
    BY <1>2 DEF TimeWaitExpires, set_state
  <2> QED BY <1>2, <2>1 DEF TimeWaitExpires
<1>3. CASE EndIngress
  BY <1>3 DEF EndIngress, smoltcp_vars, listener_vars, stream_vars
<1>4. CASE poll_egress
  BY <1>4 DEF poll_egress, listener_vars, stream_vars
<1>5. CASE cleanup_orphaned
  <2>1. Live' = Live \ {h \in orphaned_closing : sock[h] \in Dead}
    BY <1>5 DEF cleanup_orphaned, remove
  <2> QED BY <1>5, <2>1 DEF cleanup_orphaned, listener_vars, stream_vars
<1>6. CASE Loop
  BY <1>6 DEF Loop, smoltcp_vars, listener_vars, stream_vars
<1>7. CASE Cancel
  BY <1>7 DEF Cancel, smoltcp_vars, listener_vars, stream_vars
<1>8. CASE bind_with_backlog
  <2>1. PICK hs \in [1..Backlog -> Unused] :
          /\ IsInjective(hs)
          /\ handles' = hs
          /\ sock' = [h \in Handles |-> IF h \in Range(hs) THEN "Listen" ELSE sock[h]]
    BY <1>8 DEF bind_with_backlog
  <2>2. Range(handles) = {}
    BY <1>8 DEF bind_with_backlog
  <2>3. Live' = Live \cup Range(hs)
    BY <2>1
  <2> QED BY <1>8, <2>1, <2>2, <2>3 DEF bind_with_backlog, stream_vars
<1>9. CASE AcceptReady
  <2>1. PICK i \in DOMAIN handles, new \in Unused :
          /\ sock' = [sock EXCEPT ![new] = "Listen"]
          /\ handles' = [handles EXCEPT ![i] = new]
          /\ streams' = streams \cup {handles[i]}
    BY <1>9 DEF AcceptReady
  <2>2. Range(handles') = (Range(handles) \ {handles[i]}) \cup {new}
    BY <2>1
  <2>3. Live' = Live \cup {new}
    BY <2>1
  <2>4. IsInjective(handles')
    BY <2>1
  <2> QED BY <1>9, <2>1, <2>2, <2>3, <2>4 DEF AcceptReady
<1>10. CASE AcceptPending
  BY <1>10 DEF AcceptPending, stream_vars
<1>11. CASE DropListener
  <2>1. Live' = Live \ Range(handles)
    BY <1>11 DEF DropListener, remove
  <2>2. Range(handles') = {} /\ IsInjective(handles')
    BY <1>11 DEF DropListener
  <2> QED BY <1>11, <2>1, <2>2 DEF DropListener, stream_vars
<1>12. ASSUME NEW h \in Handles, connect(h)
       PROVE  OwnedOnce'
  <2>1. Live' = Live \cup {h}
    BY <1>12 DEF connect
  <2> QED BY <1>12, <2>1 DEF connect, listener_vars
<1>13. ASSUME NEW h \in Handles, PollWaitConnected(h)
       PROVE  OwnedOnce'
  BY <1>13 DEF PollWaitConnected, listener_vars
<1>14. ASSUME NEW h \in Handles, close(h)
       PROVE  OwnedOnce'
  <2>1. Live' = Live
    BY <1>14 DEF close, set_state, smoltcp_vars, Dead, ClosingStates
  <2> QED BY <1>14, <2>1 DEF close
<1>15. ASSUME NEW h \in Handles, PollClose(h)
       PROVE  OwnedOnce'
  BY <1>15 DEF PollClose, listener_vars
<1>16. ASSUME NEW h \in Handles, abort(h)
       PROVE  OwnedOnce'
  <2>1. Live' = Live
    BY <1>16 DEF abort, set_state
  <2> QED BY <1>16, <2>1 DEF abort
<1>17. ASSUME NEW h \in Handles, DropStream(h)
       PROVE  OwnedOnce'
  <2>1. CASE sock[h] \in Dead
    <3>1. Live' = Live \ {h} /\ UNCHANGED orphaned_closing
      BY <1>17, <2>1 DEF DropStream, remove, Dead, ClosingStates
    <3> QED BY <1>17, <3>1 DEF DropStream, listener_vars
  <2>2. CASE sock[h] \notin Dead
    <3>1. Live' = Live /\ orphaned_closing' = orphaned_closing \cup {h}
      BY <1>17, <2>2 DEF DropStream, smoltcp_vars
    <3> QED BY <1>17, <3>1 DEF DropStream, listener_vars
  <2> QED BY <2>1, <2>2
<1>18. CASE UNCHANGED vars
  BY <1>18 DEF vars, smoltcp_vars, listener_vars, stream_vars
<1> QED
  BY <1>1, <1>2, <1>3, <1>4, <1>5, <1>6, <1>7, <1>8, <1>9, <1>10, <1>11,
     <1>12, <1>13, <1>14, <1>15, <1>16, <1>17, <1>18
     DEF Next, reactor_run_with, Application
-----------------------------------------------------------------------------
(* No segment takes a closing socket back to an open state.                *)
LEMMA ClosingOnlyCloses ==
  \A t \in Segments : t[1] \in ClosingStates \cup Dead
                        => t[3] \in ClosingStates \cup Dead
BY DEF Segments, ClosingStates, Dead

(* An orphan stays on its way to Closed: its state changes only by         *)
(* segments and timers, since nobody else holds its handle.                *)
LEMMA OrphansStep ==
  ASSUME TypeOK, OwnedOnce, OrphansAreClosing, [Next]_vars
  PROVE  OrphansAreClosing'
<1> USE DEF TypeOK, OrphansAreClosing
<1>1. ASSUME NEW h \in Handles, poll_ingress_single(h)
      PROVE  OrphansAreClosing'
  BY <1>1, ClosingOnlyCloses DEF poll_ingress_single, set_state
<1>2. ASSUME NEW h \in Handles, TimeWaitExpires(h)
      PROVE  OrphansAreClosing'
  BY <1>2 DEF TimeWaitExpires, set_state, Dead
<1>3. CASE EndIngress
  BY <1>3 DEF EndIngress, smoltcp_vars
<1>4. CASE poll_egress
  BY <1>4 DEF poll_egress
<1>5. CASE cleanup_orphaned
  BY <1>5 DEF cleanup_orphaned, remove
<1>6. CASE Loop
  BY <1>6 DEF Loop, smoltcp_vars
<1>7. CASE Cancel
  BY <1>7 DEF Cancel, smoltcp_vars
<1>8. CASE bind_with_backlog
  BY <1>8 DEF bind_with_backlog, OwnedOnce, Live, Unused, Range
<1>9. CASE AcceptReady
  BY <1>9 DEF AcceptReady, OwnedOnce, Live, Unused
<1>10. CASE AcceptPending
  BY <1>10 DEF AcceptPending
<1>11. CASE DropListener
  BY <1>11 DEF DropListener, remove, OwnedOnce
<1>12. ASSUME NEW h \in Handles, connect(h)
       PROVE  OrphansAreClosing'
  BY <1>12 DEF connect, OwnedOnce, Live, Unused
<1>13. ASSUME NEW h \in Handles, PollWaitConnected(h)
       PROVE  OrphansAreClosing'
  BY <1>13 DEF PollWaitConnected
<1>14. ASSUME NEW h \in Handles, close(h)
       PROVE  OrphansAreClosing'
  BY <1>14 DEF close, set_state, smoltcp_vars, OwnedOnce
<1>15. ASSUME NEW h \in Handles, PollClose(h)
       PROVE  OrphansAreClosing'
  BY <1>15 DEF PollClose
<1>16. ASSUME NEW h \in Handles, abort(h)
       PROVE  OrphansAreClosing'
  BY <1>16 DEF abort, set_state, OwnedOnce
<1>17. ASSUME NEW h \in Handles, DropStream(h)
       PROVE  OrphansAreClosing'
  BY <1>17 DEF DropStream, remove, smoltcp_vars, OwnedOnce, Dead
<1>18. CASE UNCHANGED vars
  BY <1>18 DEF vars, smoltcp_vars
<1> QED
  BY <1>1, <1>2, <1>3, <1>4, <1>5, <1>6, <1>7, <1>8, <1>9, <1>10, <1>11,
     <1>12, <1>13, <1>14, <1>15, <1>16, <1>17, <1>18
     DEF Next, reactor_run_with, Application
-----------------------------------------------------------------------------
(* set_state cannot lose a wake-up: whoever was registered on the socket   *)
(* is ready again, and nobody else waits for this socket.                  *)
LEMMA SetStateWakes ==
  ASSUME TypeOK, OwnedOnce, NoLostWakeup, WakersRegistered,
         NEW h \in Handles, NEW state, NEW segment, set_state(h, state, segment),
         UNCHANGED <<listener, handles>>,
         \A g \in Handles \ {h} : op'[g] = op[g],
         h \in waiting => op'[h] = op[h]
  PROVE  NoLostWakeup' /\ WakersRegistered'
<1>1. h \notin waiting'
  BY DEF WakersRegistered, TypeOK, set_state, Wake
<1>2. \A g \in waiting' : /\ g \in waiting /\ g # h
                           /\ sock'[g] = sock[g] /\ op'[g] = op[g]
                           /\ send_waker'[g] = send_waker[g]
  BY <1>1 DEF TypeOK, set_state, Wake
<1>3. ASSUME listener' = "bound", accept_task' = "waiting"
      PROVE  /\ listener = "bound" /\ accept_task = "waiting"
             /\ \A i \in DOMAIN handles : handles[i] # h
  BY <1>3 DEF WakersRegistered, TypeOK, set_state, Wake
<1>4. ASSUME listener' = "bound", accept_task' = "waiting"
      PROVE  \A i \in DOMAIN handles : /\ sock'[handles[i]] = sock[handles[i]]
                                       /\ recv_waker'[handles[i]] = recv_waker[handles[i]]
  <2>1. \A g \in Handles \ {h} : sock'[g] = sock[g] /\ recv_waker'[g] = recv_waker[g]
    BY DEF TypeOK, set_state, Wake
  <2>2. \A i \in DOMAIN handles : handles[i] \in Handles \ {h}
    BY <1>3, <1>4 DEF TypeOK
  <2> QED BY <2>1, <2>2
<1>5. (listener' = "bound" /\ accept_task' = "waiting")
        => /\ \A i \in DOMAIN handles' : sock'[handles'[i]] # "Established"
           /\ ~AllSlotsDead'
  BY <1>3, <1>4 DEF NoLostWakeup, AllSlotsDead
<1>6. (listener' = "bound" /\ accept_task' = "waiting")
        => \A i \in DOMAIN handles' : recv_waker'[handles'[i]]
  BY <1>3, <1>4 DEF WakersRegistered
<1>7. \A g \in waiting' :
        /\ op'[g] = "close" => sock'[g] \notin Dead
        /\ op'[g] = "wait_connected" => sock'[g] \notin Dead \cup {"Established"}
        /\ send_waker'[g] /\ op'[g] # "none"
  BY <1>2 DEF NoLostWakeup, WakersRegistered
<1> QED BY <1>5, <1>6, <1>7 DEF NoLostWakeup, WakersRegistered

(* Steps that change the state of no socket, move no handle and end no     *)
(* wait keep both facts.                                                   *)
LEMMA QuietStep ==
  ASSUME NoLostWakeup, WakersRegistered,
         UNCHANGED <<sock, recv_waker, send_waker, listener_vars, op, waiting>>
  PROVE  NoLostWakeup' /\ WakersRegistered'
BY DEF NoLostWakeup, WakersRegistered, AllSlotsDead, listener_vars

(* A future that returns, or that finds nothing and registers, leaves no   *)
(* sleeper behind: it has just seen that its event has not happened.       *)
LEMMA PolledStream ==
  ASSUME TypeOK, NoLostWakeup, WakersRegistered,
         NEW h \in Handles, h \notin waiting,
         UNCHANGED <<sock, recv_waker, listener_vars>>,
         \/ Ready(h)
         \/ /\ Pending(h)
            /\ \/ op[h] = "close" /\ sock[h] \notin Dead
               \/ op[h] = "wait_connected" /\ sock[h] \notin Dead \cup {"Established"}
  PROVE  NoLostWakeup' /\ WakersRegistered'
<1>1. CASE Ready(h)
  <2>1. waiting' = waiting /\ \A g \in waiting : op'[g] = op[g] /\ send_waker'[g] = send_waker[g]
    BY <1>1 DEF Ready, TypeOK
  <2> QED BY <2>1 DEF NoLostWakeup, WakersRegistered, AllSlotsDead, listener_vars
<1>2. CASE Pending(h)
  <2>1. /\ waiting' = waiting \cup {h} /\ op' = op /\ send_waker'[h]
        /\ \A g \in waiting : send_waker'[g] = send_waker[g]
    BY <1>2 DEF Pending, TypeOK
  <2>2. \/ op[h] = "close" /\ sock[h] \notin Dead
        \/ op[h] = "wait_connected" /\ sock[h] \notin Dead \cup {"Established"}
    BY <1>2 DEF Ready, Pending
  <2> QED BY <2>1, <2>2 DEF NoLostWakeup, WakersRegistered, AllSlotsDead, listener_vars
<1> QED BY <1>1, <1>2

(* Removing sockets nobody waits for loses no wake-up.                     *)
LEMMA RemoveStep ==
  ASSUME TypeOK, NoLostWakeup, WakersRegistered,
         NEW H \in SUBSET Handles, remove(H),
         listener' = "bound" => Range(handles) \cap H = {} /\ UNCHANGED listener_vars,
         waiting' = waiting \ H, \A g \in waiting' : op'[g] = op[g]
  PROVE  NoLostWakeup' /\ WakersRegistered'
<1>1. \A g \in Handles \ H : /\ sock'[g] = sock[g]
                             /\ recv_waker'[g] = recv_waker[g]
                             /\ send_waker'[g] = send_waker[g]
  BY DEF remove, TypeOK
<1>2. \A g \in waiting' : g \in waiting /\ g \in Handles \ H
  BY DEF TypeOK
<1>3. listener' = "bound" => \A i \in DOMAIN handles : handles[i] \in Handles \ H
  BY DEF TypeOK, Range
<1>4. (listener' = "bound" /\ accept_task' = "waiting")
        => /\ \A i \in DOMAIN handles' : sock'[handles'[i]] # "Established"
           /\ ~AllSlotsDead'
  BY <1>1, <1>3 DEF NoLostWakeup, AllSlotsDead, listener_vars
<1>5. (listener' = "bound" /\ accept_task' = "waiting")
        => \A i \in DOMAIN handles' : recv_waker'[handles'[i]]
  BY <1>1, <1>3 DEF WakersRegistered, listener_vars
<1>6. \A g \in waiting' :
        /\ op'[g] = "close" => sock'[g] \notin Dead
        /\ op'[g] = "wait_connected" => sock'[g] \notin Dead \cup {"Established"}
        /\ send_waker'[g] /\ op'[g] # "none"
  BY <1>1, <1>2 DEF NoLostWakeup, WakersRegistered
<1> QED BY <1>4, <1>5, <1>6 DEF NoLostWakeup, WakersRegistered

(* No step loses a wake-up.                                                *)
LEMMA WakeupsStep ==
  ASSUME TypeOK, OwnedOnce, NoLostWakeup, WakersRegistered, [Next]_vars
  PROVE  NoLostWakeup' /\ WakersRegistered'
<1> DEFINE Goal == NoLostWakeup' /\ WakersRegistered'
<1>1. ASSUME NEW h \in Handles, poll_ingress_single(h)
      PROVE  Goal
  BY <1>1, SetStateWakes DEF poll_ingress_single
<1>2. ASSUME NEW h \in Handles, TimeWaitExpires(h)
      PROVE  Goal
  BY <1>2, SetStateWakes DEF TimeWaitExpires
<1>3. CASE EndIngress
  BY <1>3, QuietStep DEF EndIngress, smoltcp_vars, stream_vars
<1>4. CASE poll_egress
  BY <1>4, QuietStep DEF poll_egress, stream_vars
<1>5. CASE cleanup_orphaned
  <2> DEFINE done == {h \in orphaned_closing : sock[h] \in Dead}
  <2>1. done \in SUBSET Handles /\ remove(done) /\ UNCHANGED <<listener_vars, stream_vars>>
    BY <1>5 DEF cleanup_orphaned, TypeOK
  <2>2. Range(handles) \cap done = {} /\ waiting' = waiting \ done
    BY <2>1 DEF OwnedOnce, TypeOK, stream_vars
  <2>3. \A g \in waiting' : op'[g] = op[g]
    BY <2>1 DEF stream_vars
  <2> HIDE DEF done
  <2> QED BY <2>1, <2>2, <2>3, RemoveStep
<1>6. CASE Loop
  BY <1>6, QuietStep DEF Loop, smoltcp_vars, stream_vars
<1>7. CASE Cancel
  BY <1>7, QuietStep DEF Cancel, smoltcp_vars, stream_vars
<1>8. CASE bind_with_backlog
  <2>1. \A h \in waiting : sock'[h] = sock[h] /\ op'[h] = op[h] /\ send_waker'[h] = send_waker[h]
    BY <1>8 DEF bind_with_backlog, stream_vars, OwnedOnce, Live, Unused, Range, TypeOK
  <2>2. waiting' = waiting /\ accept_task' # "waiting"
    BY <1>8 DEF bind_with_backlog, stream_vars
  <2> QED BY <2>1, <2>2 DEF NoLostWakeup, WakersRegistered
<1>9. CASE AcceptReady
  <2>1. \A h \in waiting : sock'[h] = sock[h] /\ op'[h] = op[h] /\ send_waker'[h] = send_waker[h]
    BY <1>9 DEF AcceptReady, OwnedOnce, Live, Unused, TypeOK
  <2>2. waiting' = waiting /\ accept_task' # "waiting"
    BY <1>9 DEF AcceptReady, PollAccept
  <2> QED BY <2>1, <2>2 DEF NoLostWakeup, WakersRegistered
<1>10. CASE AcceptPending
  <2>1. \A i \in DOMAIN handles : recv_waker'[handles[i]]
    <3>1. \A i \in DOMAIN handles : handles[i] \in Handles /\ handles[i] \in Range(handles)
      BY DEF TypeOK, Range
    <3>2. \A h \in Range(handles) \cap Handles : recv_waker'[h]
      BY <1>10, Zenon DEF AcceptPending
    <3> QED BY <3>1, <3>2
  <2>2. \A i \in DOMAIN handles : sock[handles[i]] # "Established"
    BY <1>10 DEF AcceptPending
  <2>3. ~AllSlotsDead
    BY <1>10 DEF AcceptPending
  <2>4. UNCHANGED <<sock, handles, send_waker, op, waiting>>
    BY <1>10 DEF AcceptPending, stream_vars
  <2>5. NoLostWakeup'
    BY <2>2, <2>3, <2>4 DEF NoLostWakeup, AllSlotsDead
  <2>6. WakersRegistered'
    BY <2>1, <2>4 DEF WakersRegistered
  <2> QED BY <2>5, <2>6
<1>11. CASE DropListener
  <2>1. Range(handles) \in SUBSET Handles /\ waiting \cap Range(handles) = {}
    BY DEF TypeOK, Range, OwnedOnce
  <2>2. remove(Range(handles)) /\ listener' # "bound" /\ waiting' = waiting /\ op' = op
    BY <1>11 DEF DropListener, stream_vars
  <2>3. waiting' = waiting \ Range(handles)
    BY <2>1, <2>2
  <2> QED BY <2>1, <2>2, <2>3, RemoveStep
<1>12. ASSUME NEW h \in Handles, connect(h)
       PROVE  Goal
  <2>1. h \notin waiting /\ \A i \in DOMAIN handles : handles[i] # h
    BY <1>12 DEF connect, OwnedOnce, Live, Unused, Range, TypeOK
  <2>2. \A g \in Handles \ {h} : sock'[g] = sock[g] /\ op'[g] = op[g]
    BY <1>12 DEF connect, TypeOK
  <2>3. UNCHANGED <<recv_waker, send_waker, listener_vars, waiting>>
    BY <1>12 DEF connect
  <2>4. \A i \in DOMAIN handles : sock'[handles[i]] = sock[handles[i]]
    BY <2>1, <2>2 DEF TypeOK
  <2>5. \A g \in waiting : sock'[g] = sock[g] /\ op'[g] = op[g]
    BY <2>1, <2>2 DEF TypeOK
  <2> QED
    BY <2>3, <2>4, <2>5 DEF NoLostWakeup, WakersRegistered, AllSlotsDead, listener_vars
<1>13. ASSUME NEW h \in Handles, PollWaitConnected(h)
       PROVE  Goal
  BY <1>13, PolledStream DEF PollWaitConnected, PollStream
<1>14. ASSUME NEW h \in Handles, close(h)
       PROVE  Goal
  <2>1. h \notin waiting /\ \A g \in Handles \ {h} : op'[g] = op[g]
    BY <1>14 DEF close, WakersRegistered, TypeOK
  <2>2. CASE \E state, segment : set_state(h, state, segment)
    BY <1>14, <2>1, <2>2, SetStateWakes DEF close
  <2>3. CASE UNCHANGED <<smoltcp_vars, accept_task, waiting>>
    <3>1. \A g \in waiting : op'[g] = op[g]
      BY <2>1 DEF TypeOK
    <3> QED
      BY <1>14, <2>3, <3>1 DEF close, smoltcp_vars, NoLostWakeup, WakersRegistered, AllSlotsDead
  <2> QED BY <1>14, <2>2, <2>3 DEF close
<1>15. ASSUME NEW h \in Handles, PollClose(h)
       PROVE  Goal
  BY <1>15, PolledStream DEF PollClose, PollStream
<1>16. ASSUME NEW h \in Handles, abort(h)
       PROVE  Goal
  BY <1>16, SetStateWakes DEF abort
<1>17. ASSUME NEW h \in Handles, DropStream(h)
       PROVE  Goal
  <2>1. \A g \in Handles \ {h} : /\ sock'[g] = sock[g] /\ op'[g] = op[g]
                                 /\ recv_waker'[g] = recv_waker[g]
                                 /\ send_waker'[g] = send_waker[g]
    BY <1>17 DEF DropStream, remove, smoltcp_vars, TypeOK
  <2>2. waiting' = waiting \ {h} /\ UNCHANGED listener_vars
    BY <1>17 DEF DropStream
  <2>3. \A i \in DOMAIN handles : handles[i] \in Handles \ {h}
    BY <1>17 DEF DropStream, OwnedOnce, Range, TypeOK
  <2>4. \A i \in DOMAIN handles : /\ sock'[handles[i]] = sock[handles[i]]
                                  /\ recv_waker'[handles[i]] = recv_waker[handles[i]]
    BY <2>1, <2>3
  <2>5. \A g \in waiting' : /\ g \in waiting /\ sock'[g] = sock[g] /\ op'[g] = op[g]
                            /\ send_waker'[g] = send_waker[g]
    BY <2>1, <2>2 DEF TypeOK
  <2> QED
    BY <2>2, <2>4, <2>5 DEF NoLostWakeup, WakersRegistered, AllSlotsDead, listener_vars
<1>18. CASE UNCHANGED vars
  BY <1>18, QuietStep DEF vars, smoltcp_vars, stream_vars
<1> QED
  BY <1>1, <1>2, <1>3, <1>4, <1>5, <1>6, <1>7, <1>8, <1>9, <1>10, <1>11,
     <1>12, <1>13, <1>14, <1>15, <1>16, <1>17, <1>18
     DEF Next, reactor_run_with, Application
-----------------------------------------------------------------------------
(* The invariant holds initially: no socket, no owner, no waiting task.    *)
LEMMA InitIInv == Init => IInv
<1> SUFFICES ASSUME Init PROVE IInv
  OBVIOUS
<1>1. TypeOK
  <2>1. recv_waker \in [Handles -> BOOLEAN] /\ send_waker \in [Handles -> BOOLEAN]
    BY Zenon DEF Init
  <2>2. handles \in Seq(Handles) /\ Len(handles) = 0 /\ listener = "unbound"
    BY DEF Init
  <2>3. /\ sock \in [Handles -> States \cup {"Free"}]
        /\ out \in [Handles -> {"none", "syn", "syn-ack", "fin", "rst", "rst-syn"}]
        /\ op \in [Handles -> {"none", "wait_connected", "close"}]
    BY DEF Init
  <2>4. /\ accept_task = "ready" /\ phase = "tasks" /\ cancel \in BOOLEAN
        /\ streams = {} /\ waiting = {} /\ orphaned_closing = {}
    BY DEF Init
  <2> QED BY <2>1, <2>2, <2>3, <2>4 DEF TypeOK
<1>2. OwnedOnce
  <2>1. Range(handles) = {} /\ IsInjective(handles)
    BY DEF Init, Range, IsInjective
  <2>2. Live = {}
    BY DEF Init, Live
  <2> QED BY <2>1, <2>2 DEF Init, OwnedOnce
<1>3. OrphansAreClosing /\ NoLostWakeup /\ WakersRegistered
  BY DEF Init, OrphansAreClosing, NoLostWakeup, WakersRegistered
<1> QED BY <1>1, <1>2, <1>3 DEF IInv

(* The inductive invariant of the reactor's sockets, for any SocketSet.    *)
THEOREM Invariance == Spec => []IInv
<1>1. IInv /\ [Next]_vars => IInv'
  BY TypeStep, OwnershipStep, OrphansStep, WakeupsStep DEF IInv
<1> QED BY InitIInv, <1>1, PTL DEF Spec

(* Every variable keeps its type.                                          *)
THEOREM TypeCorrect == Spec => []TypeOK
<1>1. IInv => TypeOK
  BY DEF IInv
<1> QED BY Invariance, <1>1, PTL

(* A socket is owned by exactly one of the listener, a stream and the      *)
(* reactor's orphan list; no owner holds a removed or reused handle.       *)
THEOREM Ownership == Spec => []OwnedOnce
<1>1. IInv => OwnedOnce
  BY DEF IInv
<1> QED BY Invariance, <1>1, PTL

(* The reactor only ever waits for orphans that are closing.               *)
THEOREM OrphansClose == Spec => []OrphansAreClosing
<1>1. IInv => OrphansAreClosing
  BY DEF IInv
<1> QED BY Invariance, <1>1, PTL

(* accept(), close() and wait_connected() never sleep through their event. *)
THEOREM WakeupsKept == Spec => []NoLostWakeup
<1>1. IInv => NoLostWakeup
  BY DEF IInv
<1> QED BY Invariance, <1>1, PTL

(* Only the cleanup removes an orphan: the listener and the streams remove *)
(* what they own themselves.                                               *)
LEMMA OrphanStays ==
  ASSUME IInv, [Next]_vars, ~cleanup_orphaned, NEW h \in orphaned_closing
  PROVE  sock'[h] # "Free"
<1>0. TypeOK /\ OwnedOnce /\ h \in Handles /\ sock \in [Handles -> States \cup {"Free"}]
  BY DEF IInv, TypeOK
<1>1. /\ sock[h] # "Free" /\ h \notin Range(handles) /\ h \notin streams
  BY <1>0 DEF OwnedOnce, Live
<1>2. ASSUME NEW g \in Handles, poll_ingress_single(g) \/ TimeWaitExpires(g)
      PROVE  sock'[h] # "Free"
  <2>1. PICK s \in States : sock' = [sock EXCEPT ![g] = s]
    BY <1>2 DEF poll_ingress_single, TimeWaitExpires, set_state, Segments, States, ClosingStates
  <2>2. "Free" \notin States
    BY DEF States, ClosingStates
  <2> QED BY <1>0, <1>1, <2>1, <2>2
<1>3. CASE EndIngress \/ poll_egress \/ Loop \/ Cancel \/ AcceptPending \/ UNCHANGED vars
  BY <1>1, <1>3 DEF EndIngress, poll_egress, Loop, Cancel, AcceptPending, smoltcp_vars, vars
<1>4. CASE bind_with_backlog
  BY <1>0, <1>1, <1>4 DEF bind_with_backlog
<1>5. CASE AcceptReady
  BY <1>0, <1>1, <1>5 DEF AcceptReady
<1>6. CASE DropListener
  BY <1>0, <1>1, <1>6 DEF DropListener, remove
<1>7. ASSUME NEW g \in Handles, connect(g) \/ PollWaitConnected(g) \/ PollClose(g)
      PROVE  sock'[h] # "Free"
  BY <1>0, <1>1, <1>7 DEF connect, PollWaitConnected, PollClose
<1>8. ASSUME NEW g \in Handles, close(g) \/ abort(g)
      PROVE  sock'[h] # "Free"
  <2>1. g # h
    BY <1>1, <1>8 DEF close, abort
  <2>2. sock' = sock \/ \E s : sock' = [sock EXCEPT ![g] = s]
    BY <1>8 DEF close, abort, set_state, smoltcp_vars
  <2> QED BY <1>0, <1>1, <2>1, <2>2
<1>9. ASSUME NEW g \in Handles, DropStream(g)
      PROVE  sock'[h] # "Free"
  <2>1. g # h
    BY <1>1, <1>9 DEF DropStream
  <2>2. \/ sock' = sock \/ sock' = [sock EXCEPT ![g] = "Closed"]
        \/ sock' = [k \in Handles |-> IF k \in {g} THEN "Free" ELSE sock[k]]
    BY <1>9 DEF DropStream, remove, smoltcp_vars
  <2> QED BY <1>0, <1>1, <2>1, <2>2
<1> QED
  BY <1>2, <1>3, <1>4, <1>5, <1>6, <1>7, <1>8, <1>9 DEF Next, reactor_run_with, Application

(* Congested or not, an orphan is removed only by the reactor's cleanup,   *)
(* after an egress and in a dead state: no owner of another socket, and no *)
(* reuse of handles, takes it away.                                        *)
THEOREM OrphansAwaitCleanup == Spec => OrphansLeftToCleanup
<1>1. IInv /\ [Next]_vars
        => [\A h \in orphaned_closing :
              sock'[h] = "Free" => phase = "cleanup" /\ sock[h] \in Dead]_vars
  <2> SUFFICES ASSUME IInv, [Next]_vars, NEW h \in orphaned_closing, sock'[h] = "Free"
               PROVE  phase = "cleanup" /\ sock[h] \in Dead
    OBVIOUS
  <2>1. cleanup_orphaned
    BY OrphanStays
  <2>2. h \in Live /\ h \in Handles
    BY DEF IInv, OwnedOnce, Live
  <2> QED BY <2>1, <2>2 DEF cleanup_orphaned, remove, Live, IInv, TypeOK
<1> QED BY Invariance, <1>1, PTL DEF Spec, OrphansLeftToCleanup
=============================================================================
