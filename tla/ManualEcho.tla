----------------------------- MODULE ManualEcho -----------------------------
(***************************************************************************)
(* The poll-driven echo of manual/tcp_echo.rs: an EchoServer that reuses   *)
(* one socket for every connection, an EchoClient per round, and the       *)
(* single-threaded loops run_echo_test and run_stress_test, which          *)
(* alternate iface.poll, server.process and client.process; or the server  *)
(* in a loop of its own (manual/echo_server.rs), and the client elsewhere. *)
(*                                                                         *)
(* smoltcp and the wire are external: while a loop polls, any number of    *)
(* the steps under "smoltcp" happen.  A byte is <<round, index>>.          *)
(***************************************************************************)
EXTENDS Naturals, Sequences, SequencesExt, FiniteSetsExt

CONSTANTS
    NumRounds,   \* num_rounds
    Length,      \* bytes the messages of one round add up to
    BufSize      \* rx_buffer_size = tx_buffer_size; max_pending_tx_bytes in run_echo_server

ASSUME EchoAssumption == NumRounds \in Nat \ {0} /\ Length \in Nat \ {0} /\ BufSize \in Nat \ {0}

VARIABLES
    alone,     \* does the server run in its own loop, run_echo_server?
    running,   \* that loop's flag
    phase,     \* "poll", "server", "client", "check" of the loop, or "done"
    closing,   \* FALSE in run_echo_test, TRUE in the close loop after it
    round,
    expired,   \* rounds whose echo or close loop hit its timeout
    server,    \* [state, peer, rx, tx]: the server's socket, peer is a round
    pending,   \* pending_tx
    was,       \* was_connected
    client,    \* [state, rx, tx]: the client's socket
    app,       \* EchoClientState
    offset,    \* send_offset
    received   \* received_data

vars == <<alone, running, phase, closing, round, expired, server, pending, was, client, app, offset, received>>
loopVars == <<alone, running, closing, round, expired>>
appVars  == <<pending, was, app, offset, received>>

-----------------------------------------------------------------------------
(* Plausible mistakes in the definitions below *)

KeepPending(p) == p

ReadWhenIdle(s) == s.rx # <<>> /\ pending = <<>>

NeverClose(s) == s

(* The interface of a smoltcp socket (external) *)

\* connect gives the socket a SYN to send; its buffers are new.
NewClient == [state |-> "SynSent", rx |-> <<>>, tx |-> <<>>]

is_active(s) == s.state \notin {"Closed", "TimeWait", "Listen"}
is_open(s) == s.state \notin {"Closed", "TimeWait"}

may_send(s) == s.state \in {"Established", "CloseWait"}
can_send(s) == may_send(s) /\ Len(s.tx) < BufSize
can_recv(s) == s.rx # <<>>

\* send_slice takes what fits.
Fits(s, data) == SubSeq(data, 1, Min({Len(data), BufSize - Len(s.tx)}))

close(s) ==
    CASE s.state = "CloseWait" -> [s EXCEPT !.state = "LastAck"]
      [] s.state \in {"Established", "SynReceived"} -> [s EXCEPT !.state = "FinWait1"]
      [] s.state \in {"SynSent", "Listen"} -> [s EXCEPT !.state = "Closed"]
      [] OTHER -> s

Listening == [state |-> "Listen", peer |-> 0, rx |-> <<>>, tx |-> <<>>]

Message(r) == [i \in 1..Length |-> <<r, i>>]

Drop(s, n) == SubSeq(s, n + 1, Len(s))

Init ==
    /\ alone \in BOOLEAN /\ running = TRUE
    /\ phase = "poll" /\ closing = FALSE /\ round = 1 /\ expired = {}
    /\ server = Listening /\ pending = <<>> /\ was = FALSE
    /\ client = NewClient /\ app = "Connecting" /\ offset = 0 /\ received = <<>>
-----------------------------------------------------------------------------
(* smoltcp on both ends of the loopback (external) *)

\* The server's socket belongs to the connection of this round's client.
Paired == server.peer = round

Syn ==
    /\ client.state = "SynSent" /\ server.state = "Listen"
    /\ server' = [server EXCEPT !.state = "SynReceived", !.peer = round]
    /\ UNCHANGED client

SynAck ==
    /\ client.state = "SynSent" /\ server.state = "SynReceived" /\ Paired
    /\ client' = [client EXCEPT !.state = "Established"]
    /\ UNCHANGED server

Ack ==
    /\ Paired /\ server.state = "SynReceived"
    /\ client.state \in {"Established", "FinWait1"}
    /\ server' = [server EXCEPT !.state = "Established"]
    /\ UNCHANGED client

\* A segment that meets no socket is answered with a reset: a SYN while the
\* server is not listening, anything the server sends to a client that is gone.
Refused ==
    /\ client.state = "SynSent" /\ server.state # "Listen" /\ ~Paired
    /\ client' = [client EXCEPT !.state = "Closed"]
    /\ UNCHANGED server

Orphaned ==
    /\ is_active(server) /\ (~Paired \/ client.state = "Closed")
    /\ server.tx # <<>> \/ server.state \in {"SynReceived", "LastAck"}
    /\ server' = [server EXCEPT !.state = "Closed"]
    /\ UNCHANGED client

ToServer ==
    /\ Paired /\ server.state \in {"Established"} /\ client.tx # <<>>
    /\ \E n \in 1..Min({Len(client.tx), BufSize - Len(server.rx)}) :
        /\ server' = [server EXCEPT !.rx = @ \o SubSeq(client.tx, 1, n)]
        /\ client' = [client EXCEPT !.tx = Drop(@, n)]

ToClient ==
    /\ Paired /\ client.state \in {"Established", "FinWait1", "FinWait2"} /\ server.tx # <<>>
    /\ \E n \in 1..Min({Len(server.tx), BufSize - Len(client.rx)}) :
        /\ client' = [client EXCEPT !.rx = @ \o SubSeq(server.tx, 1, n)]
        /\ server' = [server EXCEPT !.tx = Drop(@, n)]

FinToServer ==
    /\ Paired /\ client.state = "FinWait1" /\ client.tx = <<>>
    /\ server.state = "Established"
    /\ server' = [server EXCEPT !.state = "CloseWait"]
    /\ client' = [client EXCEPT !.state = "FinWait2"]

FinToClient ==
    /\ Paired /\ server.state = "LastAck" /\ server.tx = <<>> /\ client.state = "FinWait2"
    /\ server' = [server EXCEPT !.state = "Closed"]
    /\ client' = [client EXCEPT !.state = "TimeWait"]

Net ==
    /\ phase = "poll"
    /\ running
    /\ \/ Syn \/ SynAck \/ Ack \/ Refused \/ Orphaned
       \/ ToServer \/ ToClient \/ FinToServer \/ FinToClient
    /\ UNCHANGED <<phase, loopVars, appVars>>

(* EchoServer::process *)

EndPoll ==
    /\ phase = "poll" /\ phase' = IF alone THEN "client" ELSE "server"
    /\ UNCHANGED <<loopVars, server, client, appVars>>

\* The buffer is cleared when the connection is seen to be over.
Cleared(p) == <<>>

\* recv is called: one contiguous part of the receive buffer.
Receives(s) == can_recv(s)

CloseSide(s) == IF s.state = "CloseWait" THEN close(s) ELSE s

ServerActive ==
    /\ is_active(server)
    /\ was' = TRUE
    /\ \E n \in (IF Receives(server) THEN 1..Len(server.rx) ELSE {0}) :
        LET all == pending \o SubSeq(server.rx, 1, n)
            out == IF can_send(server) THEN Fits(server, all) ELSE <<>>
        IN  /\ pending' = Drop(all, Len(out))
            /\ server' = CloseSide([server EXCEPT !.rx = Drop(@, n), !.tx = @ \o out])
    /\ UNCHANGED <<loopVars, client, app, offset, received>>

ServerInactive ==
    /\ ~is_active(server)
    /\ was' = FALSE
    /\ pending' = IF was THEN Cleared(pending) ELSE pending
    /\ server' = IF server.state = "Closed" THEN Listening ELSE server
    /\ UNCHANGED <<loopVars, client, app, offset, received>>

ServerProcess ==
    /\ phase = "server" /\ phase' = "client"
    /\ ServerActive \/ ServerInactive

\* The loop of manual/echo_server.rs, which does nothing but poll and process;
\* its statistics and messages are left out.
run_echo_server ==
    /\ alone /\ running
    /\ ServerActive \/ ServerInactive
    /\ UNCHANGED phase

\* Ctrl-C ends it.
setup_ctrlc_handler ==
    /\ alone /\ running /\ running' = FALSE
    /\ UNCHANGED <<alone, phase, closing, round, expired, server, client, appVars>>

(* EchoClient::process *)

\* The last lines of process: a closed socket ends the client.
Lives(next) ==
    app' = IF ~is_open(client) /\ next # "Complete" THEN "Closed" ELSE next

ClientConnecting ==
    /\ app = "Connecting"
    /\ Lives(IF is_active(client) THEN "Connected" ELSE app)
    /\ UNCHANGED <<client, offset, received>>

ClientSending ==
    /\ app = "Connected"
    /\ LET out == IF can_send(client) THEN Fits(client, Drop(Message(round), offset)) ELSE <<>>
       IN  /\ client' = [client EXCEPT !.tx = @ \o out]
           /\ offset' = offset + Len(out)
           /\ Lives(IF offset' >= Length THEN "WaitingForEcho" ELSE app)
    /\ UNCHANGED received

ClientReceiving ==
    /\ app = "WaitingForEcho"
    /\ \E n \in (IF can_recv(client) THEN 1..Len(client.rx) ELSE {0}) :
        /\ received' = received \o SubSeq(client.rx, 1, n)
        /\ client' = [client EXCEPT !.rx = Drop(@, n)]
    /\ Lives(IF Len(received') >= Length THEN "Complete" ELSE app)
    /\ UNCHANGED offset

ClientIdle ==
    /\ app \in {"Complete", "Closed"}
    /\ UNCHANGED <<client, app, offset, received>>

ClientProcess ==
    /\ phase = "client" /\ phase' = "check"
    /\ ClientConnecting \/ ClientSending \/ ClientReceiving \/ ClientIdle
    /\ UNCHANGED <<loopVars, server, pending, was>>

(* run_echo_test and run_stress_test *)

\* The echo loop ends with the client; then the client is closed.
EchoLoop ==
    /\ phase = "check" /\ ~closing
    /\ phase' = "poll"
    /\ IF app \in {"Complete", "Closed"}
       THEN closing' = TRUE /\ client' = close(client)
       ELSE UNCHANGED <<closing, client>>
    /\ UNCHANGED <<alone, running, round, expired, server, appVars>>

EchoTimeout ==
    /\ phase = "check" /\ ~closing /\ app \notin {"Complete", "Closed"}
    /\ phase' = "poll" /\ closing' = TRUE /\ client' = close(client)
    /\ expired' = expired \cup {round}
    /\ UNCHANGED <<alone, running, round, server, appVars>>

\* The client's socket is removed, and the next round starts with a new one.
NextRound ==
    IF round = NumRounds
    THEN phase' = "done" /\ UNCHANGED <<closing, round, client, app, offset, received>>
    ELSE /\ phase' = "poll" /\ closing' = FALSE /\ round' = round + 1
         /\ client' = NewClient /\ app' = "Connecting" /\ offset' = 0 /\ received' = <<>>

CloseLoop ==
    /\ phase = "check" /\ closing
    /\ IF server.state = "Listen" THEN NextRound
       ELSE phase' = "poll" /\ UNCHANGED <<closing, round, client, app, offset, received>>
    /\ UNCHANGED <<alone, running, expired, server, pending, was>>

CloseTimeout ==
    /\ phase = "check" /\ closing /\ server.state # "Listen"
    /\ expired' = expired \cup {round}
    /\ NextRound
    /\ UNCHANGED <<alone, running, server, pending, was>>

Loop == EndPoll \/ ServerProcess \/ ClientProcess \/ EchoLoop \/ CloseLoop

Next ==
    \/ Net \/ Loop \/ EchoTimeout \/ CloseTimeout
    \/ run_echo_server \/ setup_ctrlc_handler

\* The loops run on; smoltcp delivers what it can deliver again and again, which
\* is what its retransmissions are for.  A timeout need never fire.
Spec ==
    /\ Init /\ [][Next]_vars
    /\ WF_vars(Loop) /\ WF_vars(run_echo_server)
    /\ SF_vars(Net /\ (Syn \/ SynAck \/ Ack \/ Refused \/ FinToServer \/ FinToClient))
    /\ SF_vars(Net /\ ToServer) /\ SF_vars(Net /\ ToClient)
-----------------------------------------------------------------------------
\* What a client receives is what it sent, in order, whatever the earlier
\* connections of the server's socket and of pending_tx left behind.
EchoExact == IsPrefix(received, Message(round))

\* A message larger than all buffers together comes back completely, although the
\* client reads nothing before it has sent everything: the server's pending_tx
\* has no bound.  Only a timeout, or a server that was stopped, prevents it.
EchoCompletes ==
    (app # "Complete") ~> (app = "Complete" \/ expired # {} \/ ~running)

\* The doc of max_pending_tx_bytes ("Maximum size for the pending TX buffer",
\* echo_server.rs:25): the server in its own loop never holds back more than that.
\* run_echo_server gives the value to the socket's buffers and to nothing else, so
\* pending_tx passes it when the client does not read.
PendingBounded == alone => Len(pending) <= BufSize

\* After a round without timeout the close handshake runs to its end and the
\* server listens again.
ServerListensAgain ==
    (closing /\ app = "Complete") ~> (server.state = "Listen" \/ expired # {} \/ ~running)
=============================================================================
