-------------------------- MODULE ManualEchoProofs --------------------------
(***************************************************************************)
(* Proofs about ManualEcho, for messages and buffers of any size and any   *)
(* number of rounds: what a client receives is what it sent, whatever an   *)
(* earlier connection left in the server's socket and in pending_tx.       *)
(***************************************************************************)
EXTENDS ManualEcho, SequenceTheorems, TLAPS

Byte == Nat \X Nat

\* s is the part of round r's message that follows its first n bytes.
Run(s, r, n) == \A i \in 1..Len(s) : s[i] = <<r, n + i>>

-----------------------------------------------------------------------------
(* The inductive invariant *)

ServerStates == {"Listen", "SynReceived", "Established", "CloseWait", "LastAck", "Closed"}

ClientStates == {"SynSent", "Established", "FinWait1", "FinWait2", "TimeWait", "Closed"}

Types ==
  /\ round \in Nat \ {0} /\ offset \in 0..Length
  /\ server \in [state : ServerStates, peer : Nat, rx : Seq(Byte), tx : Seq(Byte)]
  /\ client \in [state : ClientStates, rx : Seq(Byte), tx : Seq(Byte)]
  /\ pending \in Seq(Byte) /\ received \in Seq(Byte)

\* How much of the message each buffer on its way begins after.
AtClient  == Len(received)
AtServer  == AtClient + Len(client.rx)
AtPending == AtServer + Len(server.tx)
AtServerRx == AtPending + Len(pending)
AtClientTx == AtServerRx + Len(server.rx)

\* What has come back is the start of this round's message.
Returned ==
  /\ Run(received, round, 0) /\ Run(client.rx, round, AtClient)
  /\ AtServer <= offset

\* The socket of the client's own connection: the message is cut into pieces,
\* one per buffer, and nothing else is in them.
Underway ==
  Paired =>
    /\ Run(server.tx, round, AtServer) /\ Run(pending, round, AtPending)
    /\ Run(server.rx, round, AtServerRx) /\ Run(client.tx, round, AtClientTx)
    /\ AtClientTx + Len(client.tx) = offset

\* A socket takes up its next connection with nothing left from the last.
Fresh ==
  /\ server.peer <= round
  /\ server.state = "Listen" => server = Listening /\ pending = <<>>
  /\ ~was => pending = <<>>
  /\ client.state = "SynSent" =>
       client.rx = <<>> /\ client.tx = <<>> /\ received = <<>> /\ offset = 0

EchoInv == Types /\ Returned /\ Underway /\ Fresh

-----------------------------------------------------------------------------
(* Sequences *)

\* The smaller of two numbers.
LEMMA MinOfTwo ==
  ASSUME NEW a \in Int, NEW b \in Int
  PROVE  Min({a, b}) = IF a <= b THEN a ELSE b
BY DEF Min

\* The first n bytes of s go to the end of t.
LEMMA MoveBytes ==
  ASSUME NEW s \in Seq(Byte), NEW t \in Seq(Byte), NEW n \in 0..Len(s)
  PROVE  LET u == t \o SubSeq(s, 1, n)
             d == Drop(s, n)
         IN  /\ u \in Seq(Byte) /\ d \in Seq(Byte)
             /\ Len(u) = Len(t) + n /\ Len(d) = Len(s) - n
             /\ \A i \in 1..Len(t) : u[i] = t[i]
             /\ \A i \in 1..n : u[Len(t) + i] = s[i]
             /\ \A i \in 1..(Len(s) - n) : d[i] = s[n + i]
<1> DEFINE p == SubSeq(s, 1, n)
           d == SubSeq(s, n + 1, Len(s))
<1>0. Len(s) \in Nat /\ Len(t) \in Nat /\ \A i \in 1..Len(s) : s[i] \in Byte
  BY ElementOfSeq
<1>1. p \in Seq(Byte) /\ Len(p) = n /\ \A i \in 1..n : p[i] = s[i]
  <2>1. \A i \in 1..n : s[i] \in Byte
    BY <1>0
  <2> QED BY <2>1, <1>0, SubSeqProperties
<1>2. d \in Seq(Byte) /\ Len(d) = Len(s) - n /\ \A i \in 1..(Len(s) - n) : d[i] = s[n + i]
  <2>1. \A i \in (n + 1)..Len(s) : s[i] \in Byte
    BY <1>0
  <2> QED BY <2>1, <1>0, SubSeqProperties
<1> HIDE DEF p, d
<1>3. /\ t \o p \in Seq(Byte) /\ Len(t \o p) = Len(t) + n
      /\ \A i \in 1..(Len(t) + n) : (t \o p)[i] = IF i <= Len(t) THEN t[i] ELSE p[i - Len(t)]
  BY <1>1, ConcatProperties
<1>4. \A i \in 1..Len(t) : (t \o p)[i] = t[i]
  BY <1>0, <1>3
<1>5. \A i \in 1..n : (t \o p)[Len(t) + i] = s[i]
  BY <1>0, <1>1, <1>3
<1> QED BY <1>2, <1>3, <1>4, <1>5 DEF p, d, Drop

\* Two adjacent parts of the message stay adjacent parts.
LEMMA MoveRun ==
  ASSUME NEW s \in Seq(Byte), NEW t \in Seq(Byte), NEW n \in 0..Len(s),
         NEW r, NEW f \in Nat, Run(t, r, f), Run(s, r, f + Len(t))
  PROVE  /\ Run(t \o SubSeq(s, 1, n), r, f)
         /\ Run(Drop(s, n), r, f + Len(t) + n)
<1> DEFINE u == t \o SubSeq(s, 1, n)
           d == Drop(s, n)
           a == Len(s)
           b == Len(t)
<1>1. /\ Len(u) = b + n /\ Len(d) = a - n
      /\ \A i \in 1..b : u[i] = t[i]
      /\ \A i \in 1..n : u[b + i] = s[i]
      /\ \A i \in 1..(a - n) : d[i] = s[n + i]
  BY MoveBytes, SMTT(30)
<1>2. (\A i \in 1..b : t[i] = <<r, f + i>>) /\ \A i \in 1..a : s[i] = <<r, f + b + i>>
  BY DEF Run
<1>3. a \in Nat /\ b \in Nat /\ n \in 0..a
  OBVIOUS
<1> HIDE DEF u, d, a, b
<1>4. ASSUME NEW i \in 1..(b + n) PROVE u[i] = <<r, f + i>>
  <2>1. CASE i <= b
    <3>1. i \in 1..b
      BY <1>3, <2>1
    <3> QED BY <1>1, <1>2, <3>1
  <2>2. CASE i > b
    <3>1. i - b \in 1..n /\ i - b \in 1..a /\ b + (i - b) = i /\ f + b + (i - b) = f + i
      BY <1>3, <2>2
    <3>2. u[b + (i - b)] = s[i - b] /\ s[i - b] = <<r, f + b + (i - b)>>
      BY <1>1, <1>2, <3>1
    <3> QED BY <3>1, <3>2
  <2> QED BY <1>3, <2>1, <2>2
<1>5. ASSUME NEW i \in 1..(a - n) PROVE d[i] = <<r, f + b + n + i>>
  <2>1. n + i \in 1..a /\ f + b + (n + i) = f + b + n + i
    BY <1>3
  <2>2. d[i] = s[n + i] /\ s[n + i] = <<r, f + b + (n + i)>>
    BY <1>1, <1>2, <2>1
  <2> QED BY <2>1, <2>2
<1> QED BY <1>1, <1>4, <1>5 DEF Run, u, d, b

\* An empty buffer holds any part of the message.
LEMMA EmptyRun == \A r, n : Run(<<>>, r, n) /\ Len(<<>>) = 0 /\ <<>> \in Seq(Byte)
BY DEF Run

-----------------------------------------------------------------------------
(* Steps *)

\* A new connection of a new server: nothing is under way.
LEMMA EchoInit == Init => EchoInv
<1> SUFFICES ASSUME Init PROVE EchoInv
  OBVIOUS
<1> USE EchoAssumption, EmptyRun
<1>1. server = Listening /\ client = NewClient /\ pending = <<>> /\ received = <<>>
      /\ offset = 0 /\ round = 1
  BY DEF Init
<1>2. Types
  BY <1>1 DEF Types, Listening, NewClient, ServerStates, ClientStates
<1>3. Returned
  BY <1>1 DEF Returned, AtClient, AtServer, NewClient
<1>4. Underway
  BY <1>1 DEF Underway, Paired, Listening
<1>5. Fresh
  BY <1>1 DEF Fresh, Listening, NewClient
<1> QED BY <1>2, <1>3, <1>4, <1>5 DEF EchoInv

\* Bytes that leave one buffer for the next do not move what comes after both.
LEMMA Shifted ==
  ASSUME NEW x \in Nat, NEW y \in Nat, NEW z \in Nat, NEW n \in Nat
  PROVE  (x + y + n) + (z - n) = x + y + z
OBVIOUS

\* A step that moves no byte and leaves the connection what it was, or ends it.
LEMMA NothingMoves ==
  ASSUME EchoInv,
         round' = round, offset' = offset, pending' = pending, received' = received,
         server.rx' = server.rx, server.tx' = server.tx,
         client.rx' = client.rx, client.tx' = client.tx,
         Paired' => Paired
  PROVE  Returned' /\ Underway'
<1>1. AtClient' = AtClient /\ AtServer' = AtServer
  BY DEF AtClient, AtServer
<1>2. AtPending' = AtPending /\ AtServerRx' = AtServerRx /\ AtClientTx' = AtClientTx
  BY <1>1 DEF AtPending, AtServerRx, AtClientTx
<1>3. Returned'
  BY <1>1 DEF EchoInv, Returned, Run
<1>4. Underway'
  BY <1>1, <1>2 DEF EchoInv, Underway, Run
<1> QED BY <1>3, <1>4

\* Segments that change the state of a socket only.
LEMMA StateSegments ==
  ASSUME EchoInv, UNCHANGED <<loopVars, appVars>>,
         Syn \/ SynAck \/ Ack \/ Refused \/ Orphaned \/ FinToServer \/ FinToClient
  PROVE  EchoInv'
<1> USE DEF loopVars, appVars
<1>1. /\ server.rx' = server.rx /\ server.tx' = server.tx
      /\ client.rx' = client.rx /\ client.tx' = client.tx
  BY DEF EchoInv, Types, Syn, SynAck, Ack, Refused, Orphaned, FinToServer, FinToClient
<1>2. Types'
  BY DEF EchoInv, Types, Syn, SynAck, Ack, Refused, Orphaned, FinToServer, FinToClient,
         ServerStates, ClientStates
<1>3. Fresh'
  <2>1. /\ server'.state # "Listen" \/ server' = server
        /\ client'.state # "SynSent" \/ client'.state = client.state
    BY DEF EchoInv, Types, Syn, SynAck, Ack, Refused, Orphaned, FinToServer, FinToClient
  <2>2. server'.peer \in {server.peer, round}
    BY DEF EchoInv, Types, Syn, SynAck, Ack, Refused, Orphaned, FinToServer, FinToClient
  <2>3. server'.peer <= round'
    BY <2>2 DEF EchoInv, Types, Fresh
  <2> QED BY <1>1, <2>1, <2>3 DEF EchoInv, Fresh, Listening
<1>4. CASE Syn
  <2>1. /\ client.rx = <<>> /\ client.tx = <<>> /\ received = <<>> /\ offset = 0
        /\ server.rx = <<>> /\ server.tx = <<>> /\ pending = <<>>
    BY <1>4 DEF EchoInv, Fresh, Syn, Listening
  <2>2. /\ client'.rx = <<>> /\ client'.tx = <<>> /\ received' = <<>> /\ offset' = 0
        /\ server'.rx = <<>> /\ server'.tx = <<>> /\ pending' = <<>>
    BY <1>1, <2>1
  <2>3. Returned' /\ Underway'
    BY <2>2, EmptyRun DEF Returned, Underway, AtClient, AtServer, AtPending, AtServerRx, AtClientTx
  <2> QED BY <1>2, <1>3, <2>3 DEF EchoInv
<1>5. CASE SynAck \/ Ack \/ Refused \/ Orphaned \/ FinToServer \/ FinToClient
  <2>1. server'.peer = server.peer
    BY <1>5 DEF EchoInv, Types, SynAck, Ack, Refused, Orphaned, FinToServer, FinToClient
  <2>2. Paired' => Paired
    BY <2>1 DEF Paired
  <2> QED BY <1>1, <1>2, <1>3, <2>2, NothingMoves DEF EchoInv
<1> QED BY <1>4, <1>5

\* The segments of a stream: bytes go from one buffer to the next.
LEMMA DataToServer ==
  ASSUME EchoInv, UNCHANGED <<loopVars, appVars>>, ToServer
  PROVE  EchoInv'
<1> USE DEF loopVars, appVars
<1>1. PICK n \in 1..Min({Len(client.tx), BufSize - Len(server.rx)}) :
        /\ server' = [server EXCEPT !.rx = @ \o SubSeq(client.tx, 1, n)]
        /\ client' = [client EXCEPT !.tx = Drop(@, n)]
  BY DEF ToServer
<1>2. Types /\ BufSize \in Nat /\ server.rx \in Seq(Byte) /\ client.tx \in Seq(Byte)
  BY EchoAssumption DEF EchoInv, Types
<1>3. n \in 1..Len(client.tx) /\ n \in 0..Len(client.tx)
  <2>1. n \in 1..Len(client.tx)
    BY <1>2, MinOfTwo, SMTT(30)
  <2> QED BY <1>2, <2>1
<1> DEFINE u == server.rx \o SubSeq(client.tx, 1, n)
           d == Drop(client.tx, n)
<1>4. /\ u \in Seq(Byte) /\ d \in Seq(Byte)
      /\ Len(u) = Len(server.rx) + n /\ Len(d) = Len(client.tx) - n
  BY <1>2, <1>3, MoveBytes
<1>5. Paired /\ server.state = "Established"
  BY DEF ToServer
<1>6. /\ AtClientTx \in Nat /\ AtServerRx \in Nat /\ AtClientTx = AtServerRx + Len(server.rx)
  BY <1>2 DEF Types, AtClientTx, AtServerRx, AtPending, AtServer, AtClient
<1>7. Run(u, round, AtServerRx) /\ Run(d, round, AtServerRx + Len(server.rx) + n)
  <2>1. Run(server.rx, round, AtServerRx) /\ Run(client.tx, round, AtServerRx + Len(server.rx))
    BY <1>5, <1>6 DEF EchoInv, Underway
  <2> QED BY <1>2, <1>3, <1>6, <2>1, MoveRun
<1> HIDE DEF u, d
<1>8. /\ server' = [server EXCEPT !.rx = u] /\ client' = [client EXCEPT !.tx = d]
  BY <1>1 DEF u, d
<1>9. /\ server'.rx = u /\ server'.tx = server.tx /\ server'.peer = server.peer
      /\ server'.state = server.state
      /\ client'.rx = client.rx /\ client'.tx = d /\ client'.state = client.state
  BY <1>2, <1>8 DEF Types
<1>10. Types'
  BY <1>2, <1>4, <1>8 DEF Types
<1>11. AtClient' = AtClient /\ AtServer' = AtServer /\ AtPending' = AtPending /\ AtServerRx' = AtServerRx
  BY <1>9 DEF AtClient, AtServer, AtPending, AtServerRx
<1>12. AtClientTx' = AtServerRx + Len(server.rx) + n
  <2>1. AtClientTx' = AtServerRx + Len(u)
    BY <1>9, <1>11 DEF AtClientTx
  <2> QED BY <1>2, <1>3, <1>4, <1>6, <2>1
<1>13. Returned'
  BY <1>9, <1>11 DEF EchoInv, Returned, Run
<1>14. Underway'
  <2>1. AtClientTx' + Len(client'.tx) = offset
    <3>1. AtClientTx + Len(client.tx) = offset
      BY <1>5 DEF EchoInv, Underway
    <3>2. AtClientTx' + Len(client'.tx) = (AtServerRx + Len(server.rx) + n) + (Len(client.tx) - n)
      BY <1>4, <1>9, <1>12
    <3>3. Len(client.tx) \in Nat /\ Len(server.rx) \in Nat /\ n \in Nat
      BY <1>2, <1>3
    <3>4. \A x, y, z \in Nat : (x + y + n) + (z - n) = x + y + z
      BY <3>3
    <3> QED BY <1>6, <3>1, <3>2, <3>3, <3>4
  <2>2. Run(server.tx, round, AtServer) /\ Run(pending, round, AtPending)
    BY <1>5 DEF EchoInv, Underway
  <2> QED BY <1>7, <1>9, <1>11, <1>12, <2>1, <2>2 DEF Underway
<1>15. Fresh'
  <2>1. client.state # "SynSent"
    <3>1. Len(client.tx) # 0
      BY <1>2, <1>3
    <3> QED BY <3>1 DEF EchoInv, Fresh
  <2> QED BY <1>5, <1>9, <2>1 DEF EchoInv, Fresh
<1> QED BY <1>10, <1>13, <1>14, <1>15 DEF EchoInv

\* The places are numbers, one after the other.
LEMMA Places ==
  ASSUME Types
  PROVE  /\ AtClient \in Nat /\ AtServer \in Nat /\ AtPending \in Nat
         /\ AtServerRx \in Nat /\ AtClientTx \in Nat
         /\ AtClient <= AtServer /\ AtServer <= AtPending
         /\ AtPending <= AtServerRx /\ AtServerRx <= AtClientTx
BY DEF Types, AtClient, AtServer, AtPending, AtServerRx, AtClientTx

\* Bytes of the client's own connection reach its receive buffer.
LEMMA DataToClient ==
  ASSUME EchoInv, UNCHANGED <<loopVars, appVars>>, ToClient
  PROVE  EchoInv'
<1> USE DEF loopVars, appVars
<1>1. PICK n \in 1..Min({Len(server.tx), BufSize - Len(client.rx)}) :
        /\ client' = [client EXCEPT !.rx = @ \o SubSeq(server.tx, 1, n)]
        /\ server' = [server EXCEPT !.tx = Drop(@, n)]
  BY DEF ToClient
<1>2. Types /\ BufSize \in Nat /\ server.tx \in Seq(Byte) /\ client.rx \in Seq(Byte)
  BY EchoAssumption DEF EchoInv, Types
<1>3. n \in 1..Len(server.tx) /\ n \in 0..Len(server.tx) /\ n \in Nat
  <2>1. n \in 1..Len(server.tx)
    BY <1>2, MinOfTwo
  <2> QED BY <1>2, <2>1
<1> DEFINE u == client.rx \o SubSeq(server.tx, 1, n)
           d == Drop(server.tx, n)
<1>4. /\ u \in Seq(Byte) /\ d \in Seq(Byte)
      /\ Len(u) = Len(client.rx) + n /\ Len(d) = Len(server.tx) - n
  BY <1>2, <1>3, MoveBytes
<1>5. Paired /\ client.state # "SynSent"
  BY DEF ToClient
<1>6. /\ AtServer = AtClient + Len(client.rx) /\ AtPending = AtServer + Len(server.tx)
      /\ AtClient \in Nat /\ AtServer \in Nat /\ AtPending \in Nat
      /\ Len(client.rx) \in Nat /\ Len(server.tx) \in Nat
  BY <1>2, Places DEF AtServer, AtPending
<1>7. Run(u, round, AtClient) /\ Run(d, round, AtClient + Len(client.rx) + n)
  <2>1. Run(client.rx, round, AtClient) /\ Run(server.tx, round, AtClient + Len(client.rx))
    BY <1>5, <1>6 DEF EchoInv, Returned, Underway
  <2> QED BY <1>2, <1>3, <1>6, <2>1, MoveRun
<1> HIDE DEF u, d
<1>8. /\ client' = [client EXCEPT !.rx = u] /\ server' = [server EXCEPT !.tx = d]
  BY <1>1 DEF u, d
<1>9. /\ server'.tx = d /\ server'.rx = server.rx /\ server'.peer = server.peer
      /\ server'.state = server.state
      /\ client'.tx = client.tx /\ client'.rx = u /\ client'.state = client.state
  BY <1>2, <1>8 DEF Types
<1>10. Types'
  BY <1>2, <1>4, <1>8 DEF Types
<1>11. AtClient' = AtClient /\ AtServer' = AtClient + Len(client.rx) + n
  <2>1. AtClient' = AtClient /\ AtServer' = AtClient + Len(u)
    BY <1>9 DEF AtClient, AtServer
  <2> QED BY <1>3, <1>4, <1>6, <2>1
<1>12. AtPending' = AtPending
  <2> DEFINE a == AtClient
             b == Len(client.rx)
             c == Len(server.tx)
  <2>1. AtPending' = (a + b + n) + (c - n)
    BY <1>4, <1>9, <1>11 DEF AtPending
  <2>2. a \in Nat /\ b \in Nat /\ c \in Nat /\ n \in Nat
    BY ONLY <1>3, <1>6
  <2>3. AtPending = a + b + c
    BY ONLY <1>6
  <2> HIDE DEF a, b, c
  <2>4. (a + b + n) + (c - n) = a + b + c
    BY ONLY <2>2, Shifted
  <2> QED BY ONLY <2>1, <2>3, <2>4
<1>13. AtServerRx' = AtServerRx /\ AtClientTx' = AtClientTx
  BY <1>9, <1>12 DEF AtServerRx, AtClientTx
<1>14. Returned'
  <2>1. AtPending <= offset /\ offset \in Nat
    <3>1. AtClientTx + Len(client.tx) = offset /\ Len(client.tx) \in Nat /\ offset \in Nat
      BY <1>2, <1>5, EchoAssumption DEF EchoInv, Underway, Types
    <3> QED BY <1>2, <3>1, Places
  <2>2. AtClient + Len(client.rx) + n <= offset
    <3>1. AtPending = AtClient + Len(client.rx) + Len(server.tx) /\ n <= Len(server.tx)
      BY <1>3, <1>6
    <3>2. \A x, y, z \in Nat : n <= z /\ x + y + z <= offset => x + y + n <= offset
      BY <1>3, <2>1
    <3> QED BY <1>6, <2>1, <3>1, <3>2
  <2>3. Run(received, round, 0)
    BY DEF EchoInv, Returned
  <2> QED BY <1>7, <1>9, <1>11, <2>2, <2>3 DEF Returned
<1>15. Underway'
  <2>1. /\ Run(pending, round, AtPending)
        /\ Run(server.rx, round, AtServerRx) /\ Run(client.tx, round, AtClientTx)
        /\ AtClientTx + Len(client.tx) = offset
    BY <1>5 DEF EchoInv, Underway
  <2> QED BY <1>7, <1>9, <1>11, <1>12, <1>13, <2>1 DEF Underway
<1>16. Fresh'
  <2>1. server.state # "Listen"
    <3>1. Len(server.tx) # 0
      BY <1>2, <1>3
    <3> QED BY <3>1 DEF EchoInv, Fresh, Listening
  <2> QED BY <1>5, <1>9, <2>1 DEF EchoInv, Fresh
<1> QED BY <1>10, <1>14, <1>15, <1>16 DEF EchoInv

\* What send_slice takes is a start of the data.
LEMMA SendSlice ==
  ASSUME NEW s \in Seq(Byte), NEW t \in Seq(Byte), NEW sends \in BOOLEAN,
         sends => Len(t) < BufSize
  PROVE  LET out == IF sends THEN SubSeq(s, 1, Min({Len(s), BufSize - Len(t)})) ELSE <<>>
         IN  \E m \in 0..Len(s) : /\ out = SubSeq(s, 1, m) /\ Len(out) = m
                                  /\ ~sends => m = 0
<1>0. BufSize \in Nat /\ Len(s) \in Nat /\ Len(t) \in Nat
  BY EchoAssumption
<1>1. CASE sends
  <2> DEFINE m == Min({Len(s), BufSize - Len(t)})
  <2>1. m \in 0..Len(s)
    BY <1>0, <1>1, MinOfTwo
  <2>2. Len(SubSeq(s, 1, m)) = m
    <3> HIDE DEF m
    <3>1. \A i \in 1..m : s[i] \in Byte
      BY <1>0, <2>1, ElementOfSeq
    <3> QED BY <1>0, <2>1, <3>1, SubSeqProperties
  <2> QED BY <1>1, <2>1, <2>2
<1>2. CASE ~sends
  <2>1. SubSeq(s, 1, 0) = <<>> /\ Len(<<>>) = 0 /\ 0 \in 0..Len(s)
    BY <1>0, SubSeqEmpty
  <2> QED BY <1>2, <2>1
<1> QED BY <1>1, <1>2

\* process of a connected server: bytes go through pending_tx to the send buffer.
LEMMA ServerActiveKeeps ==
  ASSUME EchoInv, ServerActive
  PROVE  EchoInv'
<1> USE DEF loopVars
<1>1. PICK n \in (IF Receives(server) THEN 1..Len(server.rx) ELSE {0}) :
        LET all == pending \o SubSeq(server.rx, 1, n)
            out == IF can_send(server) THEN Fits(server, all) ELSE <<>>
        IN  /\ pending' = Drop(all, Len(out))
            /\ server' = CloseSide([server EXCEPT !.rx = Drop(@, n), !.tx = @ \o out])
  BY DEF ServerActive
<1>2. /\ Types /\ BufSize \in Nat /\ pending \in Seq(Byte)
      /\ server.rx \in Seq(Byte) /\ server.tx \in Seq(Byte)
      /\ Len(server.rx) \in Nat /\ Len(server.tx) \in Nat /\ Len(pending) \in Nat
  BY EchoAssumption DEF EchoInv, Types
<1>3. n \in 0..Len(server.rx) /\ n \in Nat
  BY <1>2
<1> DEFINE all == pending \o SubSeq(server.rx, 1, n)
           rest == Drop(server.rx, n)
           out == IF can_send(server) THEN Fits(server, all) ELSE <<>>
<1>4. /\ all \in Seq(Byte) /\ rest \in Seq(Byte)
      /\ Len(all) = Len(pending) + n /\ Len(rest) = Len(server.rx) - n
  BY <1>2, <1>3, MoveBytes
<1>5. Paired => Run(all, round, AtPending) /\ Run(rest, round, AtServerRx + n)
  <2> SUFFICES ASSUME Paired PROVE Run(all, round, AtPending) /\ Run(rest, round, AtServerRx + n)
    OBVIOUS
  <2>1. AtPending \in Nat /\ AtServerRx = AtPending + Len(pending)
    BY <1>2, Places DEF AtServerRx
  <2>2. Run(pending, round, AtPending) /\ Run(server.rx, round, AtPending + Len(pending))
    BY <2>1 DEF EchoInv, Underway
  <2> QED BY <1>2, <1>3, <2>1, <2>2, MoveRun
<1>6. /\ pending' = Drop(all, Len(out))
      /\ server' = CloseSide([server EXCEPT !.rx = rest, !.tx = @ \o out])
  BY <1>1
<1> HIDE DEF rest
<1>7. PICK m \in 0..Len(all) : out = SubSeq(all, 1, m) /\ Len(out) = m
  <2> HIDE DEF all
  <2> DEFINE sends == can_send(server)
  <2>1. sends \in BOOLEAN /\ (sends => Len(server.tx) < BufSize)
    BY DEF can_send, may_send
  <2>2. out = IF sends THEN SubSeq(all, 1, Min({Len(all), BufSize - Len(server.tx)})) ELSE <<>>
    BY DEF Fits
  <2> HIDE DEF sends, out
  <2> QED BY <1>2, <1>4, <2>1, <2>2, SendSlice
<1> HIDE DEF all, out
<1> DEFINE sent == server.tx \o SubSeq(all, 1, m)
           left == Drop(all, m)
<1>8. /\ sent \in Seq(Byte) /\ left \in Seq(Byte)
      /\ Len(sent) = Len(server.tx) + m /\ Len(left) = Len(all) - m
  BY <1>2, <1>4, <1>7, MoveBytes, ZenonT(40)
<1>9. Paired => Run(sent, round, AtServer) /\ Run(left, round, AtPending + m)
  <2> SUFFICES ASSUME Paired PROVE Run(sent, round, AtServer) /\ Run(left, round, AtPending + m)
    OBVIOUS
  <2>1. AtServer \in Nat /\ AtPending = AtServer + Len(server.tx)
    BY <1>2, Places DEF AtPending
  <2>2. Run(server.tx, round, AtServer) /\ Run(all, round, AtServer + Len(server.tx))
    BY <1>5, <2>1 DEF EchoInv, Underway
  <2> QED BY <1>2, <1>4, <1>7, <2>1, <2>2, MoveRun
<1>10. pending' = left /\ server' = CloseSide([server EXCEPT !.rx = rest, !.tx = sent])
  BY <1>6, <1>7
<1>11. m \in Nat /\ Len(all) \in Nat /\ m <= Len(all)
  BY <1>4, <1>7
<1> HIDE DEF sent, left
<1>12. /\ server'.rx = rest /\ server'.tx = sent /\ server'.peer = server.peer
       /\ server'.state \in {server.state, "LastAck"}
       /\ server' \in [state : ServerStates, peer : Nat, rx : Seq(Byte), tx : Seq(Byte)]
  BY <1>2, <1>4, <1>8, <1>10 DEF CloseSide, close, Types, ServerStates
<1>13. /\ client' = client /\ offset' = offset /\ received' = received /\ round' = round
       /\ was' = TRUE /\ server.state # "Listen"
  BY DEF ServerActive, is_active
<1>14. Types'
  BY <1>2, <1>8, <1>10, <1>12, <1>13 DEF Types
<1>15. AtClient' = AtClient /\ AtServer' = AtServer
  BY <1>13 DEF AtClient, AtServer
<1>16. Returned'
  BY <1>13, <1>15 DEF EchoInv, Returned, Run
<1>17. Underway'
  <2> SUFFICES ASSUME Paired PROVE Underway'
    BY <1>12, <1>13 DEF Underway, Paired
  <2>1. AtServer \in Nat /\ AtPending \in Nat /\ AtServerRx \in Nat /\ AtClientTx \in Nat
    BY <1>2, Places
  <2>2. AtPending' = AtPending + m
    <3>1. AtPending' = AtServer + (Len(server.tx) + m)
      BY <1>8, <1>12, <1>15 DEF AtPending
    <3>2. AtPending = AtServer + Len(server.tx)
      BY DEF AtPending
    <3>3. \A x, y \in Nat : x + (y + m) = x + y + m
      BY <1>11
    <3> QED BY <1>2, <2>1, <3>1, <3>2, <3>3
  <2>3. AtServerRx' = AtServerRx + n
    <3>1. AtServerRx' = (AtPending + m) + (Len(pending) + n - m)
      BY <1>4, <1>8, <1>10, <2>2 DEF AtServerRx
    <3>2. AtServerRx = AtPending + Len(pending)
      BY DEF AtServerRx
    <3>3. \A x, y \in Nat : (x + m) + (y + n - m) = x + y + n
      BY <1>3, <1>11
    <3> QED BY <1>2, <2>1, <3>1, <3>2, <3>3
  <2>4. AtClientTx' = AtClientTx
    <3>1. AtClientTx' = (AtServerRx + n) + (Len(server.rx) - n)
      BY <1>4, <1>12, <2>3 DEF AtClientTx
    <3>2. AtClientTx = AtServerRx + Len(server.rx)
      BY DEF AtClientTx
    <3>3. \A x, y \in Nat : (x + n) + (y - n) = x + y
      BY <1>3
    <3> QED BY <1>2, <2>1, <3>1, <3>2, <3>3
  <2>5. Run(client.tx, round, AtClientTx) /\ AtClientTx + Len(client.tx) = offset
    BY DEF EchoInv, Underway
  <2> QED BY <1>5, <1>9, <1>10, <1>12, <1>13, <1>15, <2>2, <2>3, <2>4, <2>5 DEF Underway
<1>18. Fresh'
  BY <1>12, <1>13 DEF EchoInv, Fresh
<1> QED BY <1>14, <1>16, <1>17, <1>18 DEF EchoInv

\* process of a server without a connection: it forgets the last one, and
\* listens.
LEMMA ServerInactiveKeeps ==
  ASSUME EchoInv, ServerInactive
  PROVE  EchoInv'
<1> USE DEF loopVars
<1>1. /\ client' = client /\ offset' = offset /\ received' = received /\ round' = round
      /\ was' = FALSE
  BY DEF ServerInactive
<1>2. pending' = <<>>
  BY DEF EchoInv, Fresh, ServerInactive, Cleared
<1>3. server' = Listening
  BY DEF EchoInv, Fresh, Types, ServerInactive, is_active, ServerStates
<1>4. Types'
  BY <1>1, <1>2, <1>3, EmptyRun DEF EchoInv, Types, Listening, ServerStates
<1>5. Returned'
  BY <1>1 DEF EchoInv, Returned, AtClient, AtServer, Run
<1>6. Underway'
  BY <1>1, <1>3 DEF EchoInv, Types, Underway, Paired, Listening
<1>7. Fresh'
  BY <1>1, <1>2, <1>3 DEF EchoInv, Types, Fresh, Listening
<1> QED BY <1>4, <1>5, <1>6, <1>7 DEF EchoInv

\* The rest of a round's message.
LEMMA MessageRest ==
  ASSUME NEW r \in Nat, NEW n \in 0..Length
  PROVE  /\ Drop(Message(r), n) \in Seq(Byte) /\ Len(Drop(Message(r), n)) = Length - n
         /\ Run(Drop(Message(r), n), r, n)
<1>0. Length \in Nat /\ n \in Nat
  BY EchoAssumption
<1> DEFINE M == Message(r)
<1>1. M \in Seq(Byte) /\ Len(M) = Length /\ \A i \in 1..Length : M[i] = <<r, i>>
  BY <1>0 DEF Message, Byte
<1> HIDE DEF M
<1>2. \A i \in (n + 1)..Length : M[i] \in Byte
  BY <1>0, <1>1 DEF Byte
<1>3. /\ SubSeq(M, n + 1, Length) \in Seq(Byte)
      /\ Len(SubSeq(M, n + 1, Length)) = Length - n
      /\ \A i \in 1..(Length - n) : SubSeq(M, n + 1, Length)[i] = M[n + i]
  BY <1>0, <1>1, <1>2, SubSeqProperties
<1>4. \A i \in 1..(Length - n) : M[n + i] = <<r, n + i>>
  BY <1>0, <1>1
<1> QED BY <1>1, <1>3, <1>4 DEF Drop, Run, M

\* process of a client that sends: the next bytes of the message follow all the
\* others.
LEMMA ClientSendingKeeps ==
  ASSUME EchoInv, ClientSending, UNCHANGED <<loopVars, server, pending, was>>
  PROVE  EchoInv'
<1> USE DEF loopVars
<1>1. /\ Types /\ BufSize \in Nat /\ client.tx \in Seq(Byte) /\ Len(client.tx) \in Nat
      /\ round \in Nat /\ offset \in 0..Length /\ offset \in Nat /\ Length \in Nat
  BY EchoAssumption DEF EchoInv, Types
<1> DEFINE M == Drop(Message(round), offset)
           out == IF can_send(client) THEN Fits(client, M) ELSE <<>>
           sends == can_send(client)
<1>2. M \in Seq(Byte) /\ Len(M) = Length - offset /\ Run(M, round, offset)
  BY <1>1, MessageRest
<1>3. /\ client' = [client EXCEPT !.tx = @ \o out] /\ offset' = offset + Len(out)
      /\ received' = received /\ round' = round /\ server' = server /\ pending' = pending
      /\ was' = was
  BY DEF ClientSending
<1>4. /\ sends \in BOOLEAN /\ (sends => Len(client.tx) < BufSize)
      /\ client.state = "SynSent" => ~sends
      /\ out = IF sends THEN SubSeq(M, 1, Min({Len(M), BufSize - Len(client.tx)})) ELSE <<>>
  BY DEF can_send, may_send, Fits
<1> HIDE DEF M, out, sends
<1>5. PICK m \in 0..Len(M) : /\ out = SubSeq(M, 1, m) /\ Len(out) = m
                             /\ ~sends => m = 0
  BY <1>1, <1>2, <1>4, SendSlice
<1>6. m \in Nat /\ offset + m \in 0..Length
  BY <1>1, <1>2, <1>5
<1> DEFINE tx == client.tx \o SubSeq(M, 1, m)
<1>7. tx \in Seq(Byte) /\ Len(tx) = Len(client.tx) + m
  BY <1>1, <1>2, <1>5, MoveBytes
<1>8. Paired => Run(tx, round, AtClientTx) /\ AtClientTx + Len(tx) = offset + m
  <2> SUFFICES ASSUME Paired PROVE Run(tx, round, AtClientTx) /\ AtClientTx + Len(tx) = offset + m
    OBVIOUS
  <2>1. AtClientTx \in Nat /\ AtClientTx + Len(client.tx) = offset /\ Run(client.tx, round, AtClientTx)
    BY <1>1, Places DEF EchoInv, Underway
  <2>2. Run(M, round, AtClientTx + Len(client.tx))
    BY <1>2, <2>1
  <2>3. Run(tx, round, AtClientTx)
    BY <1>1, <1>2, <1>5, <2>1, <2>2, MoveRun
  <2>4. \A x, y \in Nat : x + (y + m) = x + y + m
    BY <1>6
  <2>5. AtClientTx + (Len(client.tx) + m) = AtClientTx + Len(client.tx) + m
    BY <1>1, <2>1, <2>4
  <2> HIDE DEF tx
  <2> QED BY <1>7, <2>1, <2>3, <2>5
<1>9. client.state = "SynSent" => m = 0
  BY <1>4, <1>5
<1> HIDE DEF tx
<1>10. client' = [client EXCEPT !.tx = tx] /\ offset' = offset + m
  BY <1>3, <1>5 DEF tx
<1>11. client'.tx = tx /\ client'.rx = client.rx /\ client'.state = client.state
  BY <1>1, <1>10 DEF Types
<1>12. Types'
  BY <1>1, <1>3, <1>6, <1>7, <1>10 DEF Types
<1>13. /\ AtClient' = AtClient /\ AtServer' = AtServer /\ AtPending' = AtPending
       /\ AtServerRx' = AtServerRx /\ AtClientTx' = AtClientTx
  BY <1>3, <1>11 DEF AtClient, AtServer, AtPending, AtServerRx, AtClientTx
<1>14. Returned'
  <2>1. AtServer \in Nat /\ AtServer <= offset /\ Run(received, round, 0) /\ Run(client.rx, round, AtClient)
    BY <1>1, Places DEF EchoInv, Returned
  <2>2. AtServer <= offset + m
    BY <1>1, <1>6, <2>1
  <2> QED BY <1>3, <1>10, <1>11, <1>13, <2>1, <2>2 DEF Returned
<1>15. Underway'
  BY <1>3, <1>8, <1>10, <1>11, <1>13 DEF EchoInv, Underway, Paired
<1>16. Fresh'
  <2>1. ASSUME client.state = "SynSent"
        PROVE  tx = <<>> /\ offset' = 0 /\ client.rx = <<>> /\ received = <<>>
    <3>1. client.rx = <<>> /\ client.tx = <<>> /\ received = <<>> /\ offset = 0
      BY <2>1 DEF EchoInv, Fresh
    <3>2. Len(tx) = 0
      BY <1>7, <1>9, <2>1, <3>1
    <3> QED BY <1>7, <1>9, <1>10, <2>1, <3>1, <3>2, EmptySeq
  <2> QED BY <1>3, <1>11, <2>1 DEF EchoInv, Fresh, Listening
<1> QED BY <1>12, <1>14, <1>15, <1>16 DEF EchoInv

\* process of a client that waits for its echo.
LEMMA ClientReceivingKeeps ==
  ASSUME EchoInv, ClientReceiving, UNCHANGED <<loopVars, server, pending, was>>
  PROVE  EchoInv'
<1> USE DEF loopVars
<1>1. /\ Types /\ client.rx \in Seq(Byte) /\ Len(client.rx) \in Nat /\ round \in Nat
      /\ received \in Seq(Byte) /\ Len(received) \in Nat
  BY DEF EchoInv, Types
<1>2. PICK n \in (IF can_recv(client) THEN 1..Len(client.rx) ELSE {0}) :
        /\ received' = received \o SubSeq(client.rx, 1, n)
        /\ client' = [client EXCEPT !.rx = Drop(@, n)]
  BY DEF ClientReceiving
<1>3. n \in 0..Len(client.rx) /\ n \in Nat
  BY <1>1
<1>4. /\ offset' = offset /\ round' = round /\ server' = server /\ pending' = pending
      /\ was' = was
  BY DEF ClientReceiving
<1> DEFINE u == received \o SubSeq(client.rx, 1, n)
           d == Drop(client.rx, n)
<1>5. /\ u \in Seq(Byte) /\ d \in Seq(Byte)
      /\ Len(u) = Len(received) + n /\ Len(d) = Len(client.rx) - n
  BY <1>1, <1>3, MoveBytes
<1>6. Run(u, round, 0) /\ Run(d, round, Len(received) + n)
  <2>1. Run(received, round, 0) /\ Run(client.rx, round, Len(received))
    BY DEF EchoInv, Returned, AtClient
  <2>2. 0 + Len(received) = Len(received)
    BY <1>1
  <2>3. Run(u, round, 0) /\ Run(d, round, 0 + Len(received) + n)
    BY <1>1, <1>3, <2>1, <2>2, MoveRun
  <2> QED BY <2>2, <2>3
<1> HIDE DEF u, d
<1>7. received' = u /\ client' = [client EXCEPT !.rx = d]
  BY <1>2 DEF u, d
<1>8. client'.rx = d /\ client'.tx = client.tx /\ client'.state = client.state
  BY <1>1, <1>7 DEF Types
<1>9. Types'
  BY <1>1, <1>4, <1>5, <1>7 DEF Types
<1>10. AtClient' = Len(received) + n
  BY <1>5, <1>7 DEF AtClient
<1>11. AtServer' = AtServer
  <2>1. AtServer' = (Len(received) + n) + (Len(client.rx) - n)
    BY <1>5, <1>8, <1>10 DEF AtServer
  <2>2. AtServer = Len(received) + Len(client.rx)
    BY DEF AtServer, AtClient
  <2>3. \A x, y \in Nat : (x + n) + (y - n) = x + y
    BY <1>3
  <2> QED BY <1>1, <2>1, <2>2, <2>3
<1>12. AtPending' = AtPending /\ AtServerRx' = AtServerRx /\ AtClientTx' = AtClientTx
  BY <1>4, <1>11 DEF AtPending, AtServerRx, AtClientTx
<1>13. Returned'
  <2>1. AtServer <= offset
    BY DEF EchoInv, Returned
  <2> QED BY <1>4, <1>6, <1>7, <1>8, <1>10, <1>11, <2>1 DEF Returned
<1>14. Underway'
  BY <1>4, <1>8, <1>11, <1>12 DEF EchoInv, Underway, Paired
<1>15. Fresh'
  <2>1. ASSUME client.state = "SynSent"
        PROVE  u = <<>> /\ d = <<>> /\ client.tx = <<>> /\ offset = 0
    <3>1. client.rx = <<>> /\ client.tx = <<>> /\ received = <<>> /\ offset = 0
      BY <2>1 DEF EchoInv, Fresh
    <3>2. Len(u) = 0 /\ Len(d) = 0
      BY <1>3, <1>5, <3>1
    <3> QED BY <1>5, <3>1, <3>2, EmptySeq
  <2> QED BY <1>4, <1>7, <1>8, <2>1 DEF EchoInv, Fresh, Listening
<1> QED BY <1>9, <1>13, <1>14, <1>15 DEF EchoInv

\* The client's socket is closed, or nothing changes for the buffers.
LEMMA ClientCloses ==
  ASSUME EchoInv, client' = client \/ client' = close(client),
         UNCHANGED <<round, server, appVars>>
          \/ UNCHANGED <<round, server, pending, was, offset, received>>
  PROVE  EchoInv'
<1> USE DEF appVars
<1>1. /\ client'.rx = client.rx /\ client'.tx = client.tx
      /\ client' \in [state : ClientStates, rx : Seq(Byte), tx : Seq(Byte)]
      /\ client'.state = "SynSent" => client.state = "SynSent"
  BY DEF EchoInv, Types, close, ClientStates
<1>2. Types'
  BY <1>1 DEF EchoInv, Types
<1>3. Fresh'
  BY <1>1 DEF EchoInv, Fresh, Listening
<1>4. Paired' => Paired
  BY DEF Paired
<1> QED BY <1>1, <1>2, <1>3, <1>4, NothingMoves DEF EchoInv

\* A new round: a new client, and whatever the server's socket holds is not its.
LEMMA NextRoundKeeps ==
  ASSUME EchoInv, NextRound, UNCHANGED <<server, pending, was>>
  PROVE  EchoInv'
<1>1. CASE round = NumRounds
  BY <1>1, ClientCloses DEF NextRound
<1>2. CASE round # NumRounds
  <2>1. /\ round' = round + 1 /\ client' = NewClient /\ offset' = 0 /\ received' = <<>>
    BY <1>2 DEF NextRound
  <2>2. Types'
    BY <2>1, EmptyRun, EchoAssumption DEF EchoInv, Types, NewClient, ClientStates
  <2>3. Returned'
    BY <2>1, EmptyRun DEF Returned, AtClient, AtServer, NewClient
  <2>4. Underway' /\ server'.peer <= round'
    BY <2>1 DEF EchoInv, Types, Fresh, Underway, Paired
  <2>5. Fresh'
    BY <2>1, <2>4 DEF EchoInv, Fresh, NewClient, Listening
  <2> QED BY <2>2, <2>3, <2>4, <2>5 DEF EchoInv
<1> QED BY <1>1, <1>2

\* Every step keeps the invariant.
LEMMA EchoNext == EchoInv /\ [Next]_vars => EchoInv'
<1> SUFFICES ASSUME EchoInv, [Next]_vars PROVE EchoInv'
  OBVIOUS
<1>1. CASE Net
  BY <1>1, StateSegments, DataToServer, DataToClient DEF Net
<1>2. CASE ServerProcess \/ run_echo_server
  BY <1>2, ServerActiveKeeps, ServerInactiveKeeps DEF ServerProcess, run_echo_server
<1>3. CASE ClientProcess
  <2>1. CASE ClientConnecting \/ ClientIdle
    BY <1>3, <2>1, ClientCloses DEF ClientProcess, ClientConnecting, ClientIdle, loopVars
  <2> QED BY <1>3, <2>1, ClientSendingKeeps, ClientReceivingKeeps DEF ClientProcess
<1>4. CASE EndPoll \/ EchoLoop \/ EchoTimeout \/ setup_ctrlc_handler \/ UNCHANGED vars
  BY <1>4, ClientCloses
     DEF EndPoll, EchoLoop, EchoTimeout, setup_ctrlc_handler, vars, loopVars, appVars
<1>5. CASE CloseLoop
  <2>1. CASE NextRound
    BY <1>5, <2>1, NextRoundKeeps DEF CloseLoop
  <2>2. CASE ~NextRound
    BY <1>5, <2>2, ClientCloses DEF CloseLoop
  <2> QED BY <2>1, <2>2
<1>6. CASE CloseTimeout
  BY <1>6, NextRoundKeeps DEF CloseTimeout
<1> QED BY <1>1, <1>2, <1>3, <1>4, <1>5, <1>6 DEF Next, Loop

\* What the client has received is a prefix of its message.
LEMMA EchoInvMeans == EchoInv => EchoExact
<1> SUFFICES ASSUME EchoInv PROVE EchoExact
  OBVIOUS
<1> DEFINE n == Len(received)
           M == Message(round)
<1>1. /\ received \in Seq(Byte) /\ n \in Nat /\ Length \in Nat /\ round \in Nat /\ n <= Length
      /\ \A i \in 1..n : received[i] = <<round, 0 + i>>
  <2>1. /\ received \in Seq(Byte) /\ n \in Nat /\ Length \in Nat /\ round \in Nat
        /\ offset \in 0..Length
    BY EchoAssumption DEF EchoInv, Types
  <2>2. AtClient <= AtServer /\ AtServer <= offset /\ AtClient = n /\ AtServer \in Nat
    BY Places DEF EchoInv, Returned, AtClient
  <2>3. \A i \in 1..n : received[i] = <<round, 0 + i>>
    BY DEF EchoInv, Returned, Run
  <2> QED BY <2>1, <2>2, <2>3
<1>2. M \in Seq(Byte) /\ Len(M) = Length /\ \A i \in 1..Length : M[i] = <<round, i>>
  BY <1>1 DEF Message, Byte
<1> HIDE DEF n, M
<1>3. \A i \in 1..n : received[i] = M[i]
  <2>1. \A i \in 1..n : i \in 1..Length /\ 0 + i = i
    BY <1>1
  <2> QED BY <1>1, <1>2, <2>1
<1> QED BY <1>1, <1>2, <1>3 DEF EchoExact, IsPrefix, n, M

\* For every message, buffer size and number of rounds, and wherever the two
\* timeouts cut a round off: a client receives its own bytes, in order, none
\* twice and none of an earlier connection.
THEOREM EchoIsExact == Spec => []EchoExact
<1> QED BY EchoInit, EchoNext, EchoInvMeans, PTL DEF Spec
=============================================================================
