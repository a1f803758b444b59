--------------------------- MODULE StreamIoProofs ---------------------------
(***************************************************************************)
(* Proofs about StreamIo, for buffers of any size and any number of bytes: *)
(* no byte is lost, repeated or moved between the peer and the task, no    *)
(* wake-up is lost, and a completed flush means delivery.                  *)
(***************************************************************************)
EXTENDS StreamIo, SequenceTheorems, TLAPS

\* The smaller of two numbers.
LEMMA MinOfTwo ==
  ASSUME NEW a \in Int, NEW b \in Int
  PROVE  Min({a, b}) = IF a <= b THEN a ELSE b
BY DEF Min

\* A sequence cut in two is the concatenation of its parts.
LEMMA SplitSeq ==
  ASSUME NEW S, NEW s \in Seq(S), NEW n \in 0..Len(s)
  PROVE  /\ SubSeq(s, 1, n) \in Seq(S) /\ SubSeq(s, n + 1, Len(s)) \in Seq(S)
         /\ Len(SubSeq(s, 1, n)) = n /\ Len(SubSeq(s, n + 1, Len(s))) = Len(s) - n
         /\ SubSeq(s, 1, n) \o SubSeq(s, n + 1, Len(s)) = s
<1>0. /\ Len(s) \in Nat
      /\ 1 \in 1..(Len(s) + 1) /\ n \in (1 - 1)..Len(s) /\ Len(s) \in n..Len(s)
  OBVIOUS
<1>1. SubSeq(s, 1, n) \o SubSeq(s, n + 1, Len(s)) = SubSeq(s, 1, Len(s))
  BY <1>0, ConcatAdjacentSubSeq
<1>2. \A i \in 1..Len(s) : s[i] \in S
  BY ElementOfSeq
<1>3. SubSeq(s, 1, n) \in Seq(S) /\ Len(SubSeq(s, 1, n)) = n
  BY <1>2, SubSeqProperties
<1>4. SubSeq(s, n + 1, Len(s)) \in Seq(S) /\ Len(SubSeq(s, n + 1, Len(s))) = Len(s) - n
  BY <1>2, SubSeqProperties
<1> QED BY <1>1, <1>3, <1>4, SubSeqFull

\* What makes a sequence the concatenation of two others.
LEMMA ConcatIs ==
  ASSUME NEW S, NEW s \in Seq(S), NEW t \in Seq(S), NEW u \in Seq(S),
         Len(u) = Len(s) + Len(t),
         \A i \in 1..Len(s) : u[i] = s[i],
         \A i \in 1..Len(t) : u[Len(s) + i] = t[i]
  PROVE  s \o t = u
<1>1. /\ s \o t \in Seq(S) /\ Len(s \o t) = Len(u)
      /\ \A i \in 1..Len(u) : (s \o t)[i] = IF i <= Len(s) THEN s[i] ELSE t[i - Len(s)]
  BY ConcatProperties
<1>2. ASSUME NEW i \in 1..Len(u) PROVE (s \o t)[i] = u[i]
  <2>1. CASE i <= Len(s)
    BY <1>1, <2>1
  <2>2. CASE i > Len(s)
    <3>1. i - Len(s) \in 1..Len(t) /\ Len(s) + (i - Len(s)) = i
      BY <2>2
    <3> QED BY <1>1, <2>2, <3>1
  <2> QED BY <2>1, <2>2
<1> QED BY <1>1, <1>2, SeqEqual

\* The bytes up to m and the n bytes after them are the bytes up to m + n.
LEMMA BytesGrow ==
  ASSUME NEW m \in Nat, NEW n \in Nat
  PROVE  /\ Bytes(m) \o [i \in 1..n |-> m + i] = Bytes(m + n)
         /\ [i \in 1..n |-> m + i] \in Seq(1..(m + n))
         /\ Len([i \in 1..n |-> m + i]) = n
<1> DEFINE t == [i \in 1..n |-> m + i]
<1>1. t \in Seq(1..(m + n)) /\ Len(t) = n /\ \A i \in 1..n : t[i] = m + i
  OBVIOUS
<1>2. Bytes(m) \in Seq(1..(m + n)) /\ Len(Bytes(m)) = m /\ \A i \in 1..m : Bytes(m)[i] = i
  BY DEF Bytes
<1>3. /\ Bytes(m + n) \in Seq(1..(m + n)) /\ Len(Bytes(m + n)) = m + n
      /\ \A i \in 1..(m + n) : Bytes(m + n)[i] = i
  BY DEF Bytes
<1> HIDE DEF t
<1>4. Bytes(m) \o t = Bytes(m + n)
  <2>1. \A i \in 1..Len(Bytes(m)) : Bytes(m + n)[i] = Bytes(m)[i]
    BY <1>2, <1>3
  <2>2. \A i \in 1..Len(t) : Bytes(m + n)[Len(Bytes(m)) + i] = t[i]
    BY <1>1, <1>2, <1>3
  <2> DEFINE S == 1..(m + n)
  <2>3. Bytes(m) \in Seq(S) /\ t \in Seq(S) /\ Bytes(m + n) \in Seq(S)
    BY <1>1, <1>2, <1>3
  <2>4. Len(Bytes(m + n)) = Len(Bytes(m)) + Len(t)
    BY <1>1, <1>2, <1>3
  <2> HIDE DEF S
  <2> QED BY <2>1, <2>2, <2>3, <2>4, ConcatIs
<1> QED BY <1>1, <1>4 DEF t

-----------------------------------------------------------------------------
(* The inductive invariant *)

\* Where the task is in its slice; a task that gives up its stream does not sleep.
TaskInv ==
  /\ pc \in {"send", "write"} => offset < Len(data)
  /\ pc \in {"read", "flush", "shutdown"} => offset = Len(data)
  /\ pc \in {"drop", "done"} => ~waiting

StreamInv == TypeOK /\ TaskInv /\ NoLostWakeup /\ FlushMeansDelivered /\ EchoInOrder

\* A stream just accepted has sent and received nothing.
LEMMA StreamInit == Init => StreamInv
<1> SUFFICES ASSUME Init PROVE StreamInv
  OBVIOUS
<1>1. TypeOK
  <2>1. <<>> \in Seq(1..MaxBytes) /\ Len(<<>>) = 0
    BY EmptySeq
  <2>2. 0 \in 0..MaxBytes /\ 0 \in 0..0 /\ 0 <= RxCap /\ 0 <= TxCap /\ 0 <= BufSize
    BY StreamAssumption
  <2> QED BY <2>1, <2>2 DEF Init, TypeOK
<1>2. TaskInv
  BY DEF Init, TaskInv
<1>3. NoLostWakeup
  BY DEF Init, NoLostWakeup
<1>4. Unsent = <<>>
  BY SubSeqEmpty DEF Init, Unsent
<1>5. FlushMeansDelivered
  BY <1>4 DEF Init, FlushMeansDelivered
<1>6. EchoInOrder
  <2>1. Bytes(0) = <<>>
    BY DEF Bytes
  <2>2. <<>> \o <<>> \o <<>> \o <<>> = <<>>
    BY ConcatEmptySeq
  <2> QED BY <1>4, <2>1, <2>2 DEF Init, EchoInOrder
<1> QED BY <1>1, <1>2, <1>3, <1>5, <1>6 DEF StreamInv

\* What is unsent is a sequence of bytes, empty when the slice is used up.
LEMMA UnsentBytes ==
  ASSUME TypeOK
  PROVE  /\ Unsent \in Seq(1..MaxBytes) /\ Len(Unsent) = Len(data) - offset
         /\ offset = Len(data) => Unsent = <<>>
<1>1. data \in Seq(1..MaxBytes) /\ offset \in 0..Len(data)
  BY DEF TypeOK
<1>2. offset = Len(data) => Unsent = <<>>
  BY <1>1, SubSeqEmpty DEF Unsent
<1> QED BY <1>1, <1>2, SplitSeq DEF Unsent

\* New bytes from the peer are appended behind everything that is under way.
LEMMA PeerSendsInv == StreamInv /\ PeerSends => StreamInv'
<1> SUFFICES ASSUME StreamInv, PeerSends PROVE StreamInv'
  OBVIOUS
<1> DEFINE B == 1..MaxBytes
<1>0. TypeOK /\ MaxBytes \in Nat /\ RxCap \in Nat
  BY StreamAssumption DEF StreamInv
<1>1. PICK n \in Nat :
        /\ n > 0 /\ n <= RxCap - Len(rx_buffer) /\ n <= MaxBytes - peer_sent
        /\ peer_sent' = peer_sent + n
        /\ rx_buffer' = rx_buffer \o [i \in 1..n |-> peer_sent + i]
  <2> DEFINE a == RxCap - Len(rx_buffer)
             b == MaxBytes - peer_sent
  <2>1. a \in Int /\ b \in Int
    BY <1>0 DEF TypeOK
  <2>2. Min({a, b}) = IF a <= b THEN a ELSE b
    BY <2>1, MinOfTwo
  <2> HIDE DEF a, b
  <2>3. \A n \in 1..Min({a, b}) : n \in Nat /\ n > 0 /\ n <= a /\ n <= b
    BY <2>1, <2>2
  <2> QED BY <2>3 DEF PeerSends, a, b
<1> DEFINE new == [i \in 1..n |-> peer_sent + i]
<1>3. new \in Seq(B) /\ Len(new) = n /\ Bytes(peer_sent) \o new = Bytes(peer_sent + n)
  <2>1. peer_sent \in Nat /\ n \in Nat /\ 1..(peer_sent + n) \subseteq B
    BY <1>0, <1>1 DEF TypeOK
  <2>2. new \in Seq(1..(peer_sent + n)) /\ Len(new) = n /\ Bytes(peer_sent) \o new = Bytes(peer_sent + n)
    BY <2>1, BytesGrow
  <2> HIDE DEF new
  <2> QED BY <2>1, <2>2, SeqMonotonic
<1> HIDE DEF new
<1>4. /\ UNCHANGED <<state, tx_buffer, got, reset, handler, pc, data, offset, send_waker>>
      /\ Unsent' = Unsent
      /\ recv_waker' = FALSE /\ waiting' = (waiting /\ ~recv_waker)
      /\ rx_buffer' = rx_buffer \o new /\ peer_sent' = peer_sent + n
  BY <1>1 DEF PeerSends, WakeRecv, Unsent, new
<1>5. /\ rx_buffer' \in Seq(B) /\ Len(rx_buffer') = Len(rx_buffer) + n
  BY <1>0, <1>3, <1>4, ConcatProperties DEF TypeOK
<1>6. TypeOK'
  <2>1. waiting' \in BOOLEAN /\ recv_waker' \in BOOLEAN
    BY <1>4
  <2>2. peer_sent' \in 0..MaxBytes /\ Len(rx_buffer') <= RxCap
    BY <1>0, <1>1, <1>4, <1>5 DEF TypeOK
  <2> QED BY <1>0, <1>4, <1>5, <2>1, <2>2 DEF TypeOK
<1>7. TaskInv' /\ FlushMeansDelivered'
  BY <1>0, <1>4 DEF StreamInv, TypeOK, TaskInv, FlushMeansDelivered
<1>8. NoLostWakeup'
  BY <1>0, <1>4 DEF StreamInv, TypeOK, NoLostWakeup, MaySend
<1>9. EchoInOrder'
  <2>1. /\ got \in Seq(B) /\ tx_buffer \in Seq(B) /\ rx_buffer \in Seq(B)
        /\ Unsent \in Seq(B) /\ new \in Seq(B)
    BY <1>0, <1>3, UnsentBytes DEF TypeOK
  <2> DEFINE before == got \o tx_buffer \o Unsent
  <2>2. before \in Seq(B)
    BY <2>1, ConcatProperties
  <2> HIDE DEF B, before
  <2>3. (before \o rx_buffer) \o new = before \o (rx_buffer \o new)
    BY <2>1, <2>2, ConcatAssociative, SMTT(30)
  <2> QED BY <1>3, <1>4, <2>3 DEF StreamInv, EchoInOrder, before
<1> QED BY <1>6, <1>7, <1>8, <1>9 DEF StreamInv

\* Acknowledged bytes go from tx_buffer to the peer; a sender that waits is woken.
LEMMA PeerAcksInv == StreamInv /\ PeerAcks => StreamInv'
<1> SUFFICES ASSUME StreamInv, PeerAcks PROVE StreamInv'
  OBVIOUS
<1> DEFINE B == 1..MaxBytes
<1>0. TypeOK
  BY DEF StreamInv
<1>1. PICK n \in 1..Len(tx_buffer) :
        /\ got' = got \o SubSeq(tx_buffer, 1, n)
        /\ tx_buffer' = SubSeq(tx_buffer, n + 1, Len(tx_buffer))
  BY DEF PeerAcks
<1>2. /\ UNCHANGED <<state, rx_buffer, peer_sent, reset, handler, pc, data, offset, recv_waker>>
      /\ Unsent' = Unsent
      /\ send_waker' = FALSE /\ waiting' = (waiting /\ ~send_waker)
  BY DEF PeerAcks, WakeSend, Unsent
<1> DEFINE p == SubSeq(tx_buffer, 1, n)
<1>3. /\ p \in Seq(B) /\ tx_buffer' \in Seq(B) /\ p \o tx_buffer' = tx_buffer
      /\ Len(tx_buffer') = Len(tx_buffer) - n
  <2>1. tx_buffer \in Seq(B) /\ n \in 0..Len(tx_buffer)
    BY <1>0 DEF TypeOK
  <2> QED BY <1>1, <2>1, SplitSeq
<1>4. got \in Seq(B) /\ got' = got \o p
  BY <1>0, <1>1 DEF TypeOK
<1> HIDE DEF B, p
<1>5. got' \in Seq(B)
  BY <1>3, <1>4, ConcatProperties
<1>6. TypeOK'
  <2>1. waiting' \in BOOLEAN /\ send_waker' \in BOOLEAN
    BY <1>2
  <2>2. Len(tx_buffer') <= TxCap
    BY <1>0, <1>3, StreamAssumption DEF TypeOK
  <2> QED BY <1>0, <1>2, <1>3, <1>5, <2>1, <2>2 DEF TypeOK, B
<1>7. TaskInv'
  BY <1>0, <1>2 DEF StreamInv, TypeOK, TaskInv
<1>8. FlushMeansDelivered'
  <2>1. tx_buffer # <<>>
    BY <1>0 DEF TypeOK
  <2> QED BY <1>2, <2>1 DEF StreamInv, FlushMeansDelivered
<1>9. NoLostWakeup'
  BY <1>0, <1>2 DEF StreamInv, TypeOK, NoLostWakeup, MayRecv
<1>10. EchoInOrder'
  <2>0. got \in Seq(B) /\ p \in Seq(B) /\ tx_buffer' \in Seq(B)
    BY <1>3, <1>4
  <2>1. (got \o p) \o tx_buffer' = got \o (p \o tx_buffer')
    BY <2>0, ConcatAssociative
  <2>2. got' \o tx_buffer' = got \o tx_buffer
    BY <1>3, <1>4, <2>1
  <2>3. UNCHANGED <<rx_buffer, peer_sent>> /\ Unsent' = Unsent
    BY <1>2
  <2> QED BY <2>2, <2>3 DEF StreamInv, EchoInOrder
<1> QED BY <1>6, <1>7, <1>8, <1>9, <1>10 DEF StreamInv

\* A change of the connection's state moves no byte and wakes whoever is registered.
LEMMA PeerStateInv == StreamInv /\ (PeerFin \/ PeerAcksFin \/ PeerResets) => StreamInv'
<1> SUFFICES ASSUME StreamInv, PeerFin \/ PeerAcksFin \/ PeerResets PROVE StreamInv'
  OBVIOUS
<1>0. TypeOK
  BY DEF StreamInv
<1>1. /\ UNCHANGED <<rx_buffer, tx_buffer, peer_sent, got, handler, pc, data, offset>>
      /\ Unsent' = Unsent
      /\ recv_waker' = FALSE /\ send_waker' = FALSE
      /\ waiting' = (waiting /\ ~recv_waker /\ ~send_waker)
  BY DEF PeerFin, PeerAcksFin, PeerResets, set_state, peer_vars, Unsent
<1>2. state' \in {"CloseWait", "FinWait2", "Closing", "TimeWait", "Closed"} /\ reset' \in BOOLEAN
  <2>1. CASE PeerFin
    BY <1>0, <2>1 DEF PeerFin, set_state, peer_vars, TypeOK
  <2>2. CASE PeerAcksFin
    BY <1>0, <2>2 DEF PeerAcksFin, set_state, peer_vars, TypeOK
  <2>3. CASE PeerResets
    BY <1>0, <2>3 DEF PeerResets, set_state
  <2> QED BY <2>1, <2>2, <2>3
<1>3. ~waiting'
  BY <1>0, <1>1 DEF StreamInv, TypeOK, NoLostWakeup
<1>4. TypeOK'
  BY <1>0, <1>1, <1>2, <1>3 DEF TypeOK, ClosingStates, Dead
<1>5. TaskInv' /\ FlushMeansDelivered' /\ NoLostWakeup' /\ EchoInOrder'
  BY <1>1, <1>3 DEF StreamInv, TaskInv, FlushMeansDelivered, NoLostWakeup, EchoInOrder
<1> QED BY <1>4, <1>5 DEF StreamInv

\* recv takes the first bytes of rx_buffer as the new slice; with nothing to take it
\* registers, or learns that the stream has ended.
LEMMA RecvInv == StreamInv /\ (PollRecv \/ poll_read) => StreamInv'
<1> SUFFICES ASSUME StreamInv, PollRecv \/ poll_read PROVE StreamInv'
  OBVIOUS
<1> DEFINE B == 1..MaxBytes
           n == Min({BufSize, Len(rx_buffer)})
<1>0. TypeOK /\ BufSize \in Nat \ {0}
  BY StreamAssumption DEF StreamInv
<1>1. /\ UNCHANGED <<state, tx_buffer, peer_sent, got, reset, handler>>
      /\ pc = "read" /\ ~waiting
  BY DEF PollRecv, poll_read, Poll, peer_vars
<1>2. offset = Len(data) /\ Unsent = <<>>
  BY <1>0, <1>1, UnsentBytes DEF StreamInv, TaskInv
<1>3. n \in 0..Len(rx_buffer) /\ n <= BufSize /\ (n = 0 => rx_buffer = <<>>)
  <2>1. Len(rx_buffer) \in Nat /\ (Len(rx_buffer) = 0 => rx_buffer = <<>>)
    BY <1>0 DEF TypeOK
  <2>2. n = IF BufSize <= Len(rx_buffer) THEN BufSize ELSE Len(rx_buffer)
    BY <1>0, <2>1, MinOfTwo
  <2> QED BY <1>0, <2>1, <2>2
<1> HIDE DEF n
<1>4. CASE /\ n > 0
           /\ data' = SubSeq(rx_buffer, 1, n) /\ offset' = 0
           /\ rx_buffer' = SubSeq(rx_buffer, n + 1, Len(rx_buffer))
           /\ pc' \in {"send", "write"}
           /\ UNCHANGED <<recv_waker, send_waker, waiting>>
  <2>1. /\ data' \in Seq(B) /\ rx_buffer' \in Seq(B) /\ data' \o rx_buffer' = rx_buffer
        /\ Len(data') = n /\ Len(rx_buffer') = Len(rx_buffer) - n
    <3> DEFINE p == SubSeq(rx_buffer, 1, n)
               r == SubSeq(rx_buffer, n + 1, Len(rx_buffer))
    <3>1. rx_buffer \in Seq(B) /\ n \in 0..Len(rx_buffer)
      BY <1>0, <1>3 DEF TypeOK
    <3>2. /\ p \in Seq(B) /\ r \in Seq(B) /\ p \o r = rx_buffer
          /\ Len(p) = n /\ Len(r) = Len(rx_buffer) - n
      BY <3>1, SplitSeq
    <3> HIDE DEF p, r
    <3>3. data' = p /\ rx_buffer' = r
      BY <1>4 DEF p, r
    <3> QED BY <3>2, <3>3
  <2>2. Unsent' = data'
    <3>1. SubSeq(data', 1, Len(data')) = data'
      BY <2>1, SubSeqFull
    <3>2. offset' + 1 = 1
      BY <1>4
    <3>3. Unsent' = SubSeq(data', offset' + 1, Len(data'))
      BY DEF Unsent
    <3> QED BY <3>1, <3>2, <3>3
  <2>3. Len(data') <= BufSize /\ Len(rx_buffer') <= RxCap /\ 0 \in 0..Len(data') /\ 0 < Len(data')
    BY <1>0, <1>3, <1>4, <2>1, StreamAssumption DEF TypeOK
  <2>4. TypeOK'
    BY <1>0, <1>1, <1>4, <2>1, <2>3 DEF TypeOK
  <2>5. TaskInv' /\ FlushMeansDelivered' /\ NoLostWakeup'
    BY <1>1, <1>4, <2>3 DEF TaskInv, FlushMeansDelivered, NoLostWakeup
  <2>6. EchoInOrder'
    <3> DEFINE before == got \o tx_buffer
    <3>1. got \in Seq(B) /\ tx_buffer \in Seq(B) /\ data' \in Seq(B) /\ rx_buffer' \in Seq(B)
      BY <1>0, <2>1 DEF TypeOK
    <3>2. before \in Seq(B)
      BY <3>1, ConcatProperties
    <3> HIDE DEF before, B
    <3>3. (before \o data') \o rx_buffer' = before \o (data' \o rx_buffer')
      BY <3>1, <3>2, ConcatAssociative, SMTT(30)
    <3>4. before \o <<>> = before
      BY <3>2, ConcatEmptySeq
    <3>5. (before \o data') \o rx_buffer' = (before \o Unsent) \o rx_buffer
      BY <1>2, <2>1, <3>3, <3>4
    <3>6. before' = before /\ peer_sent' = peer_sent
      BY <1>1 DEF before
    <3> QED BY <2>2, <3>5, <3>6 DEF StreamInv, EchoInOrder, before
  <2> QED BY <2>4, <2>5, <2>6 DEF StreamInv
<1>5. ASSUME UNCHANGED <<rx_buffer, data, offset>>
      PROVE  Unsent' = Unsent /\ EchoInOrder'
  BY <1>1, <1>5 DEF StreamInv, EchoInOrder, Unsent
<1>6. CASE /\ n = 0 /\ MayRecv
           /\ PendingRecv
           /\ UNCHANGED <<rx_buffer, data, offset, pc>>
  <2>1. TypeOK'
    BY <1>0, <1>1, <1>6 DEF TypeOK, PendingRecv
  <2>2. TaskInv' /\ FlushMeansDelivered'
    BY <1>1, <1>5, <1>6 DEF StreamInv, TaskInv, FlushMeansDelivered
  <2>3. NoLostWakeup'
    BY <1>1, <1>3, <1>6 DEF NoLostWakeup, PendingRecv, MayRecv
  <2> QED BY <1>5, <1>6, <2>1, <2>2, <2>3 DEF StreamInv
<1>7. CASE /\ pc' = "close" \/ (handler = "tokio" /\ pc' \in {"shutdown", "drop"})
           /\ UNCHANGED <<rx_buffer, data, offset, recv_waker, send_waker, waiting>>
  <2>1. TypeOK'
    BY <1>0, <1>1, <1>7 DEF TypeOK
  <2>2. TaskInv' /\ NoLostWakeup'
    BY <1>1, <1>2, <1>7 DEF TaskInv, NoLostWakeup
  <2>3. FlushMeansDelivered'
    BY <1>1, <1>2, <1>5, <1>7 DEF StreamInv, FlushMeansDelivered
  <2> QED BY <1>5, <1>7, <2>1, <2>2, <2>3 DEF StreamInv
<1>8. CASE PollRecv
  BY <1>4, <1>6, <1>7, <1>8 DEF PollRecv, recv_slice, waker_vars, n
<1>9. CASE poll_read
  BY <1>4, <1>6, <1>7, <1>9 DEF poll_read, Poll, recv_slice, waker_vars, n
<1> QED BY <1>8, <1>9

\* Concatenation as an operator of its own: its laws are used, not its definition.
Cat(a, b) == a \o b

\* The concatenation of two sequences is one, and as long as both.
LEMMA CatSeq ==
  ASSUME NEW S, NEW a \in Seq(S), NEW b \in Seq(S)
  PROVE  Cat(a, b) \in Seq(S) /\ Len(Cat(a, b)) = Len(a) + Len(b)
BY ConcatProperties DEF Cat

\* Concatenation is associative.
LEMMA CatAssociative ==
  ASSUME NEW S, NEW a \in Seq(S), NEW b \in Seq(S), NEW c \in Seq(S)
  PROVE  Cat(Cat(a, b), c) = Cat(a, Cat(b, c))
BY ConcatAssociative DEF Cat

\* Bytes that move from the third of four sequences to the second.
LEMMA Regroup ==
  ASSUME NEW S, NEW a \in Seq(S), NEW b \in Seq(S), NEW p \in Seq(S), NEW c \in Seq(S)
  PROVE  Cat(Cat(a, Cat(b, p)), c) = Cat(Cat(a, b), Cat(p, c))
BY CatAssociative, CatSeq

\* How much send_slice can enqueue: the room in tx_buffer or the rest of the slice.
LEMMA SendRoom ==
  ASSUME TypeOK
  PROVE  LET n == Min({TxCap - Len(tx_buffer), Len(data) - offset})
         IN  /\ n \in Nat /\ Len(tx_buffer) + n <= TxCap /\ offset + n <= Len(data)
             /\ Len(tx_buffer) + n = TxCap \/ offset + n = Len(data)
<1> DEFINE a == TxCap - Len(tx_buffer)
           b == Len(data) - offset
           n == Min({a, b})
<1>1. /\ a \in Nat /\ b \in Nat /\ offset \in Nat /\ TxCap \in Nat
      /\ Len(tx_buffer) \in Nat /\ Len(data) \in Nat
      /\ a = TxCap - Len(tx_buffer) /\ b = Len(data) - offset
  BY StreamAssumption DEF TypeOK
<1>2. n = IF a <= b THEN a ELSE b
  BY <1>1, MinOfTwo
<1> HIDE DEF a, b, n
<1>3. n \in Nat /\ n <= a /\ n <= b /\ (n = a \/ n = b)
  BY <1>1, <1>2
<1>4. /\ Len(tx_buffer) + n <= TxCap /\ offset + n <= Len(data)
      /\ Len(tx_buffer) + n = TxCap \/ offset + n = Len(data)
  BY <1>1, <1>3
<1> QED BY <1>3, <1>4 DEF n, a, b

\* The bytes one call of send_slice takes off the slice.
LEMMA SendSlice ==
  ASSUME TypeOK, NEW n \in Nat, offset + n <= Len(data)
  PROVE  LET p == SubSeq(data, offset + 1, offset + n)
             rest == SubSeq(data, (offset + n) + 1, Len(data))
         IN  /\ p \in Seq(1..MaxBytes) /\ Len(p) = n
             /\ got \o (tx_buffer \o p) \o rest = got \o tx_buffer \o Unsent
<1> DEFINE m == offset + 1
           k == offset + n
           B == 1..MaxBytes
<1>1. offset \in Nat /\ Len(data) \in Nat
  BY DEF TypeOK
<1>2. /\ k \in 0..Len(data) /\ m \in Int /\ k \in Int
      /\ m \in 1..(Len(data) + 1) /\ k \in (m - 1)..Len(data) /\ Len(data) \in k..Len(data)
  BY <1>1
<1>3. (IF m <= k THEN k - m + 1 ELSE 0) = n
  BY <1>1
<1>4. m..k \subseteq 1..Len(data)
  BY <1>1
<1> HIDE DEF m, k, B
<1>5. data \in Seq(B) /\ \A i \in 1..Len(data) : data[i] \in B
  BY ElementOfSeq DEF TypeOK, B
<1>6. SubSeq(data, m, k) \in Seq(B) /\ Len(SubSeq(data, m, k)) = n
  <2>1. \A i \in m..k : data[i] \in B
    BY <1>4, <1>5
  <2>2. /\ SubSeq(data, m, k) \in Seq(B)
        /\ Len(SubSeq(data, m, k)) = IF m <= k THEN k - m + 1 ELSE 0
    BY <1>2, <2>1, SubSeqProperties
  <2> QED BY <1>3, <2>2
<1>7. SubSeq(data, k + 1, Len(data)) \in Seq(B)
  BY <1>2, <1>5, SplitSeq
<1>8. SubSeq(data, m, k) \o SubSeq(data, k + 1, Len(data)) = SubSeq(data, m, Len(data))
  BY <1>2, <1>5, ConcatAdjacentSubSeq
<1> DEFINE p == SubSeq(data, m, k)
           rest == SubSeq(data, k + 1, Len(data))
<1>9. Cat(Cat(got, Cat(tx_buffer, p)), rest) = Cat(Cat(got, tx_buffer), Cat(p, rest))
  <2>1. got \in Seq(B) /\ tx_buffer \in Seq(B) /\ p \in Seq(B) /\ rest \in Seq(B)
    BY <1>6, <1>7 DEF TypeOK, B
  <2> HIDE DEF p, rest
  <2> QED BY <2>1, Regroup
<1> QED BY <1>6, <1>8, <1>9 DEF Unsent, Cat, m, k, B

\* Bytes that send_slice enqueues go from the slice to the end of tx_buffer.
LEMMA Enqueue ==
  ASSUME TypeOK, EchoInOrder, NEW n \in Nat, offset + n <= Len(data),
         tx_buffer' = tx_buffer \o SubSeq(data, offset + 1, offset + n),
         offset' = offset + n,
         UNCHANGED <<rx_buffer, data, peer_sent, got>>
  PROVE  /\ tx_buffer' \in Seq(1..MaxBytes) /\ Len(tx_buffer') = Len(tx_buffer) + n
         /\ offset' \in 0..Len(data) /\ EchoInOrder'
<1> DEFINE B == 1..MaxBytes
           p == SubSeq(data, offset + 1, offset + n)
           rest == SubSeq(data, (offset + n) + 1, Len(data))
<1>1. p \in Seq(B) /\ Len(p) = n /\ got \o (tx_buffer \o p) \o rest = got \o tx_buffer \o Unsent
  BY SendSlice
<1>2. offset' \in 0..Len(data)
  BY DEF TypeOK
<1>3. Unsent' = rest
  BY DEF Unsent
<1>4. tx_buffer' = tx_buffer \o p /\ tx_buffer \in Seq(B)
  BY DEF TypeOK
<1> HIDE DEF B, p, rest
<1>5. tx_buffer' \in Seq(B) /\ Len(tx_buffer') = Len(tx_buffer) + n
  <2>1. Cat(tx_buffer, p) \in Seq(B) /\ Len(Cat(tx_buffer, p)) = Len(tx_buffer) + Len(p)
    BY <1>1, <1>4, CatSeq
  <2> QED BY <1>1, <1>4, <2>1 DEF Cat
<1>6. got' \o tx_buffer' \o Unsent' = got \o tx_buffer \o Unsent
  BY <1>1, <1>3, <1>4
<1> QED BY <1>2, <1>5, <1>6 DEF EchoInOrder, B

\* send and write_all: whoever waits has filled tx_buffer, so that an
\* acknowledgement wakes it.
LEMMA SendInv == StreamInv /\ (PollSend \/ poll_write) => StreamInv'
<1> SUFFICES ASSUME StreamInv, PollSend \/ poll_write PROVE StreamInv'
  OBVIOUS
<1> DEFINE n == Min({TxCap - Len(tx_buffer), Len(data) - offset})
<1>0. TypeOK /\ TxCap \in Nat \ {0}
  BY StreamAssumption DEF StreamInv
<1>1. /\ UNCHANGED <<state, rx_buffer, peer_sent, got, reset, handler, data>>
      /\ pc \in {"send", "write"} /\ ~waiting
  BY DEF PollSend, poll_write, Poll, peer_vars
<1>2. /\ n \in Nat /\ Len(tx_buffer) + n <= TxCap /\ offset + n <= Len(data)
      /\ Len(tx_buffer) + n = TxCap \/ offset + n = Len(data)
  BY <1>0, SendRoom
<1>3. offset < Len(data) /\ offset \in Nat /\ Len(data) \in Nat /\ Len(tx_buffer) \in Nat
  BY <1>0, <1>1 DEF StreamInv, TaskInv, TypeOK
<1> HIDE DEF n
<1>4. ASSUME tx_buffer' = tx_buffer \o SubSeq(data, offset + 1, offset + n),
             offset' = offset + n
      PROVE  /\ tx_buffer' \in Seq(1..MaxBytes) /\ Len(tx_buffer') = Len(tx_buffer) + n
             /\ offset' \in 0..Len(data) /\ EchoInOrder'
  BY <1>0, <1>1, <1>2, <1>4, Enqueue DEF StreamInv
<1>5. CASE /\ tx_buffer' = tx_buffer \o SubSeq(data, offset + 1, offset + n)
           /\ offset' = offset + n
           /\ \/ pc' \in {"read", "flush"} /\ offset' >= Len(data)
                 /\ (pc' = "read" => handler = "echo")
              \/ pc' \in {"send", "write"} /\ offset' < Len(data)
           /\ UNCHANGED <<recv_waker, send_waker, waiting>>
  <2>1. TypeOK'
    BY <1>0, <1>1, <1>2, <1>4, <1>5 DEF TypeOK
  <2>2. TaskInv' /\ NoLostWakeup'
    BY <1>1, <1>4, <1>5 DEF TaskInv, NoLostWakeup
  <2>3. FlushMeansDelivered'
    BY <1>1, <1>5 DEF FlushMeansDelivered
  <2> QED BY <1>4, <1>5, <2>1, <2>2, <2>3 DEF StreamInv
<1>6. CASE /\ MaySend
           /\ tx_buffer' = tx_buffer \o SubSeq(data, offset + 1, offset + n)
           /\ offset' = offset + n
           /\ n = 0 \/ offset' < Len(data)
           /\ PendingSend
           /\ UNCHANGED pc
  <2>1. Len(tx_buffer') = TxCap /\ offset' < Len(data)
    BY <1>2, <1>3, <1>4, <1>6
  <2>2. tx_buffer' # <<>>
    BY <1>0, <2>1
  <2>3. TypeOK'
    BY <1>0, <1>1, <1>4, <1>6, <2>1 DEF TypeOK, PendingSend
  <2>4. TaskInv'
    BY <1>1, <1>6, <2>1 DEF TaskInv, PendingSend
  <2>5. NoLostWakeup'
    BY <1>1, <1>6, <2>2 DEF NoLostWakeup, PendingSend, MaySend
  <2>6. FlushMeansDelivered'
    BY <1>1, <1>6 DEF FlushMeansDelivered
  <2> QED BY <1>4, <1>6, <2>3, <2>4, <2>5, <2>6 DEF StreamInv
<1>7. CASE /\ UNCHANGED <<tx_buffer, offset>>
           /\ \/ MaySend /\ n = 0 /\ PendingSend /\ UNCHANGED pc
              \/ pc' \in {"close", "drop"} /\ UNCHANGED <<recv_waker, send_waker, waiting>>
  <2>1. EchoInOrder' /\ Unsent' = Unsent
    BY <1>1, <1>7 DEF StreamInv, EchoInOrder, Unsent
  <2>2. CASE MaySend /\ n = 0 /\ PendingSend /\ UNCHANGED pc
    <3>1. tx_buffer # <<>>
      BY <1>0, <1>2, <1>3, <2>2
    <3>2. TypeOK' /\ TaskInv' /\ FlushMeansDelivered'
      BY <1>0, <1>1, <1>3, <1>7, <2>2 DEF TypeOK, TaskInv, FlushMeansDelivered, PendingSend
    <3>3. NoLostWakeup'
      BY <1>1, <1>7, <2>2, <3>1 DEF NoLostWakeup, PendingSend, MaySend
    <3> QED BY <2>1, <3>2, <3>3 DEF StreamInv
  <2>3. CASE pc' \in {"close", "drop"} /\ UNCHANGED <<recv_waker, send_waker, waiting>>
    <3>1. TypeOK'
      BY <1>0, <1>1, <1>7, <2>3 DEF TypeOK
    <3>2. TaskInv' /\ FlushMeansDelivered' /\ NoLostWakeup'
      BY <1>1, <1>7, <2>3 DEF TaskInv, FlushMeansDelivered, NoLostWakeup
    <3> QED BY <2>1, <3>1, <3>2 DEF StreamInv
  <2> QED BY <1>7, <2>2, <2>3
<1>8. CASE PollSend
  BY <1>5, <1>6, <1>7, <1>8 DEF PollSend, Poll, waker_vars, n
<1>9. CASE poll_write
  <2>1. CASE offset' = offset + n /\ pc' = IF offset' = Len(data) THEN "flush" ELSE "write"
    <3>1. offset' >= Len(data) <=> offset' = Len(data)
      BY <1>2, <1>3, <2>1
    <3>2. offset' < Len(data) <=> offset' # Len(data)
      BY <1>2, <1>3, <2>1
    <3> QED BY <1>5, <1>7, <1>9, <2>1, <3>1, <3>2 DEF poll_write, waker_vars, n
  <2> QED BY <1>7, <1>9, <2>1 DEF poll_write, waker_vars, n
<1> QED BY <1>8, <1>9

\* flush, close and shutdown wait for the peer; the drop of the stream ends the task.
LEMMA FinishInv == StreamInv /\ (poll_flush \/ close \/ poll_shutdown \/ DropStream) => StreamInv'
<1> SUFFICES ASSUME StreamInv, poll_flush \/ close \/ poll_shutdown \/ DropStream PROVE StreamInv'
  OBVIOUS
<1>0. TypeOK
  BY DEF StreamInv
<1>1. UNCHANGED <<rx_buffer, tx_buffer, peer_sent, got, reset, handler, data, offset>>
  BY DEF poll_flush, close, poll_shutdown, CloseAndWait, DropStream, socket_vars, peer_vars
<1>2. Unsent' = Unsent /\ EchoInOrder'
  BY <1>1 DEF StreamInv, EchoInOrder, Unsent
<1>3. CASE poll_flush
  <2>1. handler = "tokio" /\ pc = "flush" /\ ~waiting /\ state' = state /\ offset = Len(data)
    BY <1>3 DEF poll_flush, Poll, socket_vars, StreamInv, TaskInv
  <2>2. Unsent = <<>>
    BY <1>0, <2>1, UnsentBytes
  <2>3. CASE tx_buffer = <<>> /\ pc' = "read" /\ UNCHANGED <<recv_waker, send_waker, waiting>>
    <3>1. TypeOK' /\ TaskInv'
      BY <1>0, <1>1, <2>1, <2>3 DEF TypeOK, TaskInv
    <3>2. FlushMeansDelivered' /\ NoLostWakeup'
      BY <1>1, <1>2, <2>1, <2>2, <2>3 DEF FlushMeansDelivered, NoLostWakeup
    <3> QED BY <1>2, <3>1, <3>2 DEF StreamInv
  <2>4. CASE PendingSend /\ UNCHANGED pc
    <3>1. TypeOK' /\ TaskInv'
      BY <1>0, <1>1, <2>1, <2>4 DEF TypeOK, TaskInv, PendingSend
    <3>2. FlushMeansDelivered' /\ NoLostWakeup'
      BY <1>1, <2>1, <2>4 DEF FlushMeansDelivered, NoLostWakeup, PendingSend
    <3> QED BY <1>2, <3>1, <3>2 DEF StreamInv
  <2> QED BY <1>3, <2>3, <2>4 DEF poll_flush, waker_vars
<1>4. CASE close \/ poll_shutdown
  <2>1. /\ pc \in {"close", "shutdown"} /\ ~waiting /\ state' = Closed(state)
        /\ \/ state' \in Dead /\ pc' = "drop" /\ UNCHANGED <<recv_waker, send_waker, waiting>>
           \/ state' \notin Dead /\ PendingSend /\ UNCHANGED pc
    BY <1>4 DEF close, poll_shutdown, Poll, CloseAndWait, waker_vars
  <2>2. state' \in ClosingStates \cup Dead
    <3>1. state \in {"Established", "CloseWait"} \cup ClosingStates \cup Dead
      BY <1>0 DEF TypeOK
    <3> QED BY <2>1, <3>1 DEF Closed, ClosingStates, Dead
  <2>3. CASE state' \in Dead /\ pc' = "drop" /\ UNCHANGED <<recv_waker, send_waker, waiting>>
    <3>1. TypeOK'
      BY <1>0, <1>1, <2>2, <2>3 DEF TypeOK
    <3>2. TaskInv' /\ FlushMeansDelivered' /\ NoLostWakeup'
      BY <2>1, <2>3 DEF TaskInv, FlushMeansDelivered, NoLostWakeup
    <3> QED BY <1>2, <3>1, <3>2 DEF StreamInv
  <2>4. CASE state' \notin Dead /\ PendingSend /\ UNCHANGED pc
    <3>1. TypeOK'
      BY <1>0, <1>1, <2>2, <2>4 DEF TypeOK, PendingSend
    <3>2. TaskInv' /\ FlushMeansDelivered'
      BY <1>1, <1>2, <2>1, <2>4 DEF StreamInv, TaskInv, FlushMeansDelivered
    <3>3. NoLostWakeup'
      BY <2>1, <2>2, <2>4 DEF NoLostWakeup, PendingSend
    <3> QED BY <1>2, <3>1, <3>2, <3>3 DEF StreamInv
  <2> QED BY <2>1, <2>3, <2>4
<1>5. CASE DropStream
  <2>1. /\ pc = "drop" /\ pc' = "done" /\ waiting' = waiting /\ ~waiting
        /\ recv_waker' = FALSE /\ send_waker' = FALSE
    BY <1>5 DEF DropStream, StreamInv, TaskInv
  <2>2. state' \in ClosingStates \cup Dead
    BY <1>5 DEF DropStream, ClosingStates, Dead
  <2>3. TypeOK'
    BY <1>0, <1>1, <2>1, <2>2 DEF TypeOK
  <2>4. TaskInv' /\ FlushMeansDelivered' /\ NoLostWakeup'
    BY <2>1 DEF TaskInv, FlushMeansDelivered, NoLostWakeup
  <2> QED BY <1>2, <2>3, <2>4 DEF StreamInv
<1> QED BY <1>3, <1>4, <1>5

\* Every step of the peer, the network and the task keeps the invariant.
LEMMA StreamNext == StreamInv /\ [Next]_vars => StreamInv'
<1> SUFFICES ASSUME StreamInv, [Next]_vars PROVE StreamInv'
  OBVIOUS
<1>1. CASE Peer
  BY <1>1, PeerSendsInv, PeerAcksInv, PeerStateInv DEF Peer
<1>2. CASE Task
  BY <1>2, RecvInv, SendInv, FinishInv DEF Task
<1>3. CASE UNCHANGED vars
  <2> USE <1>3 DEF vars, socket_vars, waker_vars, peer_vars, task_vars, StreamInv
  <2>1. TypeOK'
    BY DEF TypeOK
  <2>2. TaskInv' /\ NoLostWakeup'
    BY DEF TaskInv, NoLostWakeup, MayRecv, MaySend
  <2>3. Unsent' = Unsent
    BY DEF Unsent
  <2>4. FlushMeansDelivered' /\ EchoInOrder'
    BY <2>3 DEF FlushMeansDelivered, EchoInOrder
  <2> QED BY <2>1, <2>2, <2>4
<1> QED BY <1>1, <1>2, <1>3 DEF Next

\* The invariant holds in every state of a connection.
LEMMA StreamAlways == Spec => []StreamInv
BY StreamInit, StreamNext, PTL DEF Spec
-----------------------------------------------------------------------------
(* The theorems *)

\* Whatever the sizes of the socket buffers and of the task's own, however reads and
\* sends are cut into pieces and whenever the peer resets: what it has got back, what
\* is under way and what is still to be read are exactly the bytes it sent, in order.
THEOREM StreamKeepsOrder == Spec => []EchoInOrder
<1>1. StreamInv => EchoInOrder
  BY DEF StreamInv
<1> QED BY <1>1, StreamAlways, PTL

\* A task that sleeps in recv, send, flush or close is registered with smoltcp for the
\* event it needs, and that event has not happened yet.
THEOREM StreamNeverSleepsThroughAnEvent == Spec => []NoLostWakeup
<1>1. StreamInv => NoLostWakeup
  BY DEF StreamInv
<1> QED BY <1>1, StreamAlways, PTL

\* When poll_flush has completed, the peer has acknowledged every byte written so
\* far, so the abort in the stream's drop cuts off no answer.
THEOREM FlushDelivers == Spec => []FlushMeansDelivered
<1>1. StreamInv => FlushMeansDelivered
  BY DEF StreamInv
<1> QED BY <1>1, StreamAlways, PTL
=============================================================================
