-------------------------- MODULE UdpSocketsProofs --------------------------
(***************************************************************************)
(* Proofs about UdpSockets, for every number of datagrams and every size   *)
(* of pool, batch, ring and buffer: the raw socket conserves its mbufs,    *)
(* and neither socket makes up, duplicates or reorders a datagram.         *)
(***************************************************************************)
EXTENDS UdpSockets, SequenceTheorems, TLAPS

\* The smaller of two numbers.
LEMMA MinOfTwo ==
  ASSUME NEW a \in Int, NEW b \in Int
  PROVE  Min({a, b}) = IF a <= b THEN a ELSE b
BY DEF Min

\* The first n elements of a sequence and the rest.
LEMMA SplitSeq ==
  ASSUME NEW S, NEW s \in Seq(S), NEW n \in 0..Len(s)
  PROVE  /\ SubSeq(s, 1, n) \in Seq(S) /\ SubSeq(s, n + 1, Len(s)) \in Seq(S)
         /\ Len(SubSeq(s, 1, n)) = n /\ Len(SubSeq(s, n + 1, Len(s))) = Len(s) - n
         /\ \A i \in 1..n : SubSeq(s, 1, n)[i] = s[i]
         /\ \A i \in 1..(Len(s) - n) : SubSeq(s, n + 1, Len(s))[i] = s[n + i]
<1>1. \A i \in 1..Len(s) : s[i] \in S
  BY ElementOfSeq
<1>2. /\ SubSeq(s, 1, n) \in Seq(S) /\ Len(SubSeq(s, 1, n)) = n
      /\ \A i \in 1..n : SubSeq(s, 1, n)[i] = s[i]
  BY <1>1, SubSeqProperties
<1>3. /\ SubSeq(s, n + 1, Len(s)) \in Seq(S) /\ Len(SubSeq(s, n + 1, Len(s))) = Len(s) - n
      /\ \A i \in 1..(Len(s) - n) : SubSeq(s, n + 1, Len(s))[i] = s[n + i]
  BY <1>1, SubSeqProperties
<1> QED BY <1>2, <1>3
-----------------------------------------------------------------------------
(* The mbufs of the raw socket *)

Types ==
    /\ free \in Nat /\ held \in Nat /\ sends \in Nat /\ cur \in Nat
    /\ tx_batch \in Seq(Nat) /\ Len(tx_batch) <= BatchSize
    /\ rx_batch \in Seq(Nat) /\ Len(rx_batch) <= BatchSize
    /\ txr \in Seq(Nat) /\ Len(txr) <= RingSize
    /\ rxr \in Seq(Nat) /\ Len(rxr) <= RingSize
    /\ there \in Seq(Nat) /\ back \in Seq(Nat)
    /\ rx \in Seq(Nat) /\ tx \in Seq(Nat)
    /\ echoed \in Seq(Nat) /\ received \in Seq(Nat)
    /\ answered \in Seq(Nat) /\ out \in Seq(Nat)

Counted ==
    free + Len(tx_batch) + Len(rx_batch) + held + Len(txr) + Len(rxr) = PoolSize

RawInv == Types /\ Counted

\* The capacities are numbers.
LEMMA Capacities ==
    BatchSize \in Nat \ {0} /\ RingSize \in Nat \ {0} /\ PoolSize \in Nat
BY UdpAssumption

\* The numbers of mbufs, their bounds and their sum.
Balance ==
    /\ Len(tx_batch) \in Nat /\ Len(rx_batch) \in Nat
    /\ Len(txr) \in Nat /\ Len(rxr) \in Nat /\ free \in Nat /\ held \in Nat
    /\ Len(tx_batch) <= BatchSize /\ Len(rx_batch) <= BatchSize
    /\ Len(txr) <= RingSize /\ Len(rxr) <= RingSize
    /\ BatchSize \in Nat /\ RingSize \in Nat /\ PoolSize \in Nat
    /\ free + Len(tx_batch) + Len(rx_batch) + held + Len(txr) + Len(rxr) = PoolSize

\* They are what the invariant says.
LEMMA Ledger == RawInv => Balance
BY Capacities DEF RawInv, Types, Counted, Balance

\* Before the first call all mbufs are in the pool.
LEMMA RawInit == Init => RawInv
<1> SUFFICES ASSUME Init PROVE RawInv
  OBVIOUS
<1>1. <<>> \in Seq(Nat) /\ Len(<<>>) = 0
  BY EmptySeq
<1>2. Types
  BY <1>1, UdpAssumption DEF Init, Types, Stray
<1>3. Counted
  BY <1>1, UdpAssumption DEF Init, Counted
<1> QED BY <1>2, <1>3 DEF RawInv

\* attach_queues: a new pool replaces one whose mbufs are all back; a pool freed under
\* its mbufs leaves the ledger as it is, and the raw socket at rest.
LEMMA AttachKeepsRawInv ==
    ASSUME RawInv, attach_queues, UNCHANGED <<there, back, asyncVars>> PROVE RawInv'
<1>0. Balance
  BY Ledger
<1>1. /\ UNCHANGED <<tx_batch, rx_batch, held, sends, echoed, txr, rxr, there, back>>
      /\ UNCHANGED <<rx, tx, cur, received, answered, out>>
  BY DEF attach_queues, nicVars, asyncVars
<1>2. free' = free
  <2>1. CASE Outstanding = 0 /\ free' = PoolSize
    <3>1. free + Outstanding = PoolSize
      BY <1>0 DEF Balance, Outstanding
    <3> QED BY <2>1, <3>1, <1>0 DEF Balance
  <2> QED BY <2>1 DEF attach_queues
<1> QED BY <1>1, <1>2 DEF RawInv, Types, Counted

\* send_to and flush: an mbuf goes from the pool into the batch, if there is room.
LEMMA SendKeepsRawInv ==
    ASSUME RawInv, send_to, UNCHANGED <<there, back, asyncVars>> PROVE RawInv'
<1>0. Balance
  BY Ledger
<1>1. UNCHANGED <<rx_batch, held, echoed, txr, rxr, there, back, rx, tx, cur, received, answered, out>>
  BY DEF send_to, nicVars, asyncVars
<1>2. sends' \in Nat
  BY DEF send_to, RawInv, Types
<1>3. CASE UNCHANGED <<tx_batch, free>>
  BY <1>1, <1>2, <1>3 DEF RawInv, Types, Counted
<1>4. CASE /\ free > 0 /\ Len(tx_batch) < BatchSize
           /\ tx_batch' = Append(tx_batch, sends') /\ free' = free - 1
  <2>1. tx_batch' \in Seq(Nat) /\ Len(tx_batch') = Len(tx_batch) + 1 /\ Len(tx_batch) \in Nat
    BY <1>2, <1>4, AppendProperties DEF RawInv, Types
  <2>2. free' \in Nat /\ free' + Len(tx_batch') = free + Len(tx_batch) /\ Len(tx_batch') <= BatchSize
    <3>1. free \in Nat /\ free > 0 /\ free' = free - 1 /\ Len(tx_batch) < BatchSize
      BY <1>4 DEF RawInv, Types
    <3> QED BY <2>1, <3>1, Capacities
  <2>3. Types'
    BY <1>1, <1>2, <2>1, <2>2 DEF RawInv, Types
  <2>4. Counted'
    BY <1>1, <2>1, <2>2, <1>4 DEF RawInv, Types, Counted
  <2> QED BY <2>3, <2>4 DEF RawInv
<1> QED BY <1>3, <1>4 DEF send_to, PushFails

\* A burst, however small a part of the batch it takes, moves mbufs to the ring.
LEMMA BurstKeepsRawInv == ASSUME RawInv, FlushLoop PROVE RawInv'
<1>0. Balance
  BY Ledger
<1>1. UNCHANGED <<free, rx_batch, held, sends, echoed, rxr, there, back, rx, tx, cur, received, answered, out>>
  BY DEF FlushLoop, asyncVars
<1>2. CASE UNCHANGED <<tx_batch, txr>>
  BY <1>1, <1>2 DEF RawInv, Types, Counted
<1>3. CASE tx_burst
  <2> DEFINE a == Len(tx_batch)
             b == RingSize - Len(txr)
             p == SubSeq(tx_batch, 1, Taken)
             r == SubSeq(tx_batch, Taken + 1, Len(tx_batch))
  <2>1. a \in Nat /\ b \in Nat /\ RingSize \in Nat /\ Len(txr) \in Nat
    BY <1>0 DEF Balance
  <2>2. Taken = IF a <= b THEN a ELSE b
    BY <2>1, MinOfTwo DEF Taken
  <2>3. Taken \in 0..Len(tx_batch) /\ Taken <= RingSize - Len(txr)
    BY <2>1, <2>2
  <2>4. p \in Seq(Nat) /\ r \in Seq(Nat) /\ Len(p) = Taken /\ Len(r) = Len(tx_batch) - Taken
    BY <2>3, SplitSeq DEF RawInv, Types
  <2> HIDE DEF p, r
  <2>5. txr' = txr \o p /\ tx_batch' = r /\ txr \in Seq(Nat)
    BY <1>3 DEF tx_burst, p, r, RawInv, Types
  <2>6. txr \o p \in Seq(Nat) /\ Len(txr \o p) = Len(txr) + Len(p)
    BY <2>4, <2>5, ConcatProperties
  <2>7. Len(txr') = Len(txr) + Taken /\ Len(tx_batch') = Len(tx_batch) - Taken
    BY <2>4, <2>5, <2>6
  <2>8. Len(txr') <= RingSize /\ Len(tx_batch') <= BatchSize
    BY <2>3, <2>7, <1>0 DEF Balance
  <2>9. Types'
    BY <1>1, <2>4, <2>5, <2>6, <2>8 DEF RawInv, Types
  <2>10. Counted'
    BY <1>1, <2>3, <2>7, <1>0 DEF Balance, Counted
  <2> QED BY <2>9, <2>10 DEF RawInv
<1> QED BY <1>2, <1>3 DEF FlushLoop

\* A receive burst moves mbufs from the ring to the batch, as many as fit.
LEMMA PollKeepsRawInv ==
    ASSUME RawInv, poll, UNCHANGED <<there, back, asyncVars>> PROVE RawInv'
<1>0. Balance
  BY Ledger
<1>1. UNCHANGED <<free, tx_batch, held, sends, echoed, txr, there, back, rx, tx, cur, received, answered, out>>
  BY DEF poll, asyncVars
<1> DEFINE a == BatchSize - Len(rx_batch)
           b == Len(rxr)
           n == Min({a, b})
           p == SubSeq(rxr, 1, n)
           r == SubSeq(rxr, n + 1, Len(rxr))
<1>2. a \in Nat /\ b \in Nat
  BY <1>0 DEF Balance
<1>3. n = IF a <= b THEN a ELSE b
  BY <1>2, MinOfTwo
<1>4. rx_batch' = rx_batch \o p /\ rxr' = r
  BY DEF poll, rx_burst
<1> HIDE DEF n, p, r
<1>5. n \in 0..Len(rxr) /\ n <= BatchSize - Len(rx_batch)
  BY <1>2, <1>3
<1>6. p \in Seq(Nat) /\ r \in Seq(Nat) /\ Len(p) = n /\ Len(r) = Len(rxr) - n
  BY <1>5, SplitSeq DEF RawInv, Types, p, r
<1>7. rx_batch \o p \in Seq(Nat) /\ Len(rx_batch \o p) = Len(rx_batch) + Len(p)
  BY <1>6, ConcatProperties DEF RawInv, Types
<1>8. /\ Len(rx_batch') = Len(rx_batch) + n /\ Len(rxr') = Len(rxr) - n
      /\ rx_batch' \in Seq(Nat) /\ rxr' \in Seq(Nat)
  BY <1>4, <1>6, <1>7
<1>9. Len(rx_batch') <= BatchSize /\ Len(rxr') <= RingSize
  BY <1>5, <1>8, <1>0 DEF Balance
<1>10. Types'
  BY <1>1, <1>8, <1>9 DEF RawInv, Types
<1>11. Counted'
  <2>1. Len(tx_batch') = Len(tx_batch) /\ Len(txr') = Len(txr) /\ held' = held /\ free' = free
    BY <1>1
  <2>2. n \in Nat /\ Len(rx_batch') = Len(rx_batch) + n /\ Len(rxr') = Len(rxr) - n
    BY <1>5, <1>8
  <2> QED BY <2>1, <2>2, <1>0 DEF Balance, Counted
<1> QED BY <1>10, <1>11 DEF RawInv

\* recv_from takes the newest frame: a stray is freed, a datagram's mbuf is given to
\* the caller, who drops it later.
LEMMA RecvKeepsRawInv ==
    ASSUME RawInv, recv_from \/ FreeMbuf, UNCHANGED <<there, back, asyncVars>> PROVE RawInv'
<1>0. Balance
  BY Ledger
<1>1. UNCHANGED <<tx_batch, sends, txr, rxr, there, back, rx, tx, cur, received, answered, out>>
  BY DEF recv_from, FreeMbuf, nicVars, asyncVars
<1>2. CASE FreeMbuf
  <2>1. held' \in Nat /\ free' \in Nat /\ held' + free' = held + free /\ UNCHANGED <<rx_batch, echoed>>
    BY <1>2, <1>0 DEF Balance, FreeMbuf
  <2>2. Types'
    BY <1>1, <2>1 DEF RawInv, Types
  <2>3. Counted'
    <3>1. /\ Len(tx_batch') = Len(tx_batch) /\ Len(txr') = Len(txr) /\ Len(rxr') = Len(rxr)
          /\ Len(rx_batch') = Len(rx_batch)
      BY <1>1, <2>1
    <3>2. held' = held - 1 /\ free' = free + 1
      BY <1>2 DEF FreeMbuf
    <3> QED BY <3>1, <3>2, <1>0 DEF Balance, Counted
  <2> QED BY <2>2, <2>3 DEF RawInv
<1>3. CASE recv_from
  <2> DEFINE n == Len(rx_batch)
  <2>1. rx_batch \in Seq(Nat) /\ rx_batch # <<>> /\ n \in Nat \ {0} /\ n - 1 \in 0..n
    <3>1. rx_batch \in Seq(Nat) /\ rx_batch # <<>>
      BY <1>3 DEF recv_from, RawInv, Types
    <3>2. n \in Nat \ {0}
      BY <3>1, EmptySeq
    <3> QED BY <3>1, <3>2
  <2>2. Front(rx_batch) \in Seq(Nat) /\ Len(Front(rx_batch)) = n - 1
    BY <2>1, SplitSeq, ZenonT(40) DEF Front
  <2>3. Last(rx_batch) \in Nat
    BY <2>1 DEF Last
  <2>4. rx_batch' \in Seq(Nat) /\ Len(rx_batch') = n - 1
    BY <1>3, <2>2 DEF recv_from
  <2>5. Len(rx_batch') <= BatchSize
    BY <2>1, <2>4, <1>0 DEF Balance
  <2>6. echoed' \in Seq(Nat)
    <3>1. echoed \in Seq(Nat) /\ Append(echoed, Last(rx_batch)) \in Seq(Nat)
      BY <2>3, AppendProperties DEF RawInv, Types
    <3> QED BY <1>3, <3>1 DEF recv_from
  <2>7. free' \in Nat /\ held' \in Nat /\ free' + held' = free + held + 1
    <3>1. (free' = free + 1 /\ held' = held) \/ (free' = free /\ held' = held + 1)
      BY <1>3 DEF recv_from
    <3> QED BY <3>1, <1>0, SMTT(30) DEF Balance
  <2>8. Types'
    BY <1>1, <2>4, <2>5, <2>6, <2>7 DEF RawInv, Types
  <2>9. Counted'
    <3>1. Len(tx_batch') = Len(tx_batch) /\ Len(txr') = Len(txr) /\ Len(rxr') = Len(rxr)
      BY <1>1
    <3>2. Len(rx_batch') + 1 = Len(rx_batch) /\ Len(rx_batch') \in Nat
      BY <2>1, <2>4
    <3>3. CASE free' = free + 1 /\ held' = held
      BY <3>1, <3>2, <3>3, <1>0, SMTT(30) DEF Balance, Counted
    <3>4. CASE free' = free /\ held' = held + 1
      BY <3>1, <3>2, <3>4, <1>0, SMTT(30) DEF Balance, Counted
    <3> QED BY <1>3, <3>3, <3>4 DEF recv_from
  <2> QED BY <2>8, <2>9 DEF RawInv
<1> QED BY <1>2, <1>3

\* The NIC frees a transmitted mbuf and takes one for a frame that arrives, or drops
\* the frame.
LEMMA NicKeepsRawInv ==
    ASSUME RawInv, NicTransmit \/ Arrives PROVE RawInv'
<1>0. Balance
  BY Ledger
<1>1. UNCHANGED <<tx_batch, rx_batch, held, sends, echoed, rx, tx, cur, received, answered, out>>
  BY DEF NicTransmit, Arrives, asyncVars
<1>2. CASE NicTransmit
  <2>1. /\ txr' \in Seq(Nat) /\ Len(txr') = Len(txr) - 1 /\ Head(txr) \in Nat /\ Len(txr) > 0
    BY <1>2, HeadTailProperties, SMTT(30) DEF NicTransmit, RawInv, Types
  <2>2. there' \in Seq(Nat)
    BY <1>2, <2>1, AppendProperties DEF NicTransmit, RawInv, Types
  <2>3. free' = free + 1 /\ UNCHANGED <<rxr, back>>
    BY <1>2 DEF NicTransmit
  <2>4. Len(txr') <= RingSize /\ free' \in Nat /\ free' + Len(txr') = free + Len(txr)
    BY <2>1, <2>3, <1>0 DEF Balance
  <2>5. Types'
    BY <1>1, <2>1, <2>2, <2>3, <2>4 DEF RawInv, Types
  <2>6. Counted'
    BY <1>1, <2>1, <2>3, <2>4, <1>0 DEF Balance, Counted
  <2> QED BY <2>5, <2>6 DEF RawInv
<1>3. CASE Arrives
  <2>1. back' \in Seq(Nat) /\ UNCHANGED <<txr, there>>
    BY <1>3, HeadTailProperties DEF Arrives, RawInv, Types
  <2>2. \E frame \in Nat : NicReceive(frame)
    BY <1>3, HeadTailProperties DEF Arrives, Stray, RawInv, Types
  <2>3. CASE UNCHANGED <<rxr, free>>
    <3>1. Types'
      BY <1>1, <2>1, <2>3 DEF RawInv, Types
    <3>2. Counted'
      BY <1>1, <2>1, <2>3 DEF RawInv, Counted
    <3> QED BY <3>1, <3>2 DEF RawInv
  <2>4. ASSUME NEW frame \in Nat, free > 0, Len(rxr) < RingSize,
               rxr' = Append(rxr, frame), free' = free - 1
        PROVE  RawInv'
    <3>1. rxr' \in Seq(Nat) /\ Len(rxr') = Len(rxr) + 1
      BY <2>4, AppendProperties DEF RawInv, Types
    <3>2. free' \in Nat /\ Len(rxr') <= RingSize /\ free' + Len(rxr') = free + Len(rxr)
      <4>1. free \in Nat /\ Len(rxr) \in Nat
        BY <1>0 DEF Balance
      <4> QED BY <2>4, <3>1, <4>1, Capacities
    <3>3. Types'
      BY <1>1, <2>1, <3>1, <3>2 DEF RawInv, Types
    <3>4. Counted'
      <4>1. free' = free - 1 /\ Len(rxr') = Len(rxr) + 1
        BY <2>4, <3>1
      <4> QED BY <1>1, <2>1, <4>1, <1>0 DEF Balance, Counted
    <3> QED BY <3>3, <3>4 DEF RawInv
  <2> QED BY <2>2, <2>3, <2>4 DEF NicReceive
<1> QED BY <1>2, <1>3

\* The network, the reactor and the task of the async socket only move datagrams.
LEMMA AsyncKeepsRawInv ==
    ASSUME RawInv, Lose \/ Ingress \/ Egress \/ Task \/ Owner PROVE RawInv'
<1>1. UNCHANGED <<free, held, sends, tx_batch, rx_batch, txr, rxr, echoed>>
  BY DEF Lose, Ingress, Egress, Task, Owner, rawVars, nicVars
<1>2. Counted'
  BY <1>1 DEF RawInv, Counted
<1>3. /\ there \in Seq(Nat) /\ back \in Seq(Nat) /\ rx \in Seq(Nat) /\ tx \in Seq(Nat)
      /\ received \in Seq(Nat) /\ answered \in Seq(Nat) /\ out \in Seq(Nat) /\ cur \in Nat
  BY DEF RawInv, Types
<1>4. ASSUME NEW s \in Seq(Nat), s # <<>>
      PROVE  Tail(s) \in Seq(Nat) /\ Head(s) \in Nat
  BY <1>4, HeadTailProperties
<1>5. ASSUME NEW s \in Seq(Nat), NEW e \in Nat
      PROVE  Append(s, e) \in Seq(Nat)
  BY AppendProperties
<1>6. <<>> \in Seq(Nat)
  OBVIOUS
<1>7. /\ there' \in Seq(Nat) /\ back' \in Seq(Nat) /\ rx' \in Seq(Nat) /\ tx' \in Seq(Nat)
      /\ received' \in Seq(Nat) /\ answered' \in Seq(Nat) /\ out' \in Seq(Nat) /\ cur' \in Nat
  <2>1. CASE Lose
    BY <1>3, <1>4, <2>1 DEF Lose, asyncVars
  <2>2. CASE Ingress
    BY <1>3, <1>4, <1>5, <2>2 DEF Ingress
  <2>3. CASE Egress
    BY <1>3, <1>4, <1>5, <2>3 DEF Egress
  <2>4. CASE PollRecv /\ UNCHANGED <<there, back>>
    BY <1>3, <1>4, <1>5, <2>4 DEF PollRecv
  <2>5. CASE PollSend /\ UNCHANGED <<there, back>>
    BY <1>3, <1>5, <2>5 DEF PollSend, SendPending
  <2>6. CASE Owner
    BY <1>3, <1>6, <2>6 DEF Owner, close, DropSocket, close_socket
  <2> QED BY <2>1, <2>2, <2>3, <2>4, <2>5, <2>6 DEF Task
<1>8. Types'
  BY <1>1, <1>7 DEF RawInv, Types
<1> QED BY <1>2, <1>8 DEF RawInv

\* Every step of the two sockets, the NIC and the network keeps the invariant.
LEMMA RawNext == RawInv /\ [Next]_vars => RawInv'
<1> SUFFICES ASSUME RawInv, [Next]_vars PROVE RawInv'
  OBVIOUS
<1>1. ASSUME UNCHANGED <<free, held, sends, tx_batch, rx_batch, nicVars, echoed>>,
             UNCHANGED <<there, back, asyncVars>>
      PROVE  RawInv'
  BY <1>1 DEF RawInv, Types, Counted, nicVars, asyncVars
<1>2. CASE Raw
  <2>1. CASE bind \/ flush
    BY <1>1, <1>2, <2>1 DEF Raw, bind, flush
  <2>2. CASE attach_queues
    BY <1>2, <2>2, AttachKeepsRawInv DEF Raw
  <2> QED
    BY <1>2, <2>1, <2>2, SendKeepsRawInv, PollKeepsRawInv, RecvKeepsRawInv DEF Raw
<1>3. CASE UNCHANGED vars
  BY <1>1, <1>3 DEF vars, rawVars
<1> QED
  BY <1>2, <1>3, BurstKeepsRawInv, NicKeepsRawInv, AsyncKeepsRawInv DEF Next

\* The invariant holds in every state.
LEMMA RawAlways == Spec => []RawInv
BY RawInit, RawNext, PTL DEF Spec

\* Whatever the sizes of pool, batch and ring, whichever calls fail half-way and
\* however often queues are attached, each mbuf of the raw socket's pool is in one
\* place up to the moment the pool is freed.  That moment may come too early: the
\* theorem does not say that all mbufs are back then (DroppedMbufsHavePool, which
\* is false, would).
THEOREM RawSocketConservesMbufs == Spec => []RawMbufsConserved
<1>1. RawInv => RawMbufsConserved
  <2> SUFFICES ASSUME RawInv PROVE RawMbufsConserved
    OBVIOUS
  <2>1. Balance
    BY Ledger
  <2> QED BY <2>1 DEF Balance, Outstanding, RawMbufsConserved
<1> QED BY <1>1, RawAlways, PTL

-----------------------------------------------------------------------------
(* Sequences of numbers: increasing, without repetition, one before another *)

Inc(s) == \A i, j \in 1..Len(s) : i < j => s[i] < s[j]

Below(A, B) == \A a \in A, b \in B : a < b

\* No number twice, strays excepted.
Distinct(s) == \A i, j \in 1..Len(s) : i # j => s[i] # s[j] \/ s[i] = Stray

Apart(A, B) == \A x \in A : x \in B => x = Stray

Pre(s, t) == Len(s) <= Len(t) /\ \A i \in 1..Len(s) : s[i] = t[i]

\* The elements of a sequence.
LEMMA Elements ==
  ASSUME NEW s \in Seq(Nat)
  PROVE  /\ \A x : x \in ToSet(s) <=> \E i \in 1..Len(s) : s[i] = x
         /\ ToSet(s) \subseteq Nat
BY DEF ToSet

\* What the tail of a sequence keeps.
LEMMA TailElements ==
  ASSUME NEW s \in Seq(Nat), s # <<>>
  PROVE  /\ Tail(s) \in Seq(Nat) /\ Head(s) \in Nat /\ Head(s) \in ToSet(s)
         /\ ToSet(Tail(s)) \subseteq ToSet(s)
         /\ Inc(s) => Inc(Tail(s)) /\ Below({Head(s)}, ToSet(Tail(s)))
         /\ Distinct(s) => Distinct(Tail(s)) /\ Apart({Head(s)}, ToSet(Tail(s)))
<1> DEFINE t == Tail(s)
           n == Len(s)
           h == Head(s)
<1>1. t \in Seq(Nat) /\ n \in Nat \ {0} /\ Len(t) = n - 1 /\ h = s[1] /\ h \in Nat
  BY HeadTailProperties, EmptySeq
<1>2. \A i \in 1..(n - 1) : t[i] = s[i + 1]
  BY <1>1, HeadTailProperties
<1>3. \A i \in 1..n : s[i] \in ToSet(s)
  BY Elements
<1>4. \A i, j \in 1..n : i < j => (Inc(s) => s[i] < s[j])
  BY DEF Inc
<1>5. \A i, j \in 1..n : i # j => (Distinct(s) => s[i] # s[j] \/ s[i] = Stray)
  BY DEF Distinct
<1> HIDE DEF t, n, h
<1>6. \A x \in ToSet(t) : \E i \in 1..(n - 1) : t[i] = x
  BY <1>1, Elements
<1>7. /\ 1 \in 1..n /\ \A i \in 1..(n - 1) : i + 1 \in 1..n /\ 1 < i + 1
      /\ \A i, j \in 1..(n - 1) : (i < j => i + 1 < j + 1) /\ (i # j => i + 1 # j + 1)
  BY <1>1
<1>8. h \in ToSet(s)
  BY <1>1, <1>3, <1>7
<1>9. \A x \in ToSet(t) : \E i \in 1..(n - 1) : i + 1 \in 1..n /\ s[i + 1] = x
  BY <1>2, <1>6, <1>7
<1>10. ToSet(t) \subseteq ToSet(s)
  BY <1>3, <1>9
<1>11. Inc(s) => Inc(t)
  BY <1>1, <1>2, <1>4, <1>7 DEF Inc
<1>12. Inc(s) => Below({h}, ToSet(t))
  BY <1>1, <1>4, <1>7, <1>9 DEF Below
<1>13. Distinct(s) => Distinct(t)
  BY <1>1, <1>2, <1>5, <1>7, ZenonT(40) DEF Distinct
<1>14. Distinct(s) => Apart({h}, ToSet(t))
  <2> SUFFICES ASSUME Distinct(s), h \in ToSet(t) PROVE h = Stray
    BY DEF Apart
  <2>1. PICK i \in 1..(n - 1) : i + 1 \in 1..n /\ s[i + 1] = h
    BY <1>9
  <2>2. 1 \in 1..n /\ 1 # i + 1
    BY <1>7
  <2> QED BY <1>1, <1>5, <2>1, <2>2
<1> QED BY <1>1, <1>8, <1>10, <1>11, <1>12, <1>13, <1>14 DEF t, h

\* What an appended number changes.
LEMMA AppendElements ==
  ASSUME NEW s \in Seq(Nat), NEW e \in Nat
  PROVE  /\ Append(s, e) \in Seq(Nat) /\ ToSet(Append(s, e)) = ToSet(s) \cup {e}
         /\ Inc(s) /\ Below(ToSet(s), {e}) => Inc(Append(s, e))
         /\ Distinct(s) /\ Apart(ToSet(s), {e}) => Distinct(Append(s, e))
<1> DEFINE t == Append(s, e)
           n == Len(s)
<1>1. /\ t \in Seq(Nat) /\ Len(t) = n + 1 /\ n \in Nat
      /\ \A i \in 1..n : t[i] = s[i]
      /\ t[n + 1] = e
  BY AppendProperties
<1>2. \A x : x \in ToSet(s) <=> \E i \in 1..n : s[i] = x
  BY Elements
<1>3. \A i, j \in 1..n : i < j => (Inc(s) => s[i] < s[j])
  BY DEF Inc
<1>4. \A i, j \in 1..n : i # j => (Distinct(s) => s[i] # s[j] \/ s[i] = Stray)
  BY DEF Distinct
<1> HIDE DEF t, n
<1>5. /\ \A i \in 1..(n + 1) : i \in 1..n \/ i = n + 1
      /\ \A i \in 1..n : i \in 1..(n + 1) /\ i # n + 1 /\ ~(n + 1 < i)
      /\ n + 1 \in 1..(n + 1) /\ ~(n + 1 < n + 1)
  BY <1>1
<1>6. \A x : x \in ToSet(t) <=> \E i \in 1..(n + 1) : t[i] = x
  BY <1>1, Elements
<1>7. ToSet(t) = ToSet(s) \cup {e}
  BY <1>1, <1>2, <1>5, <1>6
<1>8. ASSUME Inc(s), Below(ToSet(s), {e}) PROVE Inc(t)
  <2> SUFFICES ASSUME NEW i \in 1..(n + 1), NEW j \in 1..(n + 1), i < j PROVE t[i] < t[j]
    BY <1>1 DEF Inc
  <2>1. i \in 1..n
    BY <1>1
  <2>2. CASE j \in 1..n
    BY <1>1, <1>3, <1>8, <2>1, <2>2
  <2>3. CASE j = n + 1
    BY <1>1, <1>2, <1>8, <2>1, <2>3 DEF Below
  <2> QED BY <1>5, <2>2, <2>3
<1>9. ASSUME Distinct(s), Apart(ToSet(s), {e}) PROVE Distinct(t)
  <2> SUFFICES ASSUME NEW i \in 1..(n + 1), NEW j \in 1..(n + 1), i # j
               PROVE  t[i] # t[j] \/ t[i] = Stray
    BY <1>1 DEF Distinct
  <2>1. \A k \in 1..n : s[k] # e \/ e = Stray
    BY <1>2, <1>9 DEF Apart
  <2>2. CASE i \in 1..n /\ j \in 1..n
    BY <1>1, <1>4, <1>9, <2>2
  <2>3. CASE i \in 1..n /\ j = n + 1
    BY <1>1, <2>1, <2>3
  <2>4. CASE i = n + 1 /\ j \in 1..n
    BY <1>1, <2>1, <2>4
  <2> QED BY <1>5, <2>2, <2>3, <2>4
<1> QED BY <1>1, <1>7, <1>8, <1>9 DEF t

\* A sequence without its last element.
LEMMA FrontElements ==
  ASSUME NEW s \in Seq(Nat), s # <<>>
  PROVE  /\ Front(s) \in Seq(Nat) /\ Last(s) \in Nat /\ Last(s) \in ToSet(s)
         /\ ToSet(Front(s)) \subseteq ToSet(s)
         /\ Distinct(s) => Distinct(Front(s)) /\ Apart({Last(s)}, ToSet(Front(s)))
<1> DEFINE t == Front(s)
           n == Len(s)
           h == Last(s)
           m == n - 1
<1>1. n \in Nat \ {0} /\ m \in 0..n /\ n \in 1..n /\ (\A i \in 1..m : i \in 1..n /\ i # n)
  BY EmptySeq
<1>3. t = SubSeq(s, 1, m) /\ m \in 0..Len(s)
  BY <1>1 DEF Front
<1>2. SubSeq(s, 1, m) \in Seq(Nat) /\ Len(SubSeq(s, 1, m)) = m
      /\ \A i \in 1..m : SubSeq(s, 1, m)[i] = s[i]
  <2> HIDE DEF m
  <2> QED BY <1>3, SplitSeq
<1>4. h = s[n] /\ h \in Nat
  BY <1>1 DEF Last
<1>5. \A i \in 1..n : s[i] \in ToSet(s)
  BY Elements
<1>6. \A i, j \in 1..n : i # j => (Distinct(s) => s[i] # s[j] \/ s[i] = Stray)
  BY DEF Distinct
<1>7. t \in Seq(Nat) /\ Len(t) = m /\ \A i \in 1..m : t[i] = s[i]
  BY <1>2, <1>3
<1> HIDE DEF t, n, h, m
<1>8. \A x \in ToSet(t) : \E i \in 1..m : i \in 1..n /\ i # n /\ s[i] = x
  BY <1>1, <1>7, Elements
<1>9. h \in ToSet(s) /\ ToSet(t) \subseteq ToSet(s)
  BY <1>1, <1>4, <1>5, <1>8
<1>10. Distinct(s) => Distinct(t)
  BY <1>1, <1>6, <1>7 DEF Distinct
<1>11. Distinct(s) => Apart({h}, ToSet(t))
  BY <1>1, <1>4, <1>6, <1>8 DEF Apart
<1> QED BY <1>4, <1>7, <1>9, <1>10, <1>11 DEF t, h

\* A burst: the first n elements of s go to the end of t.
LEMMA BurstElements ==
  ASSUME NEW s \in Seq(Nat), NEW t \in Seq(Nat), NEW n \in 0..Len(s)
  PROVE  LET t1 == t \o SubSeq(s, 1, n)
             s1 == SubSeq(s, n + 1, Len(s))
         IN  /\ ToSet(s1) \subseteq ToSet(s) /\ ToSet(t1) \subseteq ToSet(s) \cup ToSet(t)
             /\ Inc(s) /\ Inc(t) /\ Below(ToSet(t), ToSet(s))
                  => Inc(s1) /\ Inc(t1) /\ Below(ToSet(t1), ToSet(s1))
             /\ Distinct(s) /\ Distinct(t) /\ Apart(ToSet(t), ToSet(s))
                  => Distinct(s1) /\ Distinct(t1) /\ Apart(ToSet(t1), ToSet(s1))
<1> DEFINE p == SubSeq(s, 1, n)
           s1 == SubSeq(s, n + 1, Len(s))
           t1 == t \o p
           k == Len(t)
           l == Len(s)
<1>1. /\ k \in Nat /\ l \in Nat /\ n \in 0..l
      /\ p \in Seq(Nat) /\ Len(p) = n /\ \A i \in 1..n : p[i] = s[i]
      /\ s1 \in Seq(Nat) /\ Len(s1) = l - n /\ \A i \in 1..(l - n) : s1[i] = s[n + i]
  BY SplitSeq
<1> HIDE DEF p, s1
<1>13. /\ \A i, j \in 1..l : i # j => (Distinct(s) => s[i] # s[j] \/ s[i] = Stray)
       /\ \A i, j \in 1..k : i # j => (Distinct(t) => t[i] # t[j] \/ t[i] = Stray)
       /\ \A i, j \in 1..l : i < j => (Inc(s) => s[i] < s[j])
       /\ \A i, j \in 1..k : i < j => (Inc(t) => t[i] < t[j])
  BY DEF Distinct, Inc
<1>2. /\ t1 \in Seq(Nat) /\ Len(t1) = k + n
      /\ \A i \in 1..(k + n) : t1[i] = IF i <= k THEN t[i] ELSE p[i - k]
  BY <1>1, ConcatProperties
<1> HIDE DEF t1
<1>3. /\ \A i \in 1..(l - n) : n + i \in 1..l
      /\ \A i \in 1..n : i \in 1..l
      /\ \A i \in 1..(k + n) : (i \in 1..k /\ i <= k) \/ (i - k \in 1..n /\ ~(i <= k))
  BY <1>1
<1>5. \A i \in 1..l : s[i] \in ToSet(s) /\ s[i] \in Nat
  BY Elements
<1>6. \A i \in 1..k : t[i] \in ToSet(t) /\ t[i] \in Nat
  BY Elements
<1> HIDE DEF k, l
<1>4. /\ \A i \in 1..k : i <= k /\ i \in 1..(k + n) /\ t1[i] = t[i]
      /\ \A i \in 1..(k + n) : i <= k => i \in 1..k /\ t1[i] = t[i]
      /\ \A i \in 1..(k + n) : ~(i <= k) => i - k \in 1..n /\ t1[i] = s[i - k]
  <2>1. \A i \in 1..k : i <= k /\ i \in 1..(k + n)
    BY <1>1
  <2>2. \A i \in 1..(k + n) : i <= k => i \in 1..k /\ t1[i] = t[i]
    BY <1>1, <1>2
  <2>3. \A i \in 1..(k + n) : ~(i <= k) => i - k \in 1..n /\ t1[i] = s[i - k]
    BY <1>1, <1>2, <1>3
  <2> QED BY <2>1, <2>2, <2>3
<1>7. \A x \in ToSet(s1) : \E i \in 1..(l - n) : s[n + i] = x
  <2> DEFINE m == l - n
  <2>1. s1 \in Seq(Nat) /\ Len(s1) = m /\ \A i \in 1..m : s1[i] = s[n + i]
    BY <1>1
  <2> HIDE DEF m
  <2>2. \A x \in ToSet(s1) : \E i \in 1..m : s1[i] = x
    BY <2>1, Elements
  <2>3. \A x \in ToSet(s1) : \E i \in 1..m : s[n + i] = x
    BY <2>1, <2>2
  <2> QED BY <2>3 DEF m
<1>8. \A x \in ToSet(t1) : (\E i \in 1..k : t[i] = x) \/ (\E i \in 1..n : s[i] = x)
  <2>1. \A x \in ToSet(t1) : \E i \in 1..(k + n) : t1[i] = x
    BY <1>2, Elements
  <2> QED BY <1>4, <2>1
<1>9. ToSet(s1) \subseteq ToSet(s)
  BY <1>3, <1>5, <1>7
<1>10. ToSet(t1) \subseteq ToSet(s) \cup ToSet(t)
  BY <1>3, <1>5, <1>6, <1>8
<1>11. ASSUME Inc(s), Inc(t), Below(ToSet(t), ToSet(s))
       PROVE  Inc(s1) /\ Inc(t1) /\ Below(ToSet(t1), ToSet(s1))
  <2>1. Inc(s1)
    <3> SUFFICES ASSUME NEW i \in 1..(l - n), NEW j \in 1..(l - n), i < j PROVE s1[i] < s1[j]
      BY <1>1 DEF Inc
    <3>1. n + i \in 1..l /\ n + j \in 1..l /\ n + i < n + j
      BY <1>1, <1>3
    <3> QED BY <1>1, <1>13, <1>11, <3>1
  <2>2. Inc(t1)
    <3> SUFFICES ASSUME NEW i \in 1..(k + n), NEW j \in 1..(k + n), i < j PROVE t1[i] < t1[j]
      BY <1>2 DEF Inc
    <3>1. CASE i <= k /\ j <= k
      BY <1>13, <1>4, <1>11, <3>1
    <3>2. CASE i <= k /\ ~(j <= k)
      <4>1. t1[i] \in ToSet(t) /\ t1[j] \in ToSet(s)
        BY <1>1, <1>3, <1>4, <1>5, <1>6, <3>2
      <4> QED BY <1>11, <4>1 DEF Below
    <3>3. CASE ~(i <= k) /\ ~(j <= k)
      <4>1. i - k \in 1..l /\ j - k \in 1..l /\ i - k < j - k
        BY <1>1, <1>3, <3>3
      <4> QED BY <1>13, <1>4, <1>11, <3>3, <4>1
    <3>4. ~(~(i <= k) /\ j <= k)
      BY <1>1
    <3> QED BY <3>1, <3>2, <3>3, <3>4
  <2>3. Below(ToSet(t1), ToSet(s1))
    <3> SUFFICES ASSUME NEW x \in ToSet(t1), NEW y \in ToSet(s1) PROVE x < y
      BY DEF Below
    <3>1. PICK j \in 1..(l - n) : s[n + j] = y /\ n + j \in 1..l
      BY <1>3, <1>7
    <3>2. CASE \E i \in 1..k : t[i] = x
      BY <1>5, <1>6, <1>11, <3>1, <3>2 DEF Below
    <3>3. ASSUME NEW i \in 1..n, s[i] = x PROVE x < y
      <4>1. i \in 1..l /\ i < n + j
        BY <1>1, <1>3
      <4> QED BY <1>13, <1>11, <3>1, <3>3, <4>1
    <3> QED BY <1>8, <3>2, <3>3
  <2> QED BY <2>1, <2>2, <2>3
<1>12. ASSUME Distinct(s), Distinct(t), Apart(ToSet(t), ToSet(s))
       PROVE  Distinct(s1) /\ Distinct(t1) /\ Apart(ToSet(t1), ToSet(s1))
  <2>1. Distinct(s1)
    <3> SUFFICES ASSUME NEW i \in 1..(l - n), NEW j \in 1..(l - n), i # j
                 PROVE  s1[i] # s1[j] \/ s1[i] = Stray
      BY <1>1 DEF Distinct
    <3>1. n + i \in 1..l /\ n + j \in 1..l /\ n + i # n + j
      BY <1>1, <1>3
    <3> QED BY <1>1, <1>13, <1>12, <3>1
  <2>2. Distinct(t1)
    <3> SUFFICES ASSUME NEW i \in 1..(k + n), NEW j \in 1..(k + n), i # j
                 PROVE  t1[i] # t1[j] \/ t1[i] = Stray
      BY <1>2 DEF Distinct
    <3>1. CASE i <= k /\ j <= k
      BY <1>13, <1>4, <1>12, <3>1
    <3>2. CASE i <= k /\ ~(j <= k)
      <4>1. t1[i] \in ToSet(t) /\ t1[j] \in ToSet(s)
        BY <1>1, <1>3, <1>4, <1>5, <1>6, <3>2
      <4> QED BY <1>12, <4>1 DEF Apart
    <3>3. CASE ~(i <= k) /\ ~(j <= k)
      <4>1. i - k \in 1..l /\ j - k \in 1..l /\ i - k # j - k
        BY <1>1, <1>3, <3>3
      <4> QED BY <1>13, <1>4, <1>12, <3>3, <4>1
    <3>4. CASE ~(i <= k) /\ j <= k
      <4>1. t1[j] \in ToSet(t) /\ t1[i] \in ToSet(s)
        BY <1>1, <1>3, <1>4, <1>5, <1>6, <3>4
      <4> QED BY <1>12, <4>1 DEF Apart
    <3> QED BY <3>1, <3>2, <3>3, <3>4
  <2>3. Apart(ToSet(t1), ToSet(s1))
    <3> SUFFICES ASSUME NEW x \in ToSet(t1), x \in ToSet(s1) PROVE x = Stray
      BY DEF Apart
    <3>1. PICK j \in 1..(l - n) : s[n + j] = x /\ n + j \in 1..l
      BY <1>3, <1>7
    <3>2. CASE \E i \in 1..k : t[i] = x
      BY <1>5, <1>6, <1>12, <3>1, <3>2 DEF Apart
    <3>3. ASSUME NEW i \in 1..n, s[i] = x PROVE x = Stray
      <4>1. i \in 1..l /\ i # n + j
        BY <1>1, <1>3
      <4> QED BY <1>13, <1>12, <3>1, <3>3, <4>1
    <3> QED BY <1>8, <3>2, <3>3
  <2> QED BY <2>1, <2>2, <2>3
<1> QED BY <1>9, <1>10, <1>11, <1>12 DEF t1, s1, p, l

-----------------------------------------------------------------------------
(* The datagrams.  On their way to the echo task they are numbered upwards, *)
(* the furthest lowest; the task answers a prefix of what it received, and  *)
(* the socket sends a prefix of that; on the way back each one is in one    *)
(* place only.                                                              *)

Ascending(R, X, T, W, B, n) ==
    /\ Below(R, X) /\ Below(R, T) /\ Below(R, W) /\ Below(R, B)
    /\ Below(X, T) /\ Below(X, W) /\ Below(X, B)
    /\ Below(T, W) /\ Below(T, B) /\ Below(W, B)
    /\ R \cup X \cup T \cup W \cup B \subseteq 1..n

Flow ==
    /\ Inc(received) /\ Inc(rx) /\ Inc(there) /\ Inc(txr) /\ Inc(tx_batch)
    /\ Ascending(ToSet(received), ToSet(rx), ToSet(there), ToSet(txr), ToSet(tx_batch), sends)

Accepted ==
    /\ Pre(answered, received)
    /\ pc = "recv" => Len(received) = Len(answered)
    /\ pc = "send" => /\ Len(received) = Len(answered) + 1
                      /\ received[Len(answered) + 1] = cur

Queued(o, t, a, p) ==
    /\ Pre(o, a)
    /\ Len(o) + Len(t) <= Len(a)
    /\ p => Len(o) + Len(t) = Len(a)
    /\ \A i \in 1..Len(t) : t[i] = a[Len(o) + i]

Sent == Queued(out, tx, answered, open)

Separate(K, I, J, E, O) ==
    /\ Apart(K, I) /\ Apart(K, J) /\ Apart(K, E) /\ Apart(I, J) /\ Apart(I, E) /\ Apart(J, E)
    /\ K \cup E \subseteq O /\ I \cup J \subseteq O \cup {Stray}

Echoes ==
    /\ Distinct(back) /\ Distinct(rxr) /\ Distinct(rx_batch) /\ Distinct(echoed)
    /\ Separate(ToSet(back), ToSet(rxr), ToSet(rx_batch), ToSet(echoed), ToSet(out))

DatagramInv == Flow /\ Accepted /\ Sent /\ Echoes

\* Nothing is in an empty sequence.
LEMMA EmptyElements ==
    Len(<<>>) = 0 /\ Inc(<<>>) /\ Distinct(<<>>) /\ ToSet(<<>>) = {}
<1>1. Len(<<>>) = 0 /\ DOMAIN <<>> = {} /\ \A i \in 1..0 : FALSE
  BY EmptySeq
<1> QED BY <1>1 DEF Inc, Distinct, ToSet

\* A burst takes no more than the batch has.
LEMMA TakenFits == ASSUME RawInv PROVE Taken \in 0..Len(tx_batch)
<1> DEFINE a == Len(tx_batch)
           b == RingSize - Len(txr)
<1>1. a \in Nat /\ b \in Nat
  BY Ledger DEF Balance
<1>2. Taken = IF a <= b THEN a ELSE b
  BY <1>1, MinOfTwo DEF Taken
<1> QED BY <1>1, <1>2

\* Datagrams that get lost, or a higher number for the next one, disturb nothing.
LEMMA AscendingShrinks ==
    ASSUME NEW R, NEW X, NEW T, NEW W, NEW B, NEW n \in Nat, Ascending(R, X, T, W, B, n),
           NEW X1 \in SUBSET X, NEW T1 \in SUBSET T, NEW n1 \in Nat, n <= n1
    PROVE  Ascending(R, X1, T1, W, B, n1)
<1>1. \A i \in 1..n : i \in 1..n1
  OBVIOUS
<1> QED BY <1>1 DEF Ascending, Below

\* A datagram, or a burst, that advances keeps the order of the stages.
LEMMA AscendingMoves ==
    ASSUME NEW R, NEW X, NEW T, NEW W, NEW B, NEW n, Ascending(R, X, T, W, B, n)
    PROVE  /\ \A R1 \in SUBSET (R \cup X), X1 \in SUBSET X :
                Below(R1, X1) => Ascending(R1, X1, T, W, B, n)
           /\ \A X1 \in SUBSET (X \cup T), T1 \in SUBSET T :
                Below(X1, T1) => Ascending(R, X1, T1, W, B, n)
           /\ \A T1 \in SUBSET (T \cup W), W1 \in SUBSET W :
                Below(T1, W1) => Ascending(R, X, T1, W1, B, n)
           /\ \A W1 \in SUBSET (W \cup B), B1 \in SUBSET B :
                Below(W1, B1) => Ascending(R, X, T, W1, B1, n)
<1>1. ASSUME NEW R1 \in SUBSET (R \cup X), NEW X1 \in SUBSET X, Below(R1, X1)
      PROVE  Ascending(R1, X1, T, W, B, n)
  BY <1>1 DEF Ascending, Below
<1>2. ASSUME NEW X1 \in SUBSET (X \cup T), NEW T1 \in SUBSET T, Below(X1, T1)
      PROVE  Ascending(R, X1, T1, W, B, n)
  BY <1>2 DEF Ascending, Below
<1>3. ASSUME NEW T1 \in SUBSET (T \cup W), NEW W1 \in SUBSET W, Below(T1, W1)
      PROVE  Ascending(R, X, T1, W1, B, n)
  BY <1>3 DEF Ascending, Below
<1>4. ASSUME NEW W1 \in SUBSET (W \cup B), NEW B1 \in SUBSET B, Below(W1, B1)
      PROVE  Ascending(R, X, T, W1, B1, n)
  BY <1>4 DEF Ascending, Below
<1> QED BY <1>1, <1>2, <1>3, <1>4

\* The head of one stage goes to the end of the next.
LEMMA HeadMoves ==
    ASSUME NEW s \in Seq(Nat), NEW t \in Seq(Nat), s # <<>>, Inc(s), Inc(t),
           Below(ToSet(t), ToSet(s))
    PROVE  LET t1 == Append(t, Head(s))
           IN  /\ Inc(Tail(s)) /\ Inc(t1) /\ Below(ToSet(t1), ToSet(Tail(s)))
               /\ ToSet(t1) \in SUBSET (ToSet(t) \cup ToSet(s))
               /\ ToSet(Tail(s)) \in SUBSET ToSet(s)
<1> DEFINE h == Head(s)
           u == Tail(s)
           t1 == Append(t, h)
<1>1. /\ u \in Seq(Nat) /\ h \in Nat /\ h \in ToSet(s) /\ ToSet(u) \subseteq ToSet(s)
      /\ Inc(u) /\ Below({h}, ToSet(u))
  BY TailElements
<1> HIDE DEF h, u
<1>2. Below(ToSet(t), {h})
  BY <1>1 DEF Below
<1>3. Inc(t1) /\ ToSet(t1) = ToSet(t) \cup {h}
  BY <1>1, <1>2, AppendElements
<1> HIDE DEF t1
<1>4. Below(ToSet(t1), ToSet(u))
  BY <1>1, <1>3 DEF Below
<1> QED BY <1>1, <1>3, <1>4 DEF t1, h, u

\* Every step keeps the order of the datagrams on their way to the task.
LEMMA StepKeepsFlow == ASSUME RawInv, Flow, [Next]_vars PROVE Flow'
<1> DEFINE R == ToSet(received)
           X == ToSet(rx)
           T == ToSet(there)
           W == ToSet(txr)
           B == ToSet(tx_batch)
<1>1. /\ received \in Seq(Nat) /\ rx \in Seq(Nat) /\ there \in Seq(Nat) /\ txr \in Seq(Nat)
      /\ tx_batch \in Seq(Nat) /\ sends \in Nat
  BY DEF RawInv, Types
<1>2. /\ Inc(received) /\ Inc(rx) /\ Inc(there) /\ Inc(txr) /\ Inc(tx_batch)
      /\ Ascending(R, X, T, W, B, sends)
  BY DEF Flow
<1>3. Below(R, X) /\ Below(X, T) /\ Below(T, W) /\ Below(W, B)
  BY <1>2 DEF Ascending
<1>4. CASE UNCHANGED <<received, rx, there, txr, tx_batch, sends>>
  BY <1>2, <1>4 DEF Flow
<1>5. CASE send_to /\ UNCHANGED <<there, back, asyncVars>>
  <2>1. UNCHANGED <<received, rx, there, txr>> /\ sends' = sends + 1
    BY <1>5 DEF send_to, nicVars, asyncVars
  <2>2. sends + 1 \in Nat /\ sends <= sends + 1
    BY <1>1
  <2>3. Ascending(R, X, T, W, B, sends + 1)
    BY <1>1, <1>2, <2>2, AscendingShrinks
  <2>4. CASE UNCHANGED tx_batch
    BY <1>2, <2>1, <2>3, <2>4 DEF Flow
  <2>5. CASE tx_batch' = Append(tx_batch, sends')
    <3> DEFINE b1 == Append(tx_batch, sends + 1)
               n == sends + 1
    <3>1. \A x \in R \cup X \cup T \cup W \cup B : x \in 1..sends
      BY <1>2 DEF Ascending
    <3>2. \A x \in 1..sends : x < n
      BY <1>1
    <3>3. n \in Nat /\ n \in 1..n
      BY <1>1
    <3> HIDE DEF n
    <3>4. Below(B, {n})
      BY <3>1, <3>2 DEF Below
    <3>5. Inc(Append(tx_batch, n)) /\ ToSet(Append(tx_batch, n)) = B \cup {n}
      BY <1>1, <1>2, <3>3, <3>4, AppendElements
    <3>6. Ascending(R, X, T, W, B \cup {n}, n)
      <4>1. Ascending(R, X, T, W, B, n)
        BY <2>3 DEF n
      <4>2. Below(R, B \cup {n}) /\ Below(X, B \cup {n}) /\ Below(T, B \cup {n}) /\ Below(W, B \cup {n})
        BY <3>1, <3>2, <4>1 DEF Ascending, Below
      <4> QED BY <3>3, <4>1, <4>2 DEF Ascending
    <3>7. tx_batch' = Append(tx_batch, n) /\ sends' = n
      BY <2>1, <2>5 DEF n
    <3> QED BY <1>2, <2>1, <3>5, <3>6, <3>7 DEF Flow
  <2> QED BY <1>5, <2>4, <2>5 DEF send_to, PushFails
<1>6. CASE FlushLoop /\ tx_burst
  <2>1. UNCHANGED <<received, rx, there, sends>>
    BY <1>6 DEF FlushLoop, asyncVars
  <2> DEFINE t1 == txr \o SubSeq(tx_batch, 1, Taken)
             s1 == SubSeq(tx_batch, Taken + 1, Len(tx_batch))
  <2>2. /\ ToSet(s1) \subseteq B /\ ToSet(t1) \subseteq B \cup W
        /\ Inc(s1) /\ Inc(t1) /\ Below(ToSet(t1), ToSet(s1))
    BY <1>1, <1>2, <1>3, TakenFits, BurstElements
  <2>3. txr' = t1 /\ tx_batch' = s1
    BY <1>6 DEF tx_burst
  <2> HIDE DEF t1, s1
  <2>4. ToSet(t1) \in SUBSET (W \cup B) /\ ToSet(s1) \in SUBSET B
    BY <2>2
  <2>5. Ascending(R, X, T, ToSet(t1), ToSet(s1), sends)
    BY <1>2, <2>2, <2>4, AscendingMoves
  <2> QED BY <1>2, <2>1, <2>2, <2>3, <2>5 DEF Flow
<1>7. CASE NicTransmit
  <2>1. UNCHANGED <<received, rx, tx_batch, sends>> /\ txr # <<>>
        /\ txr' = Tail(txr) /\ there' = Append(there, Head(txr))
    BY <1>7 DEF NicTransmit, asyncVars
  <2>2. /\ Inc(txr') /\ Inc(there') /\ Below(ToSet(there'), ToSet(txr'))
        /\ ToSet(there') \in SUBSET (T \cup W) /\ ToSet(txr') \in SUBSET W
    BY <1>1, <1>2, <1>3, <2>1, HeadMoves
  <2>3. Ascending(R, X, ToSet(there'), ToSet(txr'), B, sends)
    BY <1>2, <2>2, AscendingMoves
  <2> QED BY <1>2, <2>1, <2>2, <2>3 DEF Flow
<1>8. ASSUME there' = Tail(there), there # <<>>, UNCHANGED <<received, rx, txr, tx_batch, sends>>
      PROVE  Flow'
  <2>0. X \in SUBSET X /\ sends <= sends
    BY <1>1
  <2>1. Inc(there') /\ ToSet(there') \in SUBSET T
    BY <1>1, <1>2, <1>8, TailElements
  <2>2. Ascending(R, X, ToSet(there'), W, B, sends)
    BY <1>1, <1>2, <2>0, <2>1, AscendingShrinks
  <2> QED BY <1>2, <1>8, <2>1, <2>2 DEF Flow
<1>9. CASE Ingress
  <2>1. UNCHANGED <<received, txr, tx_batch, sends>> /\ there # <<>> /\ there' = Tail(there)
    BY <1>9 DEF Ingress, rawVars, nicVars
  <2>2. CASE UNCHANGED rx
    BY <1>8, <2>1, <2>2
  <2>3. CASE rx' = Append(rx, Head(there))
    <3>1. /\ Inc(there') /\ Inc(rx') /\ Below(ToSet(rx'), ToSet(there'))
          /\ ToSet(rx') \in SUBSET (X \cup T) /\ ToSet(there') \in SUBSET T
      BY <1>1, <1>2, <1>3, <2>1, <2>3, HeadMoves
    <3>2. Ascending(R, ToSet(rx'), ToSet(there'), W, B, sends)
      BY <1>2, <3>1, AscendingMoves
    <3> QED BY <1>2, <2>1, <3>1, <3>2 DEF Flow
  <2> QED BY <1>9, <2>2, <2>3 DEF Ingress
<1>10. CASE Lose
  <2>1. CASE UNCHANGED there
    BY <1>4, <1>10, <2>1 DEF Lose, rawVars, nicVars, asyncVars
  <2>2. CASE there # <<>> /\ there' = Tail(there)
    BY <1>8, <1>10, <2>2 DEF Lose, rawVars, nicVars, asyncVars
  <2> QED BY <1>10, <2>1, <2>2 DEF Lose
<1>11. ASSUME Inc(rx'), ToSet(rx') \in SUBSET X, UNCHANGED <<received, there, txr, tx_batch, sends>>
       PROVE  Flow'
  <2>1. T \in SUBSET T /\ sends <= sends
    BY <1>1
  <2>2. Ascending(R, ToSet(rx'), T, W, B, sends)
    BY <1>1, <1>2, <1>11, <2>1, AscendingShrinks
  <2> QED BY <1>2, <1>11, <2>2 DEF Flow
<1>12. CASE PollRecv /\ UNCHANGED <<rawVars, nicVars, there, back>>
  <2>1. UNCHANGED <<there, txr, tx_batch, sends>>
    BY <1>12 DEF rawVars, nicVars
  <2>2. CASE UNCHANGED <<rx, received>>
    BY <1>4, <2>1, <2>2
  <2>3. CASE rx # <<>> /\ rx' = Tail(rx) /\ UNCHANGED received
    <3>1. Inc(rx') /\ ToSet(rx') \in SUBSET X
      BY <1>1, <1>2, <2>3, TailElements
    <3> QED BY <1>11, <2>1, <2>3, <3>1
  <2>4. CASE rx # <<>> /\ rx' = Tail(rx) /\ received' = Append(received, Head(rx))
    <3>1. /\ Inc(rx') /\ Inc(received') /\ Below(ToSet(received'), ToSet(rx'))
          /\ ToSet(received') \in SUBSET (R \cup X) /\ ToSet(rx') \in SUBSET X
      BY <1>1, <1>2, <1>3, <2>4, HeadMoves
    <3>2. Ascending(ToSet(received'), ToSet(rx'), T, W, B, sends)
      BY <1>2, <3>1, AscendingMoves
    <3> QED BY <1>2, <2>1, <3>1, <3>2 DEF Flow
  <2> QED BY <1>12, <2>2, <2>3, <2>4 DEF PollRecv
<1>13. CASE Owner
  <2>1. UNCHANGED <<received, there, txr, tx_batch, sends>> /\ rx' = <<>>
    BY <1>13 DEF Owner, close, DropSocket, close_socket, rawVars, nicVars
  <2>2. Inc(rx') /\ ToSet(rx') \in SUBSET X
    BY <2>1, EmptyElements
  <2> QED BY <1>11, <2>1, <2>2
<1>14. CASE Raw
  BY <1>4, <1>5, <1>14
  DEF Raw, bind, attach_queues, flush, poll, recv_from, FreeMbuf, nicVars, asyncVars
<1>15. CASE FlushLoop
  BY <1>4, <1>6, <1>15 DEF FlushLoop, asyncVars
<1>16. CASE Arrives \/ Egress
  BY <1>4, <1>16 DEF Arrives, Egress, rawVars, nicVars, asyncVars
<1>17. CASE PollSend /\ UNCHANGED <<rawVars, nicVars, there, back>>
  BY <1>4, <1>17 DEF PollSend, rawVars, nicVars
<1>18. CASE UNCHANGED vars
  BY <1>4, <1>18 DEF vars, rawVars, nicVars, asyncVars
<1> QED BY <1>7, <1>9, <1>10, <1>12, <1>13, <1>14, <1>15, <1>16, <1>17, <1>18 DEF Next, Task

\* A datagram is received: it is the one after those that are answered.
LEMMA ReceiveNext ==
    ASSUME NEW a \in Seq(Nat), NEW r \in Seq(Nat), NEW x \in Nat, Pre(a, r), Len(r) = Len(a)
    PROVE  LET r1 == Append(r, x)
           IN  Pre(a, r1) /\ Len(r1) = Len(a) + 1 /\ r1[Len(a) + 1] = x
<1> DEFINE r1 == Append(r, x)
           k == Len(a)
<1>1. k \in Nat /\ Len(r) = k /\ \A i \in 1..k : a[i] = r[i]
  BY LenProperties DEF Pre
<1>2. Len(r1) = Len(r) + 1 /\ (\A i \in 1..Len(r) : r1[i] = r[i]) /\ r1[Len(r) + 1] = x
  BY AppendProperties
<1> HIDE DEF r1, k
<1>3. Len(r1) = k + 1 /\ (\A i \in 1..k : r1[i] = r[i]) /\ r1[k + 1] = x
  BY <1>1, <1>2
<1>4. k <= k + 1
  BY <1>1
<1>5. Pre(a, r1)
  BY <1>1, <1>3, <1>4 DEF Pre, k
<1> QED BY <1>3, <1>5 DEF r1, k

\* It is answered: everything received is.
LEMMA AnswerNext ==
    ASSUME NEW a \in Seq(Nat), NEW r \in Seq(Nat), NEW x \in Nat, Pre(a, r),
           Len(r) = Len(a) + 1, r[Len(a) + 1] = x
    PROVE  Pre(Append(a, x), r) /\ Len(r) = Len(Append(a, x))
<1> DEFINE a1 == Append(a, x)
           k == Len(a)
<1>1. k \in Nat /\ Len(r) = k + 1 /\ r[k + 1] = x /\ \A i \in 1..k : a[i] = r[i]
  BY LenProperties DEF Pre
<1>2. Len(a1) = k + 1 /\ (\A i \in 1..k : a1[i] = a[i]) /\ a1[k + 1] = x
  BY AppendProperties
<1> HIDE DEF a1, k
<1>3. \A i \in 1..(k + 1) : i \in 1..k \/ i = k + 1
  BY <1>1
<1>4. \A i \in 1..(k + 1) : a1[i] = r[i]
  BY <1>1, <1>2, <1>3
<1>5. k + 1 <= k + 1
  BY <1>1
<1> QED BY <1>1, <1>2, <1>4, <1>5 DEF Pre, a1

\* send_to puts a datagram into the buffer of an open socket.
LEMMA QueueNext ==
    ASSUME NEW o \in Seq(Nat), NEW t \in Seq(Nat), NEW a \in Seq(Nat), NEW x \in Nat,
           NEW p, Queued(o, t, a, p), p
    PROVE  Queued(o, Append(t, x), Append(a, x), p)
<1> DEFINE a1 == Append(a, x)
           t1 == Append(t, x)
           k == Len(a)
           m == Len(o)
           n == Len(t)
<1>1. /\ k \in Nat /\ m \in Nat /\ n \in Nat /\ m + n = k
      /\ (\A i \in 1..m : o[i] = a[i]) /\ \A i \in 1..n : t[i] = a[m + i]
  BY LenProperties DEF Queued, Pre
<1>2. /\ Len(a1) = k + 1 /\ (\A i \in 1..k : a1[i] = a[i]) /\ a1[k + 1] = x
      /\ Len(t1) = n + 1 /\ (\A i \in 1..n : t1[i] = t[i]) /\ t1[n + 1] = x
  BY AppendProperties
<1> HIDE DEF a1, t1, k, m, n
<1>3. /\ \A i \in 1..(n + 1) : i \in 1..n \/ i = n + 1
      /\ (\A i \in 1..n : m + i \in 1..k) /\ m + (n + 1) = k + 1
      /\ (\A i \in 1..m : i \in 1..k) /\ m <= k + 1 /\ m + (n + 1) <= k + 1
  BY <1>1
<1>4. \A i \in 1..(n + 1) : t1[i] = a1[m + i]
  BY <1>1, <1>2, <1>3
<1>5. \A i \in 1..m : o[i] = a1[i]
  BY <1>1, <1>2, <1>3
<1>6. Pre(o, a1)
  BY <1>2, <1>3, <1>5 DEF Pre, m
<1>7. m + Len(t1) <= Len(a1) /\ m + Len(t1) = Len(a1) /\ \A i \in 1..Len(t1) : t1[i] = a1[m + i]
  BY <1>2, <1>3, <1>4
<1> QED BY <1>6, <1>7 DEF Queued, a1, t1, m

\* The head of the buffer leaves: it is the next to leave, and new.
LEMMA EmitNext ==
    ASSUME NEW o \in Seq(Nat), NEW t \in Seq(Nat), NEW a \in Seq(Nat), NEW p,
           Queued(o, t, a, p), t # <<>>
    PROVE  /\ Queued(Append(o, Head(t)), Tail(t), a, p)
           /\ Len(o) + 1 \in 1..Len(a) /\ Head(t) = a[Len(o) + 1]
<1> DEFINE h == Head(t)
           u == Tail(t)
           o1 == Append(o, h)
           k == Len(a)
           m == Len(o)
           n == Len(t)
<1>1. /\ k \in Nat /\ m \in Nat /\ n \in Nat /\ m + n <= k /\ (p => m + n = k)
      /\ (\A i \in 1..m : o[i] = a[i]) /\ \A i \in 1..n : t[i] = a[m + i]
  BY LenProperties DEF Queued, Pre
<1>2. /\ n # 0 /\ h = t[1] /\ h \in Nat /\ u \in Seq(Nat) /\ Len(u) = n - 1
  BY HeadTailProperties, EmptySeq
<1>3. \A i \in 1..Len(u) : u[i] = t[i + 1]
  BY HeadTailProperties
<1> HIDE DEF h, u
<1>4. Len(o1) = m + 1 /\ (\A i \in 1..m : o1[i] = o[i]) /\ o1[m + 1] = h
  BY <1>2, AppendProperties
<1> HIDE DEF o1, k, m, n
<1>5. /\ \A i \in 1..(m + 1) : i \in 1..m \/ i = m + 1
      /\ (\A i \in 1..(n - 1) : i + 1 \in 1..n /\ m + (i + 1) = (m + 1) + i)
      /\ 1 \in 1..n /\ m + 1 \in 1..k /\ m + 1 <= k /\ (m + 1) + (n - 1) <= k
      /\ (p => (m + 1) + (n - 1) = k)
  BY <1>1, <1>2
<1>6. h = a[m + 1]
  BY <1>1, <1>2, <1>5
<1>7. \A i \in 1..(m + 1) : o1[i] = a[i]
  BY <1>1, <1>4, <1>5, <1>6
<1>8. Pre(o1, a)
  BY <1>4, <1>5, <1>7 DEF Pre, k
<1>9. \A i \in 1..(n - 1) : u[i] = a[(m + 1) + i]
  BY <1>1, <1>2, <1>3, <1>5
<1>10. /\ Len(o1) + Len(u) <= k /\ (p => Len(o1) + Len(u) = k)
       /\ \A i \in 1..Len(u) : u[i] = a[Len(o1) + i]
  BY <1>2, <1>4, <1>5, <1>9
<1>11. Queued(o1, u, a, p)
  BY <1>8, <1>10 DEF Queued, k
<1> QED BY <1>5, <1>6, <1>11 DEF o1, h, u, k, m

\* close empties the buffer: what has not left stays behind.
LEMMA CloseEmpties ==
    ASSUME NEW o \in Seq(Nat), NEW t \in Seq(Nat), NEW a \in Seq(Nat), NEW p, Queued(o, t, a, p)
    PROVE  Queued(o, <<>>, a, FALSE)
<1> DEFINE k == Len(a)
           m == Len(o)
           n == Len(t)
<1>1. k \in Nat /\ m \in Nat /\ n \in Nat /\ m + n <= k /\ Pre(o, a)
  BY LenProperties DEF Queued
<1>2. Len(<<>>) = 0
  BY EmptySeq
<1>3. m + 0 <= k /\ \A i \in 1..0 : FALSE
  <2> HIDE DEF k, m, n
  <2> QED BY <1>1
<1>4. m + Len(<<>>) <= k /\ \A i \in 1..Len(<<>>) : FALSE
  BY <1>2, <1>3
<1> HIDE DEF n
<1> QED BY <1>1, <1>4 DEF Queued

\* Every step keeps the answers a prefix of what was received, and what was sent a
\* prefix of the answers.
LEMMA StepKeepsAnswers ==
    ASSUME RawInv, Accepted, Sent, [Next]_vars PROVE Accepted' /\ Sent'
<1>1. /\ received \in Seq(Nat) /\ rx \in Seq(Nat) /\ answered \in Seq(Nat) /\ tx \in Seq(Nat)
      /\ out \in Seq(Nat) /\ cur \in Nat
  BY DEF RawInv, Types
<1>2. Queued(out, tx, answered, open) /\ Pre(answered, received)
  BY DEF Sent, Accepted
<1>3. CASE UNCHANGED <<received, answered, tx, out, pc, cur, open>>
  BY <1>3 DEF Accepted, Sent
<1>4. CASE PollRecv
  <2>1. UNCHANGED <<open, tx, answered, out>> /\ pc = "recv"
    BY <1>4 DEF PollRecv
  <2>2. Sent'
    BY <1>2, <2>1 DEF Sent
  <2>3. CASE UNCHANGED <<received, pc, cur>>
    BY <2>1, <2>2, <2>3 DEF Accepted
  <2>4. CASE rx # <<>> /\ pc' = "send" /\ cur' = Head(rx) /\ received' = Append(received, Head(rx))
    <3>1. Head(rx) \in Nat
      BY <1>1, <2>4, HeadTailProperties
    <3>2. Len(received) = Len(answered)
      BY <2>1 DEF Accepted
    <3>3. /\ Pre(answered, received') /\ Len(received') = Len(answered) + 1
          /\ received'[Len(answered) + 1] = cur'
      BY <1>1, <1>2, <2>4, <3>1, <3>2, ReceiveNext
    <3> QED BY <2>1, <2>2, <2>4, <3>3 DEF Accepted
  <2> QED BY <1>4, <2>3, <2>4 DEF PollRecv
<1>5. CASE PollSend
  <2>1. UNCHANGED <<open, rx, cur, received, out>> /\ pc = "send"
    BY <1>5 DEF PollSend
  <2>2. CASE UNCHANGED <<tx, answered>> /\ pc' \in {"done", "send"}
    <3>1. Sent'
      BY <1>2, <2>1, <2>2 DEF Sent
    <3>2. Accepted'
      BY <2>1, <2>2 DEF Accepted
    <3> QED BY <3>1, <3>2
  <2>3. CASE open /\ tx' = Append(tx, cur) /\ answered' = Append(answered, cur) /\ pc' = "recv"
    <3>1. Len(received) = Len(answered) + 1 /\ received[Len(answered) + 1] = cur
      BY <2>1 DEF Accepted
    <3>2. Pre(answered', received) /\ Len(received) = Len(answered')
      BY <1>1, <1>2, <2>3, <3>1, AnswerNext
    <3>3. Queued(out, tx', answered', open)
      BY <1>1, <1>2, <2>3, QueueNext
    <3>4. Sent'
      BY <2>1, <3>3 DEF Sent
    <3>5. Accepted'
      BY <2>1, <2>3, <3>2 DEF Accepted
    <3> QED BY <3>4, <3>5
  <2> QED BY <1>5, <2>1, <2>2, <2>3 DEF PollSend, SendPending
<1>6. CASE Egress
  <2>1. /\ UNCHANGED <<open, received, answered, pc, cur>> /\ tx # <<>>
        /\ tx' = Tail(tx) /\ out' = Append(out, Head(tx))
    BY <1>6 DEF Egress
  <2>2. Queued(out', tx', answered, open)
    BY <1>1, <1>2, <2>1, EmitNext
  <2>3. Sent'
    BY <2>1, <2>2 DEF Sent
  <2> QED BY <2>1, <2>3 DEF Accepted
<1>7. CASE Owner
  <2>1. /\ UNCHANGED <<received, answered, out, cur>> /\ tx' = <<>> /\ open' = FALSE
        /\ pc' \in {pc, "done"}
    BY <1>7 DEF Owner, close, DropSocket, close_socket
  <2>2. Queued(out, <<>>, answered, FALSE)
    BY <1>1, <1>2, CloseEmpties
  <2>3. Sent'
    BY <2>1, <2>2 DEF Sent
  <2>4. Accepted'
    BY <2>1 DEF Accepted
  <2> QED BY <2>3, <2>4
<1>8. CASE Raw \/ FlushLoop \/ NicTransmit \/ Arrives \/ Lose
  BY <1>3, <1>8 DEF Raw, FlushLoop, NicTransmit, Arrives, Lose, asyncVars
<1>9. CASE Ingress
  BY <1>3, <1>9 DEF Ingress
<1>10. CASE UNCHANGED vars
  BY <1>3, <1>10 DEF vars, asyncVars
<1> QED BY <1>4, <1>5, <1>6, <1>7, <1>8, <1>9, <1>10 DEF Next, Task

\* Frames that get lost leave the others in one place each.
LEMMA SeparateShrinks ==
    ASSUME NEW K, NEW I, NEW J, NEW E, NEW O, Separate(K, I, J, E, O),
           NEW K1 \in SUBSET K, NEW J1 \in SUBSET J
    PROVE  Separate(K1, I, J1, E, O)
BY DEF Separate, Apart

\* A frame, or a burst, that advances is in one place again.
LEMMA SeparateMoves ==
    ASSUME NEW K, NEW I, NEW J, NEW E, NEW O, Separate(K, I, J, E, O)
    PROVE  /\ \A K1 \in SUBSET K, I1 \in SUBSET (I \cup K) :
                Apart(K1, I1) => Separate(K1, I1, J, E, O)
           /\ \A I1 \in SUBSET I, J1 \in SUBSET (J \cup I) :
                Apart(I1, J1) => Separate(K, I1, J1, E, O)
           /\ \A J1 \in SUBSET J, x \in J :
                x # Stray /\ Apart(J1, E \cup {x}) => Separate(K, I, J1, E \cup {x}, O)
<1>1. ASSUME NEW K1 \in SUBSET K, NEW I1 \in SUBSET (I \cup K), Apart(K1, I1)
      PROVE  Separate(K1, I1, J, E, O)
  BY <1>1 DEF Separate, Apart
<1>2. ASSUME NEW I1 \in SUBSET I, NEW J1 \in SUBSET (J \cup I), Apart(I1, J1)
      PROVE  Separate(K, I1, J1, E, O)
  BY <1>2 DEF Separate, Apart
<1>3. ASSUME NEW J1 \in SUBSET J, NEW x \in J, x # Stray, Apart(J1, E \cup {x})
      PROVE  Separate(K, I, J1, E \cup {x}, O)
  BY <1>3 DEF Separate, Apart
<1> QED BY <1>1, <1>2, <1>3

\* What leaves the socket has not left it before, and is a datagram.
LEMMA EmittedIsNew ==
    ASSUME RawInv, Flow, Accepted, Sent, tx # <<>>
    PROVE  Head(tx) \notin ToSet(out) /\ Head(tx) # Stray /\ Head(tx) \in Nat
<1> DEFINE h == Head(tx)
           m == Len(out)
           k == Len(answered)
           l == Len(received)
<1>1. /\ received \in Seq(Nat) /\ answered \in Seq(Nat) /\ tx \in Seq(Nat) /\ out \in Seq(Nat)
      /\ sends \in Nat
  BY DEF RawInv, Types
<1>2. m + 1 \in 1..k /\ h = answered[m + 1]
  BY <1>1, EmitNext DEF Sent
<1>3. m \in Nat /\ k \in Nat /\ l \in Nat /\ k <= l
  BY <1>1, LenProperties DEF Accepted, Pre
<1>4. (\A i \in 1..m : out[i] = answered[i]) /\ (\A i \in 1..k : answered[i] = received[i])
  BY DEF Accepted, Sent, Queued, Pre
<1>5. \A i, j \in 1..l : i < j => received[i] < received[j]
  BY DEF Flow, Inc
<1>6. \A i \in 1..l : received[i] \in 1..sends
  <2>1. \A i \in 1..l : received[i] \in ToSet(received)
    BY <1>1, Elements
  <2>2. ToSet(received) \subseteq 1..sends
    BY DEF Flow, Ascending
  <2> QED BY <2>1, <2>2
<1>7. \A x \in ToSet(out) : \E i \in 1..m : out[i] = x
  BY <1>1, Elements
<1> HIDE DEF h, m, k, l
<1>8. m + 1 \in 1..l /\ \A i \in 1..m : i \in 1..k /\ i \in 1..l /\ i < m + 1
  BY <1>2, <1>3
<1>9. h = received[m + 1] /\ \A i \in 1..m : out[i] = received[i]
  BY <1>2, <1>4, <1>8
<1>10. \A i \in 1..m : out[i] < h /\ out[i] \in 1..sends
  BY <1>5, <1>6, <1>8, <1>9
<1>11. h \in 1..sends
  BY <1>6, <1>8, <1>9
<1>12. h \in Nat /\ h # Stray
  BY <1>1, <1>11 DEF Stray
<1>13. \A i \in 1..m : out[i] # h
  BY <1>1, <1>10, <1>12
<1> QED BY <1>7, <1>12, <1>13 DEF h

\* Every step leaves an echo in one place on its way back.
LEMMA StepKeepsEchoes ==
    ASSUME RawInv, DatagramInv, [Next]_vars PROVE Echoes'
<1> DEFINE K == ToSet(back)
           I == ToSet(rxr)
           J == ToSet(rx_batch)
           E == ToSet(echoed)
           O == ToSet(out)
<1>1. /\ back \in Seq(Nat) /\ rxr \in Seq(Nat) /\ rx_batch \in Seq(Nat) /\ echoed \in Seq(Nat)
      /\ out \in Seq(Nat)
  BY DEF RawInv, Types
<1>2. /\ Distinct(back) /\ Distinct(rxr) /\ Distinct(rx_batch) /\ Distinct(echoed)
      /\ Separate(K, I, J, E, O)
  BY DEF DatagramInv, Echoes
<1>3. CASE UNCHANGED <<back, rxr, rx_batch, echoed, out>>
  BY <1>2, <1>3 DEF Echoes
<1>4. CASE Egress
  <2> DEFINE h == Head(tx)
  <2>1. /\ UNCHANGED <<rxr, rx_batch, echoed>> /\ tx # <<>>
        /\ out' = Append(out, h) /\ back' = Append(back, h)
    BY <1>4 DEF Egress, rawVars, nicVars
  <2>2. h \notin O /\ h # Stray /\ h \in Nat
    BY <2>1, EmittedIsNew DEF DatagramInv
  <2> HIDE DEF h
  <2>3. ToSet(out') = O \cup {h}
    BY <1>1, <2>1, <2>2, AppendElements
  <2>4. h \notin K /\ h \notin I /\ h \notin J /\ h \notin E
    BY <1>2, <2>2 DEF Separate
  <2>5. Apart(K, {h})
    BY <2>4 DEF Apart
  <2>6. Distinct(back') /\ ToSet(back') = K \cup {h}
    BY <1>1, <1>2, <2>1, <2>2, <2>5, AppendElements
  <2>7. Separate(K \cup {h}, I, J, E, O \cup {h})
    BY <1>2, <2>4 DEF Separate, Apart
  <2> QED BY <1>2, <2>1, <2>3, <2>6, <2>7 DEF Echoes
<1>5. ASSUME back # <<>>, back' = Tail(back), UNCHANGED <<rxr, rx_batch, echoed, out>> PROVE Echoes'
  <2>1. Distinct(back') /\ ToSet(back') \in SUBSET K /\ J \in SUBSET J
    BY <1>1, <1>2, <1>5, TailElements
  <2>2. Separate(ToSet(back'), I, J, E, O)
    BY <1>2, <2>1, SeparateShrinks
  <2> QED BY <1>2, <1>5, <2>1, <2>2 DEF Echoes
<1>6. CASE Lose
  BY <1>3, <1>5, <1>6 DEF Lose, rawVars, nicVars, asyncVars
<1>7. CASE Arrives
  <2>1. UNCHANGED <<rx_batch, echoed, out>>
    BY <1>7 DEF Arrives, asyncVars
  <2>2. CASE UNCHANGED rxr
    BY <1>3, <1>5, <1>7, <2>1, <2>2 DEF Arrives
  <2>3. CASE UNCHANGED back /\ rxr' = Append(rxr, Stray)
    <3>1. Stray \in Nat /\ Apart(I, {Stray})
      BY DEF Stray, Apart
    <3>2. Distinct(rxr') /\ ToSet(rxr') = I \cup {Stray}
      BY <1>1, <1>2, <2>3, <3>1, AppendElements
    <3>3. Separate(K, I \cup {Stray}, J, E, O)
      BY <1>2 DEF Separate, Apart
    <3> QED BY <1>2, <2>1, <2>3, <3>2, <3>3 DEF Echoes
  <2>4. CASE back # <<>> /\ back' = Tail(back) /\ rxr' = Append(rxr, Head(back))
    <3> DEFINE h == Head(back)
               u == Tail(back)
    <3>1. /\ h \in Nat /\ h \in K /\ ToSet(u) \subseteq K
          /\ Distinct(u) /\ Apart({h}, ToSet(u))
      BY <1>1, <1>2, <2>4, TailElements
    <3> HIDE DEF h, u
    <3>2. Apart(I, {h})
      BY <1>2, <3>1 DEF Separate, Apart
    <3>3. rxr' = Append(rxr, h) /\ back' = u
      BY <2>4 DEF h, u
    <3>4. Distinct(rxr') /\ ToSet(rxr') = I \cup {h}
      BY <1>1, <1>2, <3>1, <3>2, <3>3, AppendElements
    <3>5. Apart(ToSet(u), I \cup {h})
      BY <1>2, <3>1 DEF Separate, Apart
    <3>6. ToSet(u) \in SUBSET K /\ I \cup {h} \in SUBSET (I \cup K)
      BY <3>1
    <3>7. Separate(ToSet(u), I \cup {h}, J, E, O)
      BY <1>2, <3>5, <3>6, SeparateMoves
    <3> QED BY <1>2, <2>1, <3>1, <3>3, <3>4, <3>7 DEF Echoes
  <2> QED BY <1>7, <2>2, <2>3, <2>4 DEF Arrives, NicReceive
<1>8. CASE poll /\ UNCHANGED <<there, back, asyncVars>>
  <2> DEFINE a == BatchSize - Len(rx_batch)
             b == Len(rxr)
             n == Min({a, b})
             t1 == rx_batch \o SubSeq(rxr, 1, n)
             s1 == SubSeq(rxr, n + 1, Len(rxr))
  <2>1. rx_batch' = t1 /\ rxr' = s1 /\ UNCHANGED <<echoed, out, back>>
    BY <1>8 DEF poll, rx_burst, asyncVars
  <2>2. a \in Nat /\ b \in Nat
    BY Ledger DEF Balance
  <2>3. n = IF a <= b THEN a ELSE b
    BY <2>2, MinOfTwo
  <2>4. n \in 0..Len(rxr)
    <3> HIDE DEF n
    <3> QED BY <2>2, <2>3
  <2> HIDE DEF n
  <2>5. Apart(J, I)
    BY <1>2 DEF Separate, Apart
  <2>6. /\ ToSet(s1) \subseteq I /\ ToSet(t1) \subseteq I \cup J
        /\ Distinct(s1) /\ Distinct(t1) /\ Apart(ToSet(t1), ToSet(s1))
    BY <1>1, <1>2, <2>4, <2>5, BurstElements
  <2> HIDE DEF s1, t1
  <2>7. ToSet(s1) \in SUBSET I /\ ToSet(t1) \in SUBSET (J \cup I) /\ Apart(ToSet(s1), ToSet(t1))
    BY <2>6 DEF Apart
  <2>8. Separate(K, ToSet(s1), ToSet(t1), E, O)
    BY <1>2, <2>7, SeparateMoves
  <2> QED BY <1>2, <2>1, <2>6, <2>8 DEF Echoes
<1>9. CASE recv_from /\ UNCHANGED <<there, back, asyncVars>>
  <2> DEFINE h == Last(rx_batch)
             u == Front(rx_batch)
  <2>1. /\ rx_batch # <<>> /\ rx_batch' = u /\ UNCHANGED <<rxr, out, back>>
        /\ (IF h = Stray THEN UNCHANGED echoed ELSE echoed' = Append(echoed, h))
    BY <1>9 DEF recv_from, nicVars, asyncVars
  <2>2. h \in Nat /\ h \in J /\ ToSet(u) \subseteq J /\ Distinct(u) /\ Apart({h}, ToSet(u))
    BY <1>1, <1>2, <2>1, FrontElements
  <2> HIDE DEF h, u
  <2>3. CASE h = Stray
    <3>1. K \in SUBSET K /\ ToSet(u) \in SUBSET J
      BY <2>2
    <3>2. Separate(K, I, ToSet(u), E, O)
      BY <1>2, <3>1, SeparateShrinks
    <3> QED BY <1>2, <2>1, <2>2, <2>3, <3>2 DEF Echoes
  <2>4. CASE h # Stray
    <3>1. Apart(E, {h})
      BY <1>2, <2>2 DEF Separate, Apart
    <3>2. Distinct(echoed') /\ ToSet(echoed') = E \cup {h}
      BY <1>1, <1>2, <2>1, <2>2, <2>4, <3>1, AppendElements
    <3>3. ToSet(u) \in SUBSET J /\ Apart(ToSet(u), E \cup {h})
      BY <1>2, <2>2 DEF Separate, Apart
    <3>4. Separate(K, I, ToSet(u), E \cup {h}, O)
      BY <1>2, <2>2, <2>4, <3>3, SeparateMoves
    <3> QED BY <1>2, <2>1, <2>2, <3>2, <3>4 DEF Echoes
  <2> QED BY <2>3, <2>4
<1>10. CASE Raw
  BY <1>3, <1>8, <1>9, <1>10
  DEF Raw, bind, attach_queues, send_to, flush, FreeMbuf, nicVars, asyncVars
<1>11. CASE FlushLoop \/ NicTransmit
  BY <1>3, <1>11 DEF FlushLoop, NicTransmit, asyncVars
<1>12. CASE Ingress \/ Task \/ Owner
  BY <1>3, <1>12
  DEF Ingress, Task, Owner, PollRecv, PollSend, close, DropSocket, rawVars, nicVars
<1>13. CASE UNCHANGED vars
  BY <1>3, <1>13 DEF vars, rawVars, nicVars, asyncVars
<1> QED BY <1>4, <1>6, <1>7, <1>10, <1>11, <1>12, <1>13 DEF Next

\* Everything is empty at the start.
LEMMA DatagramInit == Init => DatagramInv
<1> SUFFICES ASSUME Init PROVE DatagramInv
  OBVIOUS
<1>1. /\ received = <<>> /\ rx = <<>> /\ there = <<>> /\ txr = <<>> /\ tx_batch = <<>>
      /\ answered = <<>> /\ tx = <<>> /\ out = <<>> /\ back = <<>> /\ rxr = <<>>
      /\ rx_batch = <<>> /\ echoed = <<>> /\ pc = "recv"
  BY DEF Init
<1>2. Flow
  BY <1>1, EmptyElements DEF Flow, Ascending, Below
<1>3. 0 <= 0 /\ 0 + 0 = 0 /\ 0 + 0 <= 0 /\ \A i \in 1..0 : FALSE
  OBVIOUS
<1>4. Pre(<<>>, <<>>) /\ Queued(<<>>, <<>>, <<>>, open)
  BY <1>3, EmptyElements DEF Pre, Queued
<1>5. Accepted /\ Sent
  BY <1>1, <1>4 DEF Accepted, Sent
<1>6. Echoes
  BY <1>1, EmptyElements DEF Echoes, Separate, Apart
<1> QED BY <1>2, <1>5, <1>6 DEF DatagramInv

\* A sequence that agrees with the start of another is a prefix of it.
LEMMA PrefixMeans ==
    ASSUME NEW s \in Seq(Nat), NEW t \in Seq(Nat), Pre(s, t)
    PROVE  IsPrefix(s, t)
<1> DEFINE n == Len(s)
           u == SubSeq(s, 1, n)
           v == SubSeq(t, 1, n)
<1>1. n \in Nat /\ n \in 0..Len(s) /\ n \in 0..Len(t) /\ n <= Len(t)
  <2>1. n \in Nat /\ Len(t) \in Nat /\ n <= Len(t)
    BY LenProperties DEF Pre
  <2> DEFINE m == Len(t)
  <2> HIDE DEF n, m
  <2>2. n \in 0..n /\ n \in 0..m /\ n <= m
    BY <2>1 DEF m
  <2> QED BY <2>1, <2>2 DEF n, m
<1>2. u \in Seq(Nat) /\ Len(u) = n /\ \A i \in 1..n : u[i] = s[i]
  BY <1>1, SplitSeq
<1>3. v \in Seq(Nat) /\ Len(v) = n /\ \A i \in 1..n : v[i] = t[i]
  BY <1>1, SplitSeq
<1>4. \A i \in 1..n : s[i] = t[i]
  BY DEF Pre
<1> HIDE DEF n, u, v
<1>5. \A i \in 1..n : u[i] = v[i]
  BY <1>2, <1>3, <1>4
<1>6. u = v
  BY <1>2, <1>3, <1>5, SeqEqual
<1> QED BY <1>1, <1>6 DEF IsPrefix, u, v, n

\* What left the socket and what waits in it, one after the other.
LEMMA QueuedMeans ==
    ASSUME NEW o \in Seq(Nat), NEW t \in Seq(Nat), NEW a \in Seq(Nat), NEW p, Queued(o, t, a, p)
    PROVE  o \o t \in Seq(Nat) /\ Pre(o \o t, a) /\ (p => o \o t = a)
<1> DEFINE s == o \o t
           k == Len(a)
           m == Len(o)
           n == Len(t)
<1>1. /\ k \in Nat /\ m \in Nat /\ n \in Nat /\ m + n <= k /\ (p => m + n = k)
      /\ (\A i \in 1..m : o[i] = a[i]) /\ \A i \in 1..n : t[i] = a[m + i]
  BY LenProperties DEF Queued, Pre
<1>2. /\ s \in Seq(Nat) /\ Len(s) = m + n
      /\ \A i \in 1..(m + n) : s[i] = IF i <= m THEN o[i] ELSE t[i - m]
  BY ConcatProperties
<1> HIDE DEF s, k, m, n
<1>3. ASSUME NEW i \in 1..(m + n) PROVE s[i] = a[i]
  <2>1. CASE i <= m
    <3>1. i \in 1..m
      BY <1>1, <2>1
    <3> QED BY <1>1, <1>2, <2>1, <3>1
  <2>2. CASE ~(i <= m)
    <3>1. i - m \in 1..n /\ m + (i - m) = i
      BY <1>1, <2>2
    <3> QED BY <1>1, <1>2, <2>2, <3>1
  <2> QED BY <2>1, <2>2
<1>4. Pre(s, a)
  BY <1>1, <1>2, <1>3 DEF Pre, k
<1>5. ASSUME p PROVE s = a
  <2>1. Len(s) = k
    BY <1>1, <1>2, <1>5
  <2>2. \A i \in 1..Len(s) : s[i] = a[i]
    BY <1>2, <1>3
  <2> QED BY <1>2, <2>1, <2>2, SeqEqual DEF k
<1> QED BY <1>2, <1>4, <1>5 DEF s

\* The property follows from the invariant.
LEMMA DatagramInvMeans == RawInv /\ DatagramInv => DatagramsExact
<1> SUFFICES ASSUME RawInv, DatagramInv PROVE DatagramsExact
  OBVIOUS
<1>1. /\ received \in Seq(Nat) /\ answered \in Seq(Nat) /\ tx \in Seq(Nat) /\ out \in Seq(Nat)
      /\ echoed \in Seq(Nat) /\ sends \in Nat
  BY DEF RawInv, Types
<1>2. \A i, j \in DOMAIN received : i < j => received[i] < received[j]
  BY <1>1, LenProperties DEF DatagramInv, Flow, Inc
<1>3. IsPrefix(answered, received)
  BY <1>1, PrefixMeans DEF DatagramInv, Accepted
<1>4. /\ out \o tx \in Seq(Nat) /\ Pre(out \o tx, answered)
      /\ (open => out \o tx = answered)
  BY <1>1, QueuedMeans DEF DatagramInv, Sent
<1>5. IsPrefix(out \o tx, answered)
  BY <1>1, <1>4, PrefixMeans
<1>6. ToSet(echoed) \subseteq ToSet(out)
  BY DEF DatagramInv, Echoes, Separate
<1>7. Stray \notin ToSet(out)
  <2> DEFINE m == Len(out)
             k == Len(answered)
             l == Len(received)
  <2>1. m \in Nat /\ k \in Nat /\ l \in Nat /\ m <= k /\ k <= l
    BY <1>1, LenProperties DEF DatagramInv, Accepted, Sent, Queued, Pre
  <2>2. (\A i \in 1..m : out[i] = answered[i]) /\ (\A i \in 1..k : answered[i] = received[i])
    BY DEF DatagramInv, Accepted, Sent, Queued, Pre
  <2>3. \A i \in 1..l : received[i] \in ToSet(received)
    BY <1>1, Elements
  <2>4. ToSet(received) \subseteq 1..sends
    BY DEF DatagramInv, Flow, Ascending
  <2>5. \A x \in ToSet(out) : \E i \in 1..m : out[i] = x
    BY <1>1, Elements
  <2> HIDE DEF m, k, l
  <2>6. \A i \in 1..m : i \in 1..k /\ i \in 1..l
    BY <2>1
  <2>7. \A x \in ToSet(out) : x \in 1..sends
    BY <2>2, <2>3, <2>4, <2>5, <2>6
  <2> QED BY <1>1, <2>7 DEF Stray
<1>8. IsInjective(echoed)
  <2>1. DOMAIN echoed = 1..Len(echoed) /\ \A i \in 1..Len(echoed) : echoed[i] \in ToSet(echoed)
    BY <1>1, Elements, LenProperties
  <2>2. \A i, j \in 1..Len(echoed) : i # j => echoed[i] # echoed[j] \/ echoed[i] = Stray
    BY DEF DatagramInv, Echoes, Distinct
  <2> QED BY <1>6, <1>7, <2>1, <2>2 DEF IsInjective
<1> QED BY <1>2, <1>3, <1>4, <1>5, <1>6, <1>8 DEF DatagramsExact

\* For buffers, batches and rings of every size and a network that loses what it
\* likes: the async socket makes up, duplicates and reorders nothing, what send_to
\* accepted leaves in that order, and the raw socket gets no echo twice, although its
\* batch is emptied from the end.
THEOREM DatagramsArriveOnce == Spec => []DatagramsExact
<1>1. RawInv /\ DatagramInv /\ [Next]_vars => DatagramInv'
  <2> SUFFICES ASSUME RawInv, DatagramInv, [Next]_vars PROVE DatagramInv'
    OBVIOUS
  <2>1. Flow'
    BY StepKeepsFlow DEF DatagramInv
  <2>2. Accepted' /\ Sent'
    BY StepKeepsAnswers DEF DatagramInv
  <2>3. Echoes'
    BY StepKeepsEchoes
  <2> QED BY <2>1, <2>2, <2>3 DEF DatagramInv
<1> QED BY <1>1, DatagramInit, DatagramInvMeans, RawAlways, PTL DEF Spec
=============================================================================
