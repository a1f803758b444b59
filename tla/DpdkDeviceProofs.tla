-------------------------- MODULE DpdkDeviceProofs --------------------------
(***************************************************************************)
(* Proofs about DpdkDevice for every number of queues and every size of    *)
(* ring, batch and mempool: no mbuf is lost or freed twice, received       *)
(* frames are delivered exactly once, sent frames keep their order, a      *)
(* token of transmit() never panics, and the devices implement             *)
(* SharedArpCache.                                                         *)
(***************************************************************************)
EXTENDS DpdkDevice, SequenceTheorems, FiniteSetTheorems,
        WellFoundedInduction, TLAPS

(* Sequences *)

\* The smallest of three numbers.
LEMMA MinOfThree ==
  ASSUME NEW a \in Int, NEW b \in Int, NEW c \in Int
  PROVE  LET m == Min({a, b, c})
         IN  m \in {a, b, c} /\ m <= a /\ m <= b /\ m <= c
<1>1. \E x \in {a, b, c} : \A y \in {a, b, c} : x <= y
  OBVIOUS
<1> QED BY <1>1 DEF Min

\* The smaller of two numbers.
LEMMA MinOfTwo ==
  ASSUME NEW a \in Int, NEW b \in Int
  PROVE  LET m == Min({a, b}) IN m \in {a, b} /\ m <= a /\ m <= b
<1>1. \E x \in {a, b} : \A y \in {a, b} : x <= y
  OBVIOUS
<1> QED BY <1>1 DEF Min

\* A nonempty set of natural numbers has a least element: induction in the
\* form in which the provers can use it.
LEMMA LeastNat ==
  ASSUME NEW T \in SUBSET Nat, T # {}
  PROVE  \E m \in T : \A n \in T : m <= n
<1> DEFINE R == OpToRel(<, Nat)
<1>1. IsWellFoundedOn(R, Nat)
  BY NatLessThanWellFounded
<1>2. \A n, m \in Nat : <<n, m>> \in R <=> n < m
  BY DEF R, OpToRel
<1> HIDE DEF R
<1>3. PICK m \in T : \A n \in T : ~(<<n, m>> \in R)
  BY <1>1, WFMin
<1>4. \A n \in T : ~(n < m)
  BY <1>2, <1>3
<1> QED BY <1>3, <1>4

\* The first n elements of a sequence.
LEMMA PrefixOf ==
  ASSUME NEW S, NEW s \in Seq(S), NEW n \in 0..Len(s)
  PROVE  /\ SubSeq(s, 1, n) \in Seq(S) /\ Len(SubSeq(s, 1, n)) = n
         /\ \A i \in 1..n : SubSeq(s, 1, n)[i] = s[i]
<1>1. \A i \in 1..Len(s) : s[i] \in S
  BY ElementOfSeq
<1> QED BY <1>1, SubSeqProperties

\* What is left of a sequence without its first n elements.
LEMMA RestOf ==
  ASSUME NEW S, NEW s \in Seq(S), NEW n \in 0..Len(s)
  PROVE  /\ SubSeq(s, n + 1, Len(s)) \in Seq(S)
         /\ Len(SubSeq(s, n + 1, Len(s))) = Len(s) - n
         /\ \A i \in 1..(Len(s) - n) : SubSeq(s, n + 1, Len(s))[i] = s[n + i]
<1>1. \A i \in 1..Len(s) : s[i] \in S
  BY ElementOfSeq
<1> QED BY <1>1, SubSeqProperties

\* A sequence without its last element.
LEMMA FrontOf ==
  ASSUME NEW S, NEW s \in Seq(S), s # <<>>
  PROVE  /\ Front(s) \in Seq(S) /\ Len(s) \in Nat \ {0} /\ Len(Front(s)) = Len(s) - 1
         /\ \A i \in 1..(Len(s) - 1) : Front(s)[i] = s[i]
         /\ Last(s) \in S /\ Last(s) = s[Len(s)]
<1>1. Len(s) \in Nat /\ Len(s) # 0
  BY EmptySeq, LenProperties
<1>2. Len(s) - 1 \in 0..Len(s)
  BY <1>1
<1>3. Last(s) \in S
  BY <1>1, ElementOfSeq DEF Last
<1> QED BY <1>1, <1>2, <1>3, PrefixOf DEF Front, Last
-----------------------------------------------------------------------------
Frame == ArpFrame \cup DataFrame
Labels == {"idle", "scan", "bump", "inject", "snapshot", "loop", "pop"}

CacheTypes ==
  /\ inner \in Map /\ version \in Nat
  /\ last_cache_version \in [Queues -> Nat]
  /\ pc \in [Queues -> Labels]
  /\ current_version \in [Queues -> Nat]
  /\ cache_snapshot \in [Queues -> Map]
  /\ todo \in [Queues -> SUBSET Ips]
  /\ rx_injected \in [Queues -> Map]
  /\ neighbor \in [Queues -> Map]
  /\ arps \in Nat /\ fabricated \in Nat /\ expiries \in Nat

BatchTypes ==
  /\ free \in Nat
  /\ rx_ring \in [Queues -> Seq(Frame)] /\ rx_batch \in [Queues -> Seq(Frame)]
  /\ tx_ring \in [Queues -> Seq(Nat)] /\ tx_batch \in [Queues -> Seq(Nat)]
  /\ arrived \in [Queues -> Nat] /\ delivered \in [Queues -> Seq(Nat)]
  /\ sent \in [Queues -> Nat] /\ wired \in [Queues -> Nat]
  /\ panicked \in [Queues -> {"no", "receive", "transmit"}]

\* The threads: queue 0 scans, the others inject; what each has left to do.
Threads ==
  /\ pc[0] \notin {"inject", "snapshot", "loop"}
  /\ \A q \in Queues \ {0} : pc[q] \notin {"scan", "bump"}
  /\ \A q \in Queues : todo[q] \subseteq Entries(cache_snapshot[q])
  /\ to_insert \subseteq ArpPositions(rx_batch[0])
  /\ to_insert # {} <=> pc[0] \in {"scan", "bump"}

Capacities ==
  \A q \in Queues :
    /\ Len(rx_ring[q]) <= RxRingSize /\ Len(tx_ring[q]) <= TxRingSize
    /\ Len(rx_batch[q]) <= RxCap /\ Len(tx_batch[q]) <= TxCap

DeviceInv == CacheTypes /\ BatchTypes /\ Threads /\ Capacities /\ TransmitTokenSafe

\* Sent frames: wire, ring and batch hold consecutive token numbers, up to
\* the last one given.
Consecutive(w, s, t, b) ==
  /\ w + Len(t) + Len(b) = s
  /\ \A i \in 1..Len(t) : t[i] = w + i
  /\ \A i \in 1..Len(b) : b[i] = w + Len(t) + i

Numbered ==
  \A q \in Queues : Consecutive(wired[q], sent[q], tx_ring[q], tx_batch[q])

\* The ARP replies not inserted yet, and the versions of those that are.
Replies ==
  version + Cardinality(to_insert) + Cardinality(ArpPositions(rx_ring[0])) <= arps
    /\ arps <= MaxVersion

\* Received frames: every data frame that arrived is on the ring, in the
\* batch or delivered, in one place and once.
Has(s, n) == \E i \in 1..Len(s) : s[i] = Data(n)
Once(s) == \A i, j \in 1..Len(s) : (s[i] = s[j] /\ ~IsArp(s[i])) => i = j
Listed(d, n) == \E i \in 1..Len(d) : d[i] = n
NoRepeat(d) == \A i, j \in 1..Len(d) : d[i] = d[j] => i = j

Exact(r, b, d, a) ==
  /\ Once(r) /\ Once(b) /\ NoRepeat(d)
  /\ \A n \in Nat : n \in 1..a <=> Has(r, n) \/ Has(b, n) \/ Listed(d, n)
  /\ \A n \in Nat : /\ ~(Has(r, n) /\ Has(b, n))
                    /\ ~(Has(r, n) /\ Listed(d, n))
                    /\ ~(Has(b, n) /\ Listed(d, n))

Received ==
  \A q \in Queues : Exact(rx_ring[q], rx_batch[q], delivered[q], arrived[q])
-----------------------------------------------------------------------------
(* Types, threads and capacities *)

\* What the model assumes of its constants.
LEMMA Constants ==
  /\ 0 \in Queues /\ Queues \subseteq Nat /\ NoMac \notin Macs
  /\ RxCap \in Nat \ {0} /\ TxCap \in Nat \ {0} /\ TxBurst \in Nat \ {0}
  /\ RxRingSize \in Nat \ {0} /\ TxRingSize \in Nat \ {0} /\ PoolSize \in Nat
  /\ MaxVersion \in Nat
BY DeviceAssumption

\* A burst moves the front of tx_batch to the end of the ring, and no more
\* than fits.
LEMMA FlushFacts ==
  ASSUME DeviceInv, NEW q \in Queues
  PROVE  LET r == tx_ring[q] \o SubSeq(tx_batch[q], 1, Flushed(q))
         IN  /\ Flushed(q) \in 0..Len(tx_batch[q])
             /\ Len(tx_ring[q]) \in Nat /\ Len(tx_batch[q]) \in Nat
             /\ Len(tx_ring[q]) + Flushed(q) <= TxRingSize
             /\ Unflushed(q) \in Seq(Nat)
             /\ Len(Unflushed(q)) = Len(tx_batch[q]) - Flushed(q)
             /\ \A i \in 1..(Len(tx_batch[q]) - Flushed(q)) :
                  Unflushed(q)[i] = tx_batch[q][Flushed(q) + i]
             /\ r \in Seq(Nat) /\ Len(r) = Len(tx_ring[q]) + Flushed(q)
             /\ \A i \in 1..Len(tx_ring[q]) : r[i] = tx_ring[q][i]
             /\ \A i \in 1..Flushed(q) : r[Len(tx_ring[q]) + i] = tx_batch[q][i]
<1> DEFINE b == tx_batch[q]
           t == tx_ring[q]
           k == TxRingSize - Len(t)
           f == Flushed(q)
           p == SubSeq(b, 1, f)
           u == SubSeq(b, f + 1, Len(b))
<1>1. b \in Seq(Nat) /\ t \in Seq(Nat) /\ Len(t) <= TxRingSize
  BY DEF DeviceInv, BatchTypes, Capacities
<1>2. Len(b) \in Nat /\ Len(t) \in Nat /\ TxRingSize \in Nat /\ TxBurst \in Nat
  BY <1>1, Constants
<1>3. k \in Nat
  BY <1>1, <1>2
<1>4. f = Min({Len(b), TxBurst, k})
  BY DEF Flushed
<1> HIDE DEF k, f
<1>5. f \in {Len(b), TxBurst, k} /\ f <= Len(b) /\ f <= k
  <2>1. Len(b) \in Int /\ TxBurst \in Int /\ k \in Int
    BY <1>2, <1>3
  <2> HIDE DEF b
  <2> QED BY <2>1, <1>4, MinOfThree
<1>6. f \in 0..Len(b) /\ Len(t) + f <= TxRingSize
  BY <1>2, <1>3, <1>5 DEF k
<1>7. /\ p \in Seq(Nat) /\ Len(p) = f /\ \A i \in 1..f : p[i] = b[i]
  BY <1>1, <1>6, PrefixOf
<1>8. /\ u \in Seq(Nat) /\ Len(u) = Len(b) - f
      /\ \A i \in 1..(Len(b) - f) : u[i] = b[f + i]
  BY <1>1, <1>6, RestOf
<1>9. Unflushed(q) = u
  BY DEF Unflushed, f
<1> HIDE DEF p, u
<1>10. /\ t \o p \in Seq(Nat) /\ Len(t \o p) = Len(t) + f
       /\ \A i \in 1..Len(t) + f :
            (t \o p)[i] = IF i <= Len(t) THEN t[i] ELSE p[i - Len(t)]
  BY <1>1, <1>7, ConcatProperties
<1>11. \A i \in 1..Len(t) : (t \o p)[i] = t[i]
  BY <1>2, <1>6, <1>10
<1>12. ASSUME NEW i \in 1..f PROVE (t \o p)[Len(t) + i] = b[i]
  <2>1. Len(t) + i \in 1..Len(t) + f /\ ~(Len(t) + i <= Len(t)) /\ Len(t) + i - Len(t) = i
    BY <1>2, <1>6
  <2> QED BY <2>1, <1>7, <1>10
<1> QED BY <1>2, <1>6, <1>8, <1>9, <1>10, <1>11, <1>12 DEF f, p

\* A frame is an ARP reply or a data frame, never both.
LEMMA FrameFacts ==
  /\ \A f \in Frame : IsArp(f) => f.ip \in Ips /\ f.mac \in Macs
  /\ \A f \in Frame : ~IsArp(f) => f.id \in Nat /\ f = Data(f.id)
  /\ \A n \in Nat : Data(n) \in Frame /\ ~IsArp(Data(n)) /\ Data(n).id = n
  /\ \A ip \in Ips, mac \in Macs : Arp(ip, mac) \in Frame /\ IsArp(Arp(ip, mac))
<1>1. \A f \in Frame : IsArp(f) => f.ip \in Ips /\ f.mac \in Macs
  BY DEF Frame, ArpFrame, DataFrame, IsArp
<1>2. \A f \in Frame : ~IsArp(f) => f.id \in Nat /\ f = Data(f.id)
  BY DEF Frame, ArpFrame, DataFrame, IsArp, Data
<1>3. \A n \in Nat : Data(n) \in Frame /\ ~IsArp(Data(n)) /\ Data(n).id = n
  BY DEF Frame, DataFrame, IsArp, Data
<1>4. \A ip \in Ips, mac \in Macs : Arp(ip, mac) \in Frame /\ IsArp(Arp(ip, mac))
  BY DEF Frame, ArpFrame, IsArp, Arp
<1> QED BY <1>1, <1>2, <1>3, <1>4

\* The reply the scan has reached is one of the batch.
LEMMA NextReply ==
  ASSUME DeviceInv, pc[0] \in {"scan", "bump"}
  PROVE  /\ Min(to_insert) \in to_insert
         /\ Min(to_insert) \in 1..Len(rx_batch[0])
         /\ rx_batch[0][Min(to_insert)].ip \in Ips
         /\ rx_batch[0][Min(to_insert)].mac \in Macs
<1> DEFINE s == rx_batch[0]
           m == Min(to_insert)
<1>1. s \in Seq(Frame)
  BY Constants DEF DeviceInv, BatchTypes
<1>2. to_insert # {} /\ to_insert \subseteq ArpPositions(s)
  BY DEF DeviceInv, Threads
<1>3. ArpPositions(s) \subseteq 1..Len(s)
  BY <1>1, LenProperties DEF ArpPositions
<1>4. to_insert \in SUBSET Nat
  BY <1>2, <1>3
<1>5. \E i \in to_insert : \A j \in to_insert : i <= j
  BY <1>2, <1>4, LeastNat
<1>6. m \in to_insert
  BY <1>5 DEF Min
<1> HIDE DEF m
<1>7. m \in 1..Len(s) /\ IsArp(s[m])
  BY <1>2, <1>3, <1>6 DEF ArpPositions
<1>8. s[m] \in Frame
  BY <1>1, <1>7, ElementOfSeq
<1>9. s[m].ip \in Ips /\ s[m].mac \in Macs
  BY <1>7, <1>8, FrameFacts
<1> QED BY <1>6, <1>7, <1>9 DEF m

\* Every step keeps the types of the cache, the locals and the counters.
LEMMA StepKeepsCacheTypes == ASSUME DeviceInv, Next PROVE CacheTypes'
<1> USE DEF CacheTypes, Map, EmptyMap, Entries, Labels, Goto, AfterScan, cache_vars, inject_vars,
            bound_vars
<1>0. CacheTypes /\ 0 \in Queues /\ BatchTypes
  BY Constants DEF DeviceInv
<1>1. ASSUME NEW ip \in Ips, NEW mac \in Macs, WireArp(ip, mac) PROVE CacheTypes'
  BY <1>0, <1>1 DEF WireArp
<1>2. ASSUME NEW q \in Queues, WireData(q) \/ NicTransmit(q) PROVE CacheTypes'
  BY <1>0, <1>2 DEF WireData, NicTransmit
<1>3. ASSUME NEW q \in Queues, NEW ip \in Ips, NeighborExpires(q, ip) PROVE CacheTypes'
  BY <1>0, <1>3 DEF NeighborExpires
<1>4. ASSUME NEW q \in Queues, PollRx(q) PROVE CacheTypes'
  BY <1>0, <1>4 DEF PollRx
<1>5. CASE scan
  <2>1. CASE BumpVersion
    BY <1>0, <2>1 DEF BumpVersion
  <2>2. CASE InsertEntry
    <3> DEFINE a == rx_batch[0][Min(to_insert)]
    <3>1. a.ip \in Ips /\ a.mac \in Macs
      BY <2>2, NextReply DEF InsertEntry
    <3>2. \/ version' = version + 1 /\ UNCHANGED inner
          \/ inner' = [inner EXCEPT ![a.ip] = a.mac] /\ UNCHANGED version
      BY <2>2 DEF InsertEntry
    <3>3. pc' = [pc EXCEPT ![0] = AfterScan(to_insert')] \/ pc' = [pc EXCEPT ![0] = "bump"]
      BY <2>2 DEF InsertEntry
    <3> HIDE DEF a
    <3>4. inner' \in Map /\ version' \in Nat
      BY <1>0, <3>1, <3>2, SMTT(30)
    <3>5. pc' \in [Queues -> Labels]
      BY <1>0, <3>3
    <3> QED BY <1>0, <2>2, <3>4, <3>5 DEF InsertEntry
  <2> QED BY <1>5, <2>1, <2>2 DEF scan
<1>6. ASSUME NEW q \in Queues, inject_from_shared_cache(q) PROVE CacheTypes'
  <2>1. CASE LoadVersion(q)
    BY <1>0, <2>1 DEF LoadVersion
  <2>2. CASE LoadSnapshot(q)
    BY <1>0, <2>2 DEF LoadSnapshot
  <2>3. ASSUME NEW ip \in Ips, PushEntry(q, ip) PROVE CacheTypes'
    BY <1>0, <2>3 DEF PushEntry
  <2>4. CASE PushFails(q)
    BY <1>0, <2>4 DEF PushFails, ReturnToReceive
  <2>5. CASE InjectionDone(q)
    BY <1>0, <2>5 DEF InjectionDone, ReturnToReceive
  <2> QED BY <1>6, <2>1, <2>2, <2>3, <2>4, <2>5 DEF inject_from_shared_cache
<1>7. ASSUME NEW q \in Queues, PopFrame(q) PROVE CacheTypes'
  <2>1. CASE UNCHANGED neighbor
    BY <1>0, <1>7, <2>1 DEF PopFrame
  <2>2. CASE ~UNCHANGED neighbor
    <3>1. LET f == Last(rx_batch[q])
          IN  rx_batch[q] # <<>> /\ IsArp(f) /\ neighbor' = [neighbor EXCEPT ![q][f.ip] = f.mac]
      BY <1>7, <2>2 DEF PopFrame, IsArp
    <3>2. rx_batch[q] \in Seq(Frame)
      BY <1>0 DEF BatchTypes
    <3>3. Last(rx_batch[q]) \in Frame
      BY <3>1, <3>2, FrontOf
    <3>4. LET f == Last(rx_batch[q]) IN f.ip \in Ips /\ f.mac \in Macs
      BY <3>1, <3>3, FrameFacts
    <3> QED BY <1>0, <1>7, <3>1, <3>4 DEF PopFrame
  <2> QED BY <2>1, <2>2
<1>8. ASSUME NEW q \in Queues, Transmit(q) \/ inject_rx_packet(q) PROVE CacheTypes'
  BY <1>0, <1>8 DEF Transmit, inject_rx_packet
<1> QED BY <1>1, <1>2, <1>3, <1>4, <1>5, <1>6, <1>7, <1>8 DEF Next, Wire, receive

\* What consume() leaves behind: the batch as it was or with one more frame,
\* and an mbuf less in the pool for each more in the batch.
LEMMA ConsumeFacts ==
  ASSUME DeviceInv, NEW q \in Queues, NEW batch \in Seq(Nat), Len(batch) <= TxCap,
         NEW origin \in {"receive", "transmit"}, NEW freed \in {0, 1},
         consume(q, batch, origin, freed)
  PROVE  /\ tx_batch' \in [Queues -> Seq(Nat)] /\ sent' \in [Queues -> Nat]
         /\ panicked' \in [Queues -> {"no", "receive", "transmit"}]
         /\ free' \in Nat
         /\ Len(tx_batch'[q]) \in Nat /\ Len(tx_batch'[q]) <= TxCap
         /\ free' + Len(tx_batch'[q]) = free + freed + Len(batch)
         /\ \A r \in Queues \ {q} : tx_batch'[r] = tx_batch[r] /\ sent'[r] = sent[r]
         /\ \/ tx_batch'[q] = batch /\ sent'[q] = sent[q]
            \/ /\ sent'[q] = sent[q] + 1
               /\ tx_batch'[q] = Append(batch, sent[q] + 1)
         /\ (origin = "receive" \/ Len(batch) < TxCap)
              => \A r \in Queues : panicked'[r] \in {panicked[r], "receive"}
<1>0. /\ free \in Nat /\ tx_batch \in [Queues -> Seq(Nat)] /\ sent \in [Queues -> Nat]
      /\ panicked \in [Queues -> {"no", "receive", "transmit"}]
      /\ TxCap \in Nat /\ Len(batch) \in Nat
  <2>1. TxCap \in Nat /\ Len(batch) \in Nat
    BY Constants, LenProperties
  <2> QED BY <2>1 DEF DeviceInv, BatchTypes
<1>1. CASE /\ free = 0
           /\ free' = free + freed
           /\ tx_batch' = [tx_batch EXCEPT ![q] = batch]
           /\ UNCHANGED <<sent, panicked>>
  <2>1. free' \in Nat /\ free' + Len(batch) = free + freed + Len(batch)
    BY <1>0, <1>1
  <2>2. tx_batch' \in [Queues -> Seq(Nat)] /\ tx_batch'[q] = batch
        /\ \A r \in Queues \ {q} : tx_batch'[r] = tx_batch[r]
    BY <1>0, <1>1
  <2> QED BY <1>0, <1>1, <2>1, <2>2
<1>2. CASE /\ free > 0 /\ Len(batch) < TxCap
           /\ sent' = [sent EXCEPT ![q] = @ + 1]
           /\ tx_batch' = [tx_batch EXCEPT ![q] = Append(batch, sent'[q])]
           /\ free' = free - 1 + freed
           /\ UNCHANGED panicked
  <2> DEFINE b == Append(batch, sent[q] + 1)
  <2>1. sent' \in [Queues -> Nat] /\ sent'[q] = sent[q] + 1 /\ sent[q] + 1 \in Nat
        /\ \A r \in Queues \ {q} : sent'[r] = sent[r]
    BY <1>0, <1>2
  <2>2. b \in Seq(Nat) /\ Len(b) = Len(batch) + 1
    BY <2>1, AppendProperties
  <2>3. tx_batch' = [tx_batch EXCEPT ![q] = b]
    BY <1>2, <2>1
  <2> HIDE DEF b
  <2>4. tx_batch' \in [Queues -> Seq(Nat)] /\ tx_batch'[q] = b
        /\ \A r \in Queues \ {q} : tx_batch'[r] = tx_batch[r]
    BY <1>0, <2>2, <2>3
  <2>5. free' \in Nat /\ free' + Len(b) = free + freed + Len(batch)
        /\ Len(b) \in Nat /\ Len(b) <= TxCap
    BY <1>0, <1>2, <2>2
  <2> QED BY <1>0, <1>2, <2>1, <2>4, <2>5 DEF b
<1>3. CASE /\ free > 0 /\ Len(batch) >= TxCap
           /\ panicked' = [panicked EXCEPT ![q] = origin]
           /\ free' = free + freed
           /\ tx_batch' = [tx_batch EXCEPT ![q] = batch]
           /\ UNCHANGED sent
  <2>1. free' \in Nat /\ free' + Len(batch) = free + freed + Len(batch)
    BY <1>0, <1>3
  <2>2. tx_batch' \in [Queues -> Seq(Nat)] /\ tx_batch'[q] = batch
        /\ \A r \in Queues \ {q} : tx_batch'[r] = tx_batch[r]
    BY <1>0, <1>3
  <2>3. panicked' \in [Queues -> {"no", "receive", "transmit"}]
        /\ \A r \in Queues : panicked'[r] \in {panicked[r], origin}
    BY <1>0, <1>3
  <2>4. Len(batch) < TxCap => FALSE
    BY <1>0, <1>3
  <2> QED BY <1>0, <1>3, <2>1, <2>2, <2>3, <2>4
<1> QED BY <1>1, <1>2, <1>3 DEF consume

-----------------------------------------------------------------------------
(* What a step does to the frames.  Every step works on one queue; there   *)
(* it has one of a few effects on the receive side and on the transmit     *)
(* side, and it moves mbufs without making or losing any.                  *)

OnlyQueue(q) ==
  \A r \in Queues \ {q} :
    /\ rx_ring'[r] = rx_ring[r] /\ rx_batch'[r] = rx_batch[r]
    /\ tx_ring'[r] = tx_ring[r] /\ tx_batch'[r] = tx_batch[r]
    /\ arrived'[r] = arrived[r] /\ delivered'[r] = delivered[r]
    /\ sent'[r] = sent[r] /\ wired'[r] = wired[r]

IsArray(f) == f = [r \in Queues |-> f[r]]

Domains ==
  /\ IsArray(rx_ring')
  /\ IsArray(rx_batch')
  /\ IsArray(tx_ring')
  /\ IsArray(tx_batch')
  /\ IsArray(arrived')
  /\ IsArray(delivered')
  /\ IsArray(sent')
  /\ IsArray(wired')

RxQuiet(q) ==
  /\ rx_ring'[q] = rx_ring[q] /\ rx_batch'[q] = rx_batch[q]
  /\ arrived'[q] = arrived[q] /\ delivered'[q] = delivered[q]

\* A frame appears at the end of the ring or, injected, of the batch: an ARP
\* reply, or the data frame with the next number.
Appears(q, f) ==
  /\ f \in Frame /\ delivered'[q] = delivered[q]
  /\ \/ IsArp(f) /\ arrived'[q] = arrived[q]
     \/ f = Data(arrived[q] + 1) /\ arrived'[q] = arrived[q] + 1

OnRing(q) ==
  \E f \in Frame : /\ Appears(q, f) /\ Len(rx_ring[q]) < RxRingSize
                   /\ rx_ring'[q] = Append(rx_ring[q], f) /\ rx_batch'[q] = rx_batch[q]

InBatch(q) ==
  \E f \in Frame : /\ Appears(q, f) /\ Len(rx_batch[q]) < RxCap
                   /\ rx_batch'[q] = Append(rx_batch[q], f) /\ rx_ring'[q] = rx_ring[q]

Refill(q) ==
  /\ rx_batch[q] = <<>>
  /\ \E n \in 0..Len(rx_ring[q]) :
       /\ n <= RxCap
       /\ rx_batch'[q] = SubSeq(rx_ring[q], 1, n)
       /\ rx_ring'[q] = SubSeq(rx_ring[q], n + 1, Len(rx_ring[q]))
  /\ arrived'[q] = arrived[q] /\ delivered'[q] = delivered[q]

Popped(q) ==
  /\ rx_batch[q] # <<>>
  /\ rx_batch'[q] = Front(rx_batch[q]) /\ rx_ring'[q] = rx_ring[q]
  /\ arrived'[q] = arrived[q]
  /\ LET f == Last(rx_batch[q])
     IN  \/ IsArp(f) /\ delivered'[q] = delivered[q]
         \/ ~IsArp(f) /\ delivered'[q] = Append(delivered[q], f.id)

RxEffect(q) == RxQuiet(q) \/ OnRing(q) \/ InBatch(q) \/ Refill(q) \/ Popped(q)

TxQuiet(q) ==
  /\ tx_ring'[q] = tx_ring[q] /\ tx_batch'[q] = tx_batch[q]
  /\ sent'[q] = sent[q] /\ wired'[q] = wired[q]

OnWire(q) ==
  /\ tx_ring[q] # <<>>
  /\ wired'[q] = Head(tx_ring[q]) /\ tx_ring'[q] = Tail(tx_ring[q])
  /\ tx_batch'[q] = tx_batch[q] /\ sent'[q] = sent[q]

\* A flush, or none, and then a frame written into the batch, or none.
Moved(q, n) ==
  IF n = 0 THEN tx_ring'[q] = tx_ring[q]
  ELSE /\ tx_ring'[q] = tx_ring[q] \o SubSeq(tx_batch[q], 1, n)
       /\ Len(tx_ring[q]) + n <= TxRingSize

Left(q, n) == IF n = 0 THEN tx_batch[q] ELSE SubSeq(tx_batch[q], n + 1, Len(tx_batch[q]))

Emitted(q) ==
  /\ wired'[q] = wired[q]
  /\ \E n \in 0..Len(tx_batch[q]) :
       /\ Moved(q, n)
       /\ \/ tx_batch'[q] = Left(q, n) /\ sent'[q] = sent[q]
          \/ /\ Len(Left(q, n)) < TxCap
             /\ tx_batch'[q] = Append(Left(q, n), sent[q] + 1)
             /\ sent'[q] = sent[q] + 1

TxEffect(q) == TxQuiet(q) \/ OnWire(q) \/ Emitted(q)

HeldBy(q) == Len(rx_ring[q]) + Len(rx_batch[q]) + Len(tx_ring[q]) + Len(tx_batch[q])

Effect(q) ==
  /\ Domains /\ OnlyQueue(q)
  /\ RxEffect(q) /\ TxEffect(q)
  /\ free' \in Nat /\ free' + HeldBy(q)' = free + HeldBy(q)

\* The sequences of a queue and their lengths.
LEMMA Lengths ==
  ASSUME DeviceInv, NEW q \in Queues
  PROVE  /\ rx_ring[q] \in Seq(Frame) /\ Len(rx_ring[q]) \in Nat
         /\ rx_batch[q] \in Seq(Frame) /\ Len(rx_batch[q]) \in Nat
         /\ tx_ring[q] \in Seq(Nat) /\ Len(tx_ring[q]) \in Nat
         /\ tx_batch[q] \in Seq(Nat) /\ Len(tx_batch[q]) \in Nat
         /\ delivered[q] \in Seq(Nat) /\ arrived[q] \in Nat /\ sent[q] \in Nat
         /\ wired[q] \in Nat /\ free \in Nat
         /\ Len(rx_ring[q]) <= RxRingSize /\ Len(tx_ring[q]) <= TxRingSize
         /\ Len(rx_batch[q]) <= RxCap /\ Len(tx_batch[q]) <= TxCap
<1>1. /\ rx_ring[q] \in Seq(Frame) /\ rx_batch[q] \in Seq(Frame)
      /\ tx_ring[q] \in Seq(Nat) /\ tx_batch[q] \in Seq(Nat)
      /\ delivered[q] \in Seq(Nat) /\ arrived[q] \in Nat /\ sent[q] \in Nat
      /\ wired[q] \in Nat /\ free \in Nat
  BY DEF DeviceInv, BatchTypes
<1>2. /\ Len(rx_ring[q]) \in Nat /\ Len(rx_batch[q]) \in Nat
      /\ Len(tx_ring[q]) \in Nat /\ Len(tx_batch[q]) \in Nat
  BY <1>1, LenProperties
<1> QED BY <1>1, <1>2 DEF DeviceInv, Capacities

\* A step of the cache or of smoltcp's timers leaves the frames alone.
LEMMA QuietStep ==
  ASSUME DeviceInv, NEW q \in Queues, UNCHANGED <<batch_vars, ghost_vars>>
  PROVE  Effect(q)
<1>1. Domains /\ OnlyQueue(q) /\ RxEffect(q) /\ TxEffect(q) /\ free' \in Nat
  BY DEF IsArray, DeviceInv, BatchTypes, batch_vars, ghost_vars, Domains, OnlyQueue,
         RxEffect, RxQuiet, TxEffect, TxQuiet
<1>2. free' = free /\ HeldBy(q)' = HeldBy(q)
  BY DEF batch_vars, HeldBy
<1> QED BY <1>1, <1>2 DEF Effect

\* A frame that the NIC puts on a ring.
LEMMA ArrivalEffect ==
  ASSUME DeviceInv, NEW q \in Queues, NEW f \in Frame, Len(rx_ring[q]) < RxRingSize,
         free > 0, free' = free - 1,
         rx_ring' = [rx_ring EXCEPT ![q] = Append(@, f)],
         UNCHANGED <<rx_batch, tx_ring, tx_batch, delivered, sent, wired>>,
         \/ IsArp(f) /\ UNCHANGED arrived
         \/ f = Data(arrived[q] + 1) /\ arrived' = [arrived EXCEPT ![q] = @ + 1]
  PROVE  Effect(q)
<1> USE DEF DeviceInv, BatchTypes
<1>1. Domains /\ OnlyQueue(q)
  BY DEF IsArray, Domains, OnlyQueue
<1>2. rx_ring'[q] = Append(rx_ring[q], f)
  OBVIOUS
<1>3. RxEffect(q)
  BY <1>2 DEF RxEffect, OnRing, Appears
<1>4. TxEffect(q)
  BY DEF TxEffect, TxQuiet
<1>5. Len(rx_ring'[q]) = Len(rx_ring[q]) + 1
  BY <1>2, Lengths, AppendProperties
<1>6. free' \in Nat /\ free' + HeldBy(q)' = free + HeldBy(q)
  <2>1. /\ Len(rx_ring[q]) \in Nat /\ Len(rx_batch[q]) \in Nat
        /\ Len(tx_ring[q]) \in Nat /\ Len(tx_batch[q]) \in Nat /\ free \in Nat
    BY Lengths
  <2> QED BY <2>1, <1>5 DEF HeldBy
<1> QED BY <1>1, <1>3, <1>4, <1>6 DEF Effect

\* A frame that is injected into a batch.
LEMMA InjectionEffect ==
  ASSUME DeviceInv, NEW q \in Queues, NEW f \in Frame, CanPush(q), free' = free - 1,
         rx_batch' = [rx_batch EXCEPT ![q] = Append(@, f)],
         UNCHANGED <<rx_ring, tx_ring, tx_batch, delivered, sent, wired>>,
         \/ IsArp(f) /\ UNCHANGED arrived
         \/ f = Data(arrived[q] + 1) /\ arrived' = [arrived EXCEPT ![q] = @ + 1]
  PROVE  Effect(q)
<1> USE DEF DeviceInv, BatchTypes
<1>1. Domains /\ OnlyQueue(q)
  BY DEF IsArray, Domains, OnlyQueue
<1>2. rx_batch'[q] = Append(rx_batch[q], f)
  OBVIOUS
<1>3. RxEffect(q)
  BY <1>2 DEF RxEffect, InBatch, Appears, CanPush
<1>4. TxEffect(q)
  BY DEF TxEffect, TxQuiet
<1>5. Len(rx_batch'[q]) = Len(rx_batch[q]) + 1
  BY <1>2, Lengths, AppendProperties
<1>6. free' \in Nat /\ free' + HeldBy(q)' = free + HeldBy(q)
  <2>1. /\ Len(rx_ring[q]) \in Nat /\ Len(rx_batch[q]) \in Nat
        /\ Len(tx_ring[q]) \in Nat /\ Len(tx_batch[q]) \in Nat /\ free \in Nat
    BY Lengths
  <2> QED BY <2>1, <1>5 DEF HeldBy, CanPush
<1> QED BY <1>1, <1>3, <1>4, <1>6 DEF Effect

\* NicTransmit: the mbuf at the head of the ring goes back to the pool.
LEMMA WireEffect ==
  ASSUME DeviceInv, NEW q \in Queues, NicTransmit(q)
  PROVE  Effect(q)
<1> USE DEF DeviceInv, BatchTypes
<1>1. Domains /\ OnlyQueue(q)
  BY DEF IsArray, Domains, OnlyQueue, NicTransmit
<1>2. RxEffect(q)
  BY DEF RxEffect, RxQuiet, NicTransmit
<1>3. tx_ring'[q] = Tail(tx_ring[q]) /\ tx_ring[q] # <<>>
  BY DEF NicTransmit
<1>4. TxEffect(q)
  BY <1>3 DEF TxEffect, OnWire, NicTransmit
<1>5. Len(tx_ring'[q]) = Len(tx_ring[q]) - 1
  BY <1>3, Lengths, HeadTailProperties
<1>6. free' \in Nat /\ free' + HeldBy(q)' = free + HeldBy(q)
  <2>1. /\ Len(rx_ring[q]) \in Nat /\ Len(rx_batch[q]) \in Nat
        /\ Len(tx_ring[q]) \in Nat /\ Len(tx_batch[q]) \in Nat /\ free \in Nat
    BY Lengths
  <2>2. free' = free + 1 /\ UNCHANGED <<rx_ring, rx_batch, tx_batch>>
    BY DEF NicTransmit
  <2> QED BY <2>1, <2>2, <1>5 DEF HeldBy
<1> QED BY <1>1, <1>2, <1>4, <1>6 DEF Effect

\* Nothing taken from the front of a sequence leaves it as it is.
LEMMA TakeNothing ==
  ASSUME NEW S, NEW s \in Seq(S)
  PROVE  SubSeq(s, 1, 0) = <<>> /\ SubSeq(s, 0 + 1, Len(s)) = s
<1>1. SubSeq(s, 1, 0) = <<>>
  BY SubSeqEmpty
<1>2. 0 + 1 = 1
  OBVIOUS
<1>3. SubSeq(s, 1, Len(s)) = s
  BY SubSeqFull
<1> QED BY <1>1, <1>2, <1>3

\* flush_tx in the terms of TxEffect.
LEMMA FlushMoves ==
  ASSUME DeviceInv, NEW q \in Queues,
         tx_ring'[q] = tx_ring[q] \o SubSeq(tx_batch[q], 1, Flushed(q))
  PROVE  Moved(q, Flushed(q)) /\ Left(q, Flushed(q)) = Unflushed(q)
<1>1. tx_ring[q] \in Seq(Nat) /\ tx_batch[q] \in Seq(Nat)
  BY Lengths
<1>2. CASE Flushed(q) = 0
  <2>1. SubSeq(tx_batch[q], 1, 0) = <<>> /\ SubSeq(tx_batch[q], 0 + 1, Len(tx_batch[q])) = tx_batch[q]
    BY <1>1, TakeNothing
  <2>2. tx_ring[q] \o <<>> = tx_ring[q]
    BY <1>1, ConcatEmptySeq
  <2> QED BY <1>2, <2>1, <2>2 DEF Moved, Left, Unflushed
<1>3. CASE Flushed(q) # 0
  BY <1>3, FlushFacts DEF Moved, Left, Unflushed
<1> QED BY <1>2, <1>3

\* PollRx: a flush and, if the batch is empty, one burst from the ring.
LEMMA PollEffect ==
  ASSUME DeviceInv, NEW q \in Queues, PollRx(q)
  PROVE  Effect(q)
<1> DEFINE s == rx_ring[q]
           b == rx_batch[q]
           n == IF b = <<>> THEN Min({RxCap, Len(s)}) ELSE 0
<1>1. Domains /\ OnlyQueue(q)
  BY DEF IsArray, Domains, OnlyQueue, PollRx, flush_tx, ghost_vars, DeviceInv, BatchTypes
<1>2. /\ rx_ring'[q] = SubSeq(s, n + 1, Len(s)) /\ rx_batch'[q] = b \o SubSeq(s, 1, n)
      /\ tx_ring'[q] = tx_ring[q] \o SubSeq(tx_batch[q], 1, Flushed(q))
      /\ tx_batch'[q] = Unflushed(q)
  BY DEF PollRx, flush_tx, DeviceInv, BatchTypes
<1>3. UNCHANGED <<free, arrived, delivered, sent, wired>>
  BY DEF PollRx, ghost_vars
<1>4. s \in Seq(Frame) /\ b \in Seq(Frame) /\ Len(s) \in Nat /\ Len(b) \in Nat
  BY Lengths
<1>5. n \in 0..Len(s) /\ n <= RxCap
  <2>1. RxCap \in Int /\ Len(s) \in Int /\ RxCap \in Nat /\ Len(s) \in Nat
    BY <1>4, Constants
  <2> HIDE DEF s
  <2>2. LET m == Min({RxCap, Len(s)}) IN m \in {RxCap, Len(s)} /\ m <= RxCap /\ m <= Len(s)
    BY <2>1, MinOfTwo
  <2>3. n = Min({RxCap, Len(s)}) \/ n = 0
    OBVIOUS
  <2> QED BY <2>1, <2>2, <2>3
<1> HIDE DEF n
<1>6. RxEffect(q) /\ Len(rx_ring'[q]) + Len(rx_batch'[q]) = Len(s) + Len(b)
  <2>1. /\ SubSeq(s, 1, n) \in Seq(Frame) /\ Len(SubSeq(s, 1, n)) = n
        /\ Len(SubSeq(s, n + 1, Len(s))) = Len(s) - n
    BY <1>4, <1>5, PrefixOf, RestOf
  <2>2. CASE b = <<>>
    <3>1. rx_batch'[q] = SubSeq(s, 1, n)
      BY <1>2, <2>1, <2>2, ConcatEmptySeq
    <3>2. Refill(q)
      BY <1>2, <1>3, <1>5, <2>2, <3>1 DEF Refill
    <3>3. Len(b) = 0
      BY <2>2, EmptySeq
    <3>4. Len(rx_ring'[q]) = Len(s) - n /\ Len(rx_batch'[q]) = n
      BY <1>2, <2>1, <3>1
    <3>5. Len(rx_ring'[q]) + Len(rx_batch'[q]) = Len(s) + Len(b)
      BY <1>4, <1>5, <3>3, <3>4
    <3> QED BY <3>2, <3>5 DEF RxEffect
  <2>3. CASE b # <<>>
    <3>1. n = 0
      BY <2>3 DEF n
    <3>2. SubSeq(s, 1, 0) = <<>> /\ SubSeq(s, 0 + 1, Len(s)) = s
      BY <1>4, TakeNothing
    <3>3. b \o <<>> = b
      BY <1>4, ConcatEmptySeq
    <3>4. rx_ring'[q] = s /\ rx_batch'[q] = b
      BY <1>2, <3>1, <3>2, <3>3
    <3> QED BY <1>3, <3>4 DEF RxEffect, RxQuiet
  <2> QED BY <2>2, <2>3
<1>7. TxEffect(q)
  <2>1. Flushed(q) \in 0..Len(tx_batch[q])
    BY FlushFacts
  <2>2. Moved(q, Flushed(q)) /\ tx_batch'[q] = Left(q, Flushed(q))
    BY <1>2, FlushMoves
  <2> QED BY <1>3, <2>1, <2>2 DEF TxEffect, Emitted
<1>8. free' \in Nat /\ free' + HeldBy(q)' = free + HeldBy(q)
  <2> DEFINE a == Len(rx_ring[q])   a1 == Len(rx_ring'[q])
             c == Len(rx_batch[q])  c1 == Len(rx_batch'[q])
             d == Len(tx_ring[q])   d1 == Len(tx_ring'[q])
             e == Len(tx_batch[q])  e1 == Len(tx_batch'[q])
             f == Flushed(q)
  <2>1. a \in Nat /\ c \in Nat /\ d \in Nat /\ e \in Nat /\ free' = free /\ free \in Nat
    BY <1>3, Lengths
  <2>2. d1 = d + f /\ e1 = e - f /\ f \in 0..e
    BY <1>2, FlushFacts
  <2>3. a1 \in Nat /\ c1 \in Nat
    <3>1. SubSeq(s, n + 1, Len(s)) \in Seq(Frame) /\ SubSeq(s, 1, n) \in Seq(Frame)
      BY <1>4, <1>5, PrefixOf, RestOf
    <3>2. b \o SubSeq(s, 1, n) \in Seq(Frame)
      BY <1>4, <3>1, ConcatProperties
    <3> QED BY <1>2, <3>1, <3>2, LenProperties
  <2>4. a1 + c1 = a + c
    BY <1>6
  <2>5. HeldBy(q) = a + c + d + e /\ HeldBy(q)' = a1 + c1 + d1 + e1
    BY DEF HeldBy
  <2> HIDE DEF a, c, d, e, f, a1, c1, d1, e1
  <2>6. d1 \in Nat /\ e1 \in Nat /\ d1 + e1 = d + e
    BY <2>1, <2>2
  <2>7. a1 + c1 + d1 + e1 = a + c + d + e
    BY <2>1, <2>3, <2>4, <2>6
  <2> QED BY <2>1, <2>5, <2>7
<1> QED BY <1>1, <1>6, <1>7, <1>8 DEF Effect

\* PopFrame with the frame's mbuf dropped and, possibly, an answer written.
LEMMA PopEffect ==
  ASSUME DeviceInv, NEW q \in Queues, PopFrame(q)
  PROVE  Effect(q)
<1>1. CASE rx_batch[q] = <<>>
  <2>1. UNCHANGED <<batch_vars, ghost_vars>>
    BY <1>1 DEF PopFrame, ghost_vars
  <2> QED BY <2>1, QuietStep
<1>2. CASE rx_batch[q] # <<>>
  <2> DEFINE f == Last(rx_batch[q])
  <2>1. /\ rx_batch' = [rx_batch EXCEPT ![q] = Front(@)]
        /\ UNCHANGED <<rx_ring, tx_ring, arrived, wired>>
        /\ \/ UNCHANGED delivered /\ IsArp(f)
           \/ delivered' = [delivered EXCEPT ![q] = Append(@, f.id)] /\ ~IsArp(f)
        /\ \/ free' = free + 1 /\ UNCHANGED <<tx_batch, sent>>
           \/ consume(q, tx_batch[q], "receive", 1)
    BY <1>2 DEF PopFrame, IsArp
  <2>2. /\ rx_batch[q] \in Seq(Frame) /\ tx_batch[q] \in Seq(Nat)
        /\ Len(tx_batch[q]) <= TxCap /\ Len(tx_batch[q]) \in Nat /\ free \in Nat
        /\ sent[q] \in Nat
    BY Lengths
  <2>3. /\ IsArray(tx_batch') /\ IsArray(sent')
        /\ \A r \in Queues \ {q} : tx_batch'[r] = tx_batch[r] /\ sent'[r] = sent[r]
        /\ \/ tx_batch'[q] = tx_batch[q] /\ sent'[q] = sent[q]
           \/ /\ sent'[q] = sent[q] + 1
              /\ tx_batch'[q] = Append(tx_batch[q], sent[q] + 1)
        /\ free' \in Nat /\ Len(tx_batch'[q]) \in Nat /\ Len(tx_batch'[q]) <= TxCap
        /\ free' + Len(tx_batch'[q]) = free + 1 + Len(tx_batch[q])
    <3>1. CASE free' = free + 1 /\ UNCHANGED <<tx_batch, sent>>
      BY <2>2, <3>1 DEF IsArray, DeviceInv, BatchTypes
    <3>2. CASE consume(q, tx_batch[q], "receive", 1)
      BY <2>2, <3>2, ConsumeFacts DEF IsArray
    <3> QED BY <2>1, <3>1, <3>2
  <2>4. Domains /\ OnlyQueue(q)
    BY <2>1, <2>3 DEF IsArray, Domains, OnlyQueue, DeviceInv, BatchTypes
  <2>5. /\ rx_batch'[q] = Front(rx_batch[q])
        /\ \/ delivered'[q] = delivered[q] /\ IsArp(f)
           \/ delivered'[q] = Append(delivered[q], f.id) /\ ~IsArp(f)
    BY <2>1 DEF DeviceInv, BatchTypes
  <2>6. RxEffect(q)
    BY <1>2, <2>1, <2>5 DEF RxEffect, Popped
  <2>7. TxEffect(q)
    <3>1. CASE tx_batch'[q] = tx_batch[q] /\ sent'[q] = sent[q]
      BY <2>1, <3>1 DEF TxEffect, TxQuiet
    <3>2. CASE /\ sent'[q] = sent[q] + 1
               /\ tx_batch'[q] = Append(tx_batch[q], sent[q] + 1)
      <4> DEFINE d == Len(tx_batch[q])
      <4>1. Len(tx_batch'[q]) = d + 1
        BY <2>2, <3>2, AppendProperties
      <4>2. d + 1 <= TxCap /\ d \in Nat /\ TxCap \in Nat
        BY <2>2, <2>3, <4>1, Constants
      <4>3. d < TxCap
        <5> HIDE DEF d
        <5> QED BY <4>2
      <4>4. 0 \in 0..Len(tx_batch[q])
        BY <2>2
      <4>5. Moved(q, 0) /\ Left(q, 0) = tx_batch[q]
        BY <2>1 DEF Moved, Left
      <4> QED BY <2>1, <3>2, <4>3, <4>4, <4>5 DEF TxEffect, Emitted
    <3> QED BY <2>3, <3>1, <3>2
  <2>8. free' + HeldBy(q)' = free + HeldBy(q)
    <3> DEFINE a == Len(rx_ring[q])   a1 == Len(rx_ring'[q])
               c == Len(rx_batch[q])  c1 == Len(rx_batch'[q])
               d == Len(tx_ring[q])   d1 == Len(tx_ring'[q])
               e == Len(tx_batch[q])  e1 == Len(tx_batch'[q])
               g == free              g1 == free'
    <3>1. a \in Nat /\ c \in Nat /\ d \in Nat /\ e \in Nat /\ g \in Nat
      BY Lengths
    <3>2. a1 = a /\ d1 = d
      BY <2>1
    <3>3. c \in Nat \ {0} /\ c1 = c - 1
      BY <1>2, <2>2, <2>5, FrontOf
    <3>4. g1 \in Nat /\ e1 \in Nat /\ g1 + e1 = g + 1 + e
      BY <2>3
    <3>5. HeldBy(q) = a + c + d + e /\ HeldBy(q)' = a1 + c1 + d1 + e1
      BY DEF HeldBy
    <3> HIDE DEF a, c, d, e, g, a1, c1, d1, e1, g1
    <3>6. g1 + (a1 + c1 + d1 + e1) = g + (a + c + d + e)
      BY <3>1, <3>2, <3>3, <3>4
    <3> QED BY <3>5, <3>6 DEF g, g1
  <2> QED BY <2>3, <2>4, <2>6, <2>7, <2>8 DEF Effect
<1> QED BY <1>1, <1>2

\* A token of transmit() has room for its frame: either the batch was not
\* full, or the flush took at least one frame of it.
LEMMA TransmitRoom ==
  ASSUME DeviceInv, NEW q \in Queues, Transmit(q)
  PROVE  \E n \in 0..Len(tx_batch[q]) :
           /\ Moved(q, n) /\ Left(q, n) \in Seq(Nat) /\ Len(Left(q, n)) < TxCap
           /\ consume(q, Left(q, n), "transmit", 0)
           /\ \A r \in Queues \ {q} : tx_ring'[r] = tx_ring[r]
           /\ IsArray(tx_ring')
           /\ Len(tx_ring'[q]) = Len(tx_ring[q]) + n
           /\ Len(Left(q, n)) = Len(tx_batch[q]) - n
<1>1. /\ tx_batch[q] \in Seq(Nat) /\ Len(tx_batch[q]) \in Nat /\ Len(tx_batch[q]) <= TxCap
      /\ Len(tx_ring[q]) \in Nat /\ TxCap \in Nat
  BY Lengths, Constants
<1>2. CASE /\ Len(tx_batch[q]) < TxCap
           /\ consume(q, tx_batch[q], "transmit", 0)
           /\ UNCHANGED tx_ring
  <2>1. 0 \in 0..Len(tx_batch[q]) /\ Moved(q, 0) /\ Left(q, 0) = tx_batch[q]
    BY <1>1, <1>2 DEF Moved, Left
  <2>2. Len(tx_ring'[q]) = Len(tx_ring[q]) + 0 /\ Len(tx_batch[q]) = Len(tx_batch[q]) - 0
    BY <1>1, <1>2
  <2>3. IsArray(tx_ring') /\ \A r \in Queues \ {q} : tx_ring'[r] = tx_ring[r]
    BY <1>2 DEF IsArray, DeviceInv, BatchTypes
  <2> QED BY <1>1, <1>2, <2>1, <2>2, <2>3
<1>3. CASE /\ Len(tx_batch[q]) >= TxCap
           /\ flush_tx(q)
           /\ Flushed(q) > 0
           /\ consume(q, Unflushed(q), "transmit", 0)
  <2>1. /\ tx_ring'[q] = tx_ring[q] \o SubSeq(tx_batch[q], 1, Flushed(q))
        /\ IsArray(tx_ring') /\ \A r \in Queues \ {q} : tx_ring'[r] = tx_ring[r]
    BY <1>3 DEF IsArray, flush_tx, DeviceInv, BatchTypes
  <2>2. Moved(q, Flushed(q)) /\ Left(q, Flushed(q)) = Unflushed(q)
    BY <2>1, FlushMoves
  <2>3. /\ Flushed(q) \in 0..Len(tx_batch[q]) /\ Unflushed(q) \in Seq(Nat)
        /\ Len(Unflushed(q)) = Len(tx_batch[q]) - Flushed(q)
        /\ Len(tx_ring'[q]) = Len(tx_ring[q]) + Flushed(q)
    BY <2>1, FlushFacts
  <2>4. Len(Unflushed(q)) < TxCap
    <3> DEFINE l == Len(tx_batch[q])
               f == Flushed(q)
               u == Len(Unflushed(q))
    <3>1. l \in Nat /\ l <= TxCap /\ f \in 0..l /\ f > 0 /\ u = l - f /\ TxCap \in Nat
      BY <1>1, <1>3, <2>3
    <3> HIDE DEF l, f, u
    <3>2. u < TxCap
      BY <3>1
    <3> QED BY <3>2 DEF u
  <2> QED BY <1>3, <2>1, <2>2, <2>3, <2>4
<1> QED BY <1>2, <1>3 DEF Transmit

\* Transmit: an mbuf from the pool goes into the batch, or nothing happens.
LEMMA TransmitEffect ==
  ASSUME DeviceInv, NEW q \in Queues, Transmit(q)
  PROVE  Effect(q)
<1>1. PICK n \in 0..Len(tx_batch[q]) :
           /\ Moved(q, n) /\ Left(q, n) \in Seq(Nat) /\ Len(Left(q, n)) < TxCap
           /\ consume(q, Left(q, n), "transmit", 0)
           /\ \A r \in Queues \ {q} : tx_ring'[r] = tx_ring[r]
           /\ IsArray(tx_ring')
           /\ Len(tx_ring'[q]) = Len(tx_ring[q]) + n
           /\ Len(Left(q, n)) = Len(tx_batch[q]) - n
  BY TransmitRoom
<1>2. UNCHANGED <<rx_ring, rx_batch, arrived, delivered, wired>>
  BY DEF Transmit
<1>3. Len(Left(q, n)) <= TxCap
  <2> DEFINE l == Len(Left(q, n))
  <2>1. l \in Nat /\ TxCap \in Nat /\ l < TxCap
    BY <1>1, LenProperties, Constants
  <2> HIDE DEF l
  <2>2. l <= TxCap
    BY <2>1
  <2> QED BY <2>2 DEF l
<1>4. /\ tx_batch' \in [Queues -> Seq(Nat)] /\ sent' \in [Queues -> Nat]
      /\ free' \in Nat /\ Len(tx_batch'[q]) \in Nat
      /\ free' + Len(tx_batch'[q]) = free + 0 + Len(Left(q, n))
      /\ \A r \in Queues \ {q} : tx_batch'[r] = tx_batch[r] /\ sent'[r] = sent[r]
      /\ \/ tx_batch'[q] = Left(q, n) /\ sent'[q] = sent[q]
         \/ /\ sent'[q] = sent[q] + 1
            /\ tx_batch'[q] = Append(Left(q, n), sent[q] + 1)
  BY <1>1, <1>3, ConsumeFacts
<1>5. Domains /\ OnlyQueue(q)
  BY <1>1, <1>2, <1>4 DEF IsArray, Domains, OnlyQueue, DeviceInv, BatchTypes
<1>6. RxEffect(q)
  BY <1>2 DEF RxEffect, RxQuiet
<1>7. TxEffect(q)
  BY <1>1, <1>2, <1>4 DEF TxEffect, Emitted
<1>8. free' + HeldBy(q)' = free + HeldBy(q)
  <2> DEFINE a == Len(rx_ring[q])   a1 == Len(rx_ring'[q])
             c == Len(rx_batch[q])  c1 == Len(rx_batch'[q])
             d == Len(tx_ring[q])   d1 == Len(tx_ring'[q])
             e == Len(tx_batch[q])  e1 == Len(tx_batch'[q])
             l == Len(Left(q, n))
             g == free              g1 == free'
  <2>1. a \in Nat /\ c \in Nat /\ d \in Nat /\ e \in Nat /\ g \in Nat
    BY Lengths
  <2>2. a1 = a /\ c1 = c
    BY <1>2
  <2>3. d1 = d + n /\ l = e - n /\ n \in 0..e
    BY <1>1
  <2>4. g1 \in Nat /\ e1 \in Nat /\ g1 + e1 = g + 0 + l
    BY <1>4
  <2>5. HeldBy(q) = a + c + d + e /\ HeldBy(q)' = a1 + c1 + d1 + e1
    BY DEF HeldBy
  <2> HIDE DEF a, c, d, e, g, a1, c1, d1, e1, g1, l
  <2>6. d1 \in Nat /\ l \in Nat /\ d1 + l = d + e
    BY <2>1, <2>3
  <2>7. g1 + (a1 + c1 + d1 + e1) = g + (a + c + d + e)
    BY <2>1, <2>2, <2>4, <2>6
  <2> QED BY <2>5, <2>7 DEF g, g1
<1> QED BY <1>4, <1>5, <1>6, <1>7, <1>8 DEF Effect

\* Every step has such an effect on some queue.
LEMMA StepEffect == ASSUME DeviceInv, Next PROVE \E q \in Queues : Effect(q)
<1>0. 0 \in Queues
  BY Constants
<1>1. ASSUME NEW ip \in Ips, NEW mac \in Macs, WireArp(ip, mac) PROVE Effect(0)
  <2>1. Arp(ip, mac) \in Frame /\ IsArp(Arp(ip, mac))
    BY FrameFacts
  <2>2. /\ Len(rx_ring[0]) < RxRingSize /\ free > 0 /\ free' = free - 1
        /\ rx_ring' = [rx_ring EXCEPT ![0] = Append(@, Arp(ip, mac))]
        /\ UNCHANGED <<rx_batch, tx_ring, tx_batch, arrived, delivered, sent, wired>>
    BY <1>1 DEF WireArp, ghost_vars
  <2> QED BY <1>0, <2>1, <2>2, ArrivalEffect
<1>2. ASSUME NEW q \in Queues, WireData(q) PROVE Effect(q)
  <2>1. arrived \in [Queues -> Nat] /\ arrived' = [arrived EXCEPT ![q] = @ + 1]
    BY <1>2 DEF WireData, DeviceInv, BatchTypes
  <2>2. arrived'[q] = arrived[q] + 1 /\ arrived[q] + 1 \in Nat
    BY <2>1
  <2>3. Data(arrived[q] + 1) \in Frame
    BY <2>2, FrameFacts
  <2>4. /\ Len(rx_ring[q]) < RxRingSize /\ free > 0 /\ free' = free - 1
        /\ rx_ring' = [rx_ring EXCEPT ![q] = Append(@, Data(arrived[q] + 1))]
        /\ UNCHANGED <<rx_batch, tx_ring, tx_batch, delivered, sent, wired>>
    BY <1>2, <2>2 DEF WireData
  <2> QED BY <2>1, <2>3, <2>4, ArrivalEffect
<1>3. ASSUME NEW q \in Queues, NicTransmit(q) PROVE Effect(q)
  BY <1>3, WireEffect
<1>4. ASSUME NEW q \in Queues, NEW ip \in Ips, NeighborExpires(q, ip) PROVE Effect(q)
  BY <1>4, QuietStep DEF NeighborExpires
<1>5. ASSUME NEW q \in Queues, PollRx(q) PROVE Effect(q)
  BY <1>5, PollEffect
<1>6. CASE scan
  BY <1>0, <1>6, QuietStep DEF scan, InsertEntry, BumpVersion
<1>7. ASSUME NEW q \in Queues, NEW ip \in Ips, PushEntry(q, ip) PROVE Effect(q)
  <2> DEFINE mac == cache_snapshot[q][ip]
  <2>1. mac \in Macs
    BY <1>7 DEF PushEntry, DeviceInv, Threads, CacheTypes, Map, Entries
  <2>2. Arp(ip, mac) \in Frame /\ IsArp(Arp(ip, mac))
    BY <2>1, FrameFacts
  <2>3. /\ CanPush(q) /\ free' = free - 1
        /\ rx_batch' = [rx_batch EXCEPT ![q] = Append(@, Arp(ip, mac))]
        /\ UNCHANGED <<rx_ring, tx_ring, tx_batch, arrived, delivered, sent, wired>>
    BY <1>7 DEF PushEntry, ghost_vars
  <2> QED BY <2>2, <2>3, InjectionEffect
<1>8. ASSUME NEW q \in Queues, inject_from_shared_cache(q) PROVE Effect(q)
  <2>1. CASE LoadVersion(q)
    BY <2>1, QuietStep DEF LoadVersion
  <2>2. CASE LoadSnapshot(q)
    BY <2>2, QuietStep DEF LoadSnapshot
  <2>3. CASE PushFails(q)
    BY <2>3, QuietStep DEF PushFails
  <2>4. CASE InjectionDone(q)
    BY <2>4, QuietStep DEF InjectionDone
  <2> QED BY <1>7, <1>8, <2>1, <2>2, <2>3, <2>4 DEF inject_from_shared_cache
<1>9. ASSUME NEW q \in Queues, PopFrame(q) PROVE Effect(q)
  BY <1>9, PopEffect
<1>10. ASSUME NEW q \in Queues, Transmit(q) PROVE Effect(q)
  BY <1>10, TransmitEffect
<1>11. ASSUME NEW q \in Queues, inject_rx_packet(q) PROVE Effect(q)
  <2>1. arrived \in [Queues -> Nat] /\ arrived' = [arrived EXCEPT ![q] = @ + 1]
    BY <1>11 DEF inject_rx_packet, DeviceInv, BatchTypes
  <2>2. arrived'[q] = arrived[q] + 1 /\ arrived[q] + 1 \in Nat
    BY <2>1
  <2>3. Data(arrived[q] + 1) \in Frame
    BY <2>2, FrameFacts
  <2>4. /\ CanPush(q) /\ free' = free - 1
        /\ rx_batch' = [rx_batch EXCEPT ![q] = Append(@, Data(arrived[q] + 1))]
        /\ UNCHANGED <<rx_ring, tx_ring, tx_batch, delivered, sent, wired>>
    BY <1>11, <2>2 DEF inject_rx_packet
  <2> QED BY <2>1, <2>3, <2>4, InjectionEffect
<1> QED
  BY <1>0, <1>1, <1>2, <1>3, <1>4, <1>5, <1>6, <1>8, <1>9, <1>10, <1>11
  DEF Next, Wire, receive

\* The receive side stays typed and within its capacities.
LEMMA RxEffectTypes ==
  ASSUME DeviceInv, NEW q \in Queues, RxEffect(q)
  PROVE  /\ rx_ring'[q] \in Seq(Frame) /\ Len(rx_ring'[q]) <= RxRingSize
         /\ rx_batch'[q] \in Seq(Frame) /\ Len(rx_batch'[q]) <= RxCap
         /\ arrived'[q] \in Nat /\ delivered'[q] \in Seq(Nat)
<1> DEFINE a == Len(rx_ring[q])
           c == Len(rx_batch[q])
<1>0. /\ rx_ring[q] \in Seq(Frame) /\ a \in Nat /\ a <= RxRingSize
      /\ rx_batch[q] \in Seq(Frame) /\ c \in Nat /\ c <= RxCap
      /\ arrived[q] \in Nat /\ delivered[q] \in Seq(Nat)
      /\ RxRingSize \in Nat /\ RxCap \in Nat
  BY Lengths, Constants
<1>1. CASE RxQuiet(q)
  BY <1>0, <1>1 DEF RxQuiet
<1>2. CASE OnRing(q)
  <2>1. PICK f \in Frame : /\ Appears(q, f) /\ a < RxRingSize
                           /\ rx_ring'[q] = Append(rx_ring[q], f) /\ rx_batch'[q] = rx_batch[q]
    BY <1>2 DEF OnRing
  <2>2. rx_ring'[q] \in Seq(Frame) /\ Len(rx_ring'[q]) = a + 1
    BY <1>0, <2>1, AppendProperties
  <2>3. a + 1 <= RxRingSize
    <3> HIDE DEF a
    <3> QED BY <1>0, <2>1
  <2>4. arrived'[q] \in Nat /\ delivered'[q] = delivered[q]
    BY <1>0, <2>1 DEF Appears
  <2> QED BY <1>0, <2>1, <2>2, <2>3, <2>4
<1>3. CASE InBatch(q)
  <2>1. PICK f \in Frame : /\ Appears(q, f) /\ c < RxCap
                           /\ rx_batch'[q] = Append(rx_batch[q], f) /\ rx_ring'[q] = rx_ring[q]
    BY <1>3 DEF InBatch
  <2>2. rx_batch'[q] \in Seq(Frame) /\ Len(rx_batch'[q]) = c + 1
    BY <1>0, <2>1, AppendProperties
  <2>3. c + 1 <= RxCap
    <3> HIDE DEF c
    <3> QED BY <1>0, <2>1
  <2>4. arrived'[q] \in Nat /\ delivered'[q] = delivered[q]
    BY <1>0, <2>1 DEF Appears
  <2> QED BY <1>0, <2>1, <2>2, <2>3, <2>4
<1>4. CASE Refill(q)
  <2>1. PICK n \in 0..a : /\ n <= RxCap
                          /\ rx_batch'[q] = SubSeq(rx_ring[q], 1, n)
                          /\ rx_ring'[q] = SubSeq(rx_ring[q], n + 1, a)
    BY <1>4 DEF Refill
  <2>2. /\ rx_ring'[q] \in Seq(Frame) /\ Len(rx_ring'[q]) = a - n
        /\ rx_batch'[q] \in Seq(Frame) /\ Len(rx_batch'[q]) = n
    BY <1>0, <2>1, PrefixOf, RestOf
  <2>3. a - n <= RxRingSize
    <3>1. n \in 0..a
      OBVIOUS
    <3> HIDE DEF a
    <3> QED BY <1>0, <3>1
  <2> QED BY <1>0, <1>4, <2>1, <2>2, <2>3 DEF Refill
<1>5. CASE Popped(q)
  <2> DEFINE f == Last(rx_batch[q])
  <2>1. /\ rx_batch'[q] \in Seq(Frame) /\ Len(rx_batch'[q]) = c - 1 /\ f \in Frame
    BY <1>0, <1>5, FrontOf DEF Popped
  <2>2. c - 1 <= RxCap
    <3> HIDE DEF c
    <3> QED BY <1>0
  <2>3. delivered'[q] \in Seq(Nat)
    <3>1. CASE IsArp(f)
      BY <1>0, <1>5, <3>1 DEF Popped
    <3>2. CASE ~IsArp(f)
      <4>1. f.id \in Nat
        BY <2>1, <3>2, FrameFacts
      <4>2. delivered'[q] = Append(delivered[q], f.id)
        BY <1>5, <3>2 DEF Popped
      <4> QED BY <1>0, <4>1, <4>2, AppendProperties
    <3> QED BY <3>1, <3>2
  <2> QED BY <1>0, <1>5, <2>1, <2>2, <2>3 DEF Popped
<1> QED BY <1>1, <1>2, <1>3, <1>4, <1>5 DEF RxEffect

\* What a flush of n frames moves and leaves, in numbers and in contents.
LEMMA MovedFacts ==
  ASSUME DeviceInv, NEW q \in Queues, NEW n \in 0..Len(tx_batch[q]), Moved(q, n)
  PROVE  /\ tx_ring'[q] \in Seq(Nat) /\ Len(tx_ring'[q]) = Len(tx_ring[q]) + n
         /\ Len(tx_ring'[q]) <= TxRingSize
         /\ \A i \in 1..Len(tx_ring[q]) : tx_ring'[q][i] = tx_ring[q][i]
         /\ \A i \in 1..n : tx_ring'[q][Len(tx_ring[q]) + i] = tx_batch[q][i]
         /\ Left(q, n) \in Seq(Nat) /\ Len(Left(q, n)) = Len(tx_batch[q]) - n
         /\ Len(Left(q, n)) \in Nat /\ Len(Left(q, n)) <= TxCap
         /\ \A i \in 1..(Len(tx_batch[q]) - n) : Left(q, n)[i] = tx_batch[q][n + i]
<1> DEFINE b == tx_batch[q]
           t == tx_ring[q]
           e == Len(b)
           d == Len(t)
           p == SubSeq(b, 1, n)
           u == SubSeq(b, n + 1, Len(b))
<1>0. /\ t \in Seq(Nat) /\ d \in Nat /\ d <= TxRingSize
      /\ b \in Seq(Nat) /\ e \in Nat /\ e <= TxCap
      /\ TxRingSize \in Nat /\ TxCap \in Nat /\ n \in 0..e
  BY Lengths, Constants
<1>1. e - n \in Nat /\ e - n <= TxCap
  <2> HIDE DEF e
  <2> QED BY <1>0
<1>2. CASE n = 0
  <2>1. tx_ring'[q] = t /\ Left(q, n) = b
    BY <1>2 DEF Moved, Left
  <2>2. d = d + n /\ e = e - n /\ (\A i \in Nat : n + i = i) /\ (1..n) = {}
    <3> HIDE DEF d, e
    <3> QED BY <1>0, <1>2
  <2>3. e \in Nat /\ e <= TxCap /\ d <= TxRingSize
    BY <1>0
  <2>4. \A i \in 1..(e - n) : b[i] = b[n + i]
    BY <2>2
  <2> QED BY <1>0, <2>1, <2>2, <2>3, <2>4
<1>3. CASE n # 0
  <2>1. tx_ring'[q] = t \o p /\ Left(q, n) = u /\ d + n <= TxRingSize
    BY <1>3 DEF Moved, Left
  <2>2. /\ p \in Seq(Nat) /\ Len(p) = n /\ \A i \in 1..n : p[i] = b[i]
    BY <1>0, PrefixOf
  <2>3. /\ u \in Seq(Nat) /\ Len(u) = e - n
        /\ \A i \in 1..(e - n) : u[i] = b[n + i]
    BY <1>0, RestOf
  <2> HIDE DEF p, u
  <2>4. /\ t \o p \in Seq(Nat) /\ Len(t \o p) = d + n
        /\ \A i \in 1..d + n : (t \o p)[i] = IF i <= d THEN t[i] ELSE p[i - d]
    BY <1>0, <2>2, ConcatProperties, ZenonT(40)
  <2>5. \A i \in 1..d : (t \o p)[i] = t[i]
    BY <1>0, <2>4
  <2>6. ASSUME NEW i \in 1..n PROVE (t \o p)[d + i] = b[i]
    <3>1. d + i \in 1..d + n /\ ~(d + i <= d) /\ d + i - d = i
      <4> HIDE DEF d
      <4> QED BY <1>0, SMTT(30)
    <3> QED BY <3>1, <2>2, <2>4
  <2> QED BY <1>1, <2>1, <2>3, <2>4, <2>5, <2>6
<1> QED BY <1>2, <1>3

\* The transmit side stays typed and within its capacities.
LEMMA TxEffectTypes ==
  ASSUME DeviceInv, NEW q \in Queues, TxEffect(q)
  PROVE  /\ tx_ring'[q] \in Seq(Nat) /\ Len(tx_ring'[q]) <= TxRingSize
         /\ tx_batch'[q] \in Seq(Nat) /\ Len(tx_batch'[q]) <= TxCap
         /\ sent'[q] \in Nat /\ wired'[q] \in Nat
<1> DEFINE d == Len(tx_ring[q])
<1>0. /\ tx_ring[q] \in Seq(Nat) /\ d \in Nat /\ d <= TxRingSize
      /\ tx_batch[q] \in Seq(Nat) /\ Len(tx_batch[q]) <= TxCap
      /\ sent[q] \in Nat /\ wired[q] \in Nat
      /\ TxRingSize \in Nat /\ TxCap \in Nat
  BY Lengths, Constants
<1>1. CASE TxQuiet(q)
  BY <1>0, <1>1 DEF TxQuiet
<1>2. CASE OnWire(q)
  <2>1. Head(tx_ring[q]) \in Nat /\ Tail(tx_ring[q]) \in Seq(Nat)
        /\ Len(Tail(tx_ring[q])) = d - 1
    BY <1>0, <1>2, HeadTailProperties DEF OnWire
  <2>2. d - 1 <= TxRingSize
    <3> HIDE DEF d
    <3> QED BY <1>0
  <2> QED BY <1>0, <1>2, <2>1, <2>2 DEF OnWire
<1>3. CASE Emitted(q)
  <2>1. PICK n \in 0..Len(tx_batch[q]) :
          /\ Moved(q, n)
          /\ \/ tx_batch'[q] = Left(q, n) /\ sent'[q] = sent[q]
             \/ /\ Len(Left(q, n)) < TxCap
                /\ tx_batch'[q] = Append(Left(q, n), sent[q] + 1)
                /\ sent'[q] = sent[q] + 1
    BY <1>3 DEF Emitted
  <2> DEFINE l == Len(Left(q, n))
  <2>2. /\ tx_ring'[q] \in Seq(Nat) /\ Len(tx_ring'[q]) <= TxRingSize
        /\ Left(q, n) \in Seq(Nat) /\ l \in Nat /\ l <= TxCap
    BY <2>1, MovedFacts
  <2>3. wired'[q] \in Nat
    BY <1>0, <1>3 DEF Emitted
  <2>4. CASE tx_batch'[q] = Left(q, n) /\ sent'[q] = sent[q]
    BY <1>0, <2>2, <2>3, <2>4
  <2>5. CASE /\ l < TxCap
             /\ tx_batch'[q] = Append(Left(q, n), sent[q] + 1)
             /\ sent'[q] = sent[q] + 1
    <3>1. sent[q] + 1 \in Nat
      BY <1>0
    <3>2. tx_batch'[q] \in Seq(Nat) /\ Len(tx_batch'[q]) = l + 1
      BY <2>2, <2>5, <3>1, AppendProperties
    <3>3. l + 1 <= TxCap
      <4>1. l < TxCap
        BY <2>5
      <4> HIDE DEF l
      <4> QED BY <1>0, <2>2, <4>1
    <3> QED BY <2>2, <2>3, <2>5, <3>1, <3>2, <3>3
  <2> QED BY <2>1, <2>4, <2>5
<1> QED BY <1>1, <1>2, <1>3 DEF TxEffect

\* panicked: a token of transmit() never finds the batch full.
LEMMA StepKeepsPanics ==
  ASSUME DeviceInv, Next
  PROVE  /\ panicked' \in [Queues -> {"no", "receive", "transmit"}]
         /\ TransmitTokenSafe'
<1>0. panicked \in [Queues -> {"no", "receive", "transmit"}] /\ TransmitTokenSafe
  BY DEF DeviceInv, BatchTypes
<1>1. CASE UNCHANGED panicked
  BY <1>0, <1>1 DEF TransmitTokenSafe
<1>2. ASSUME NEW q \in Queues, PopFrame(q), ~UNCHANGED panicked
      PROVE  /\ panicked' \in [Queues -> {"no", "receive", "transmit"}]
             /\ TransmitTokenSafe'
  <2>1. consume(q, tx_batch[q], "receive", 1)
    BY <1>2 DEF PopFrame, IsArp
  <2>2. tx_batch[q] \in Seq(Nat) /\ Len(tx_batch[q]) <= TxCap
    BY Lengths
  <2>3. /\ panicked' \in [Queues -> {"no", "receive", "transmit"}]
        /\ \A r \in Queues : panicked'[r] \in {panicked[r], "receive"}
    BY <2>1, <2>2, ConsumeFacts
  <2> QED BY <1>0, <2>3 DEF TransmitTokenSafe
<1>3. ASSUME NEW q \in Queues, Transmit(q)
      PROVE  /\ panicked' \in [Queues -> {"no", "receive", "transmit"}]
             /\ TransmitTokenSafe'
  <2>1. PICK n \in 0..Len(tx_batch[q]) :
             /\ Moved(q, n) /\ Left(q, n) \in Seq(Nat) /\ Len(Left(q, n)) < TxCap
             /\ consume(q, Left(q, n), "transmit", 0)
    BY <1>3, TransmitRoom
  <2>2. Len(Left(q, n)) <= TxCap
    BY <2>1, MovedFacts
  <2>3. /\ panicked' \in [Queues -> {"no", "receive", "transmit"}]
        /\ \A r \in Queues : panicked'[r] \in {panicked[r], "receive"}
    BY <2>1, <2>2, ConsumeFacts
  <2> QED BY <1>0, <2>3 DEF TransmitTokenSafe
<1>4. CASE Wire
  BY <1>1, <1>4 DEF Wire, WireArp, WireData, NicTransmit, NeighborExpires
<1>5. ASSUME NEW q \in Queues, receive(q), ~PopFrame(q) PROVE UNCHANGED panicked
  BY <1>5 DEF receive, scan, inject_from_shared_cache, PollRx, InsertEntry, BumpVersion,
              LoadVersion, LoadSnapshot, PushEntry, PushFails, InjectionDone
<1>6. ASSUME NEW q \in Queues, inject_rx_packet(q) PROVE UNCHANGED panicked
  BY <1>6 DEF inject_rx_packet
<1> QED BY <1>1, <1>2, <1>3, <1>4, <1>5, <1>6 DEF Next

\* Every step keeps the types and capacities of rings and batches.
LEMMA StepKeepsBatchTypes == ASSUME DeviceInv, Next PROVE BatchTypes' /\ Capacities'
<1>1. PICK q \in Queues : Effect(q)
  BY StepEffect
<1>2. /\ rx_ring'[q] \in Seq(Frame) /\ Len(rx_ring'[q]) <= RxRingSize
      /\ rx_batch'[q] \in Seq(Frame) /\ Len(rx_batch'[q]) <= RxCap
      /\ arrived'[q] \in Nat /\ delivered'[q] \in Seq(Nat)
  BY <1>1, RxEffectTypes DEF Effect
<1>3. /\ tx_ring'[q] \in Seq(Nat) /\ Len(tx_ring'[q]) <= TxRingSize
      /\ tx_batch'[q] \in Seq(Nat) /\ Len(tx_batch'[q]) <= TxCap
      /\ sent'[q] \in Nat /\ wired'[q] \in Nat
  BY <1>1, TxEffectTypes DEF Effect
<1>4. OnlyQueue(q) /\ free' \in Nat
  BY <1>1 DEF Effect
<1>5. Capacities'
  BY <1>2, <1>3, <1>4 DEF Capacities, OnlyQueue, DeviceInv
<1>6. /\ \A r \in Queues : rx_ring'[r] \in Seq(Frame) /\ rx_batch'[r] \in Seq(Frame)
      /\ \A r \in Queues : tx_ring'[r] \in Seq(Nat) /\ tx_batch'[r] \in Seq(Nat)
      /\ \A r \in Queues : arrived'[r] \in Nat /\ delivered'[r] \in Seq(Nat)
      /\ \A r \in Queues : sent'[r] \in Nat /\ wired'[r] \in Nat
  BY <1>2, <1>3, <1>4, Lengths DEF OnlyQueue
<1>7. /\ rx_ring' \in [Queues -> Seq(Frame)] /\ rx_batch' \in [Queues -> Seq(Frame)]
      /\ tx_ring' \in [Queues -> Seq(Nat)] /\ tx_batch' \in [Queues -> Seq(Nat)]
      /\ arrived' \in [Queues -> Nat] /\ delivered' \in [Queues -> Seq(Nat)]
      /\ sent' \in [Queues -> Nat] /\ wired' \in [Queues -> Nat]
  BY <1>1, <1>6 DEF IsArray, Effect, Domains
<1>8. panicked' \in [Queues -> {"no", "receive", "transmit"}]
  BY StepKeepsPanics
<1> QED BY <1>4, <1>5, <1>7, <1>8 DEF BatchTypes

\* Queue 0 alone scans, the others alone inject, and the scan's positions
\* stay those of ARP replies in the batch.
LEMMA StepKeepsThreads == ASSUME DeviceInv, Next PROVE Threads'
<1> USE DEF Goto
<1>0. /\ Threads /\ 0 \in Queues /\ pc \in [Queues -> Labels] /\ rx_batch \in [Queues -> Seq(Frame)]
      /\ todo \in [Queues -> SUBSET Ips] /\ cache_snapshot \in [Queues -> Map]
  BY Constants DEF DeviceInv, CacheTypes, BatchTypes
<1>1. CASE UNCHANGED <<pc, todo, cache_snapshot, to_insert, rx_batch>>
  BY <1>0, <1>1 DEF Threads
<1>2. ASSUME NEW q \in Queues, inject_rx_packet(q) PROVE Threads'
  <2>1. /\ pc[q] = "idle" /\ UNCHANGED <<pc, todo, cache_snapshot, to_insert>>
        /\ \A r \in Queues \ {q} : rx_batch'[r] = rx_batch[r]
    BY <1>0, <1>2 DEF inject_rx_packet, inject_vars
  <2>2. to_insert \subseteq ArpPositions(rx_batch'[0])
    BY <1>0, <2>1 DEF Threads
  <2> QED BY <1>0, <2>1, <2>2 DEF Threads
<1>3. ASSUME NEW q \in Queues, PollRx(q) PROVE Threads'
  <2>0. pc[q] = "idle" /\ UNCHANGED <<todo, cache_snapshot>>
    BY <1>3 DEF PollRx, inject_vars
  <2>1. CASE q # 0
    <3>1. /\ pc' = [pc EXCEPT ![q] = "inject"] /\ UNCHANGED to_insert
          /\ rx_batch'[0] = rx_batch[0]
      BY <1>0, <1>3, <2>1 DEF PollRx
    <3> QED BY <1>0, <2>0, <2>1, <3>1 DEF Threads
  <2>2. CASE q = 0
    <3> DEFINE n == IF rx_batch[0] = <<>> THEN Min({RxCap, Len(rx_ring[0])}) ELSE 0
               burst == SubSeq(rx_ring[0], 1, n)
    <3>1. /\ pc' = [pc EXCEPT ![0] = AfterScan(to_insert')]
          /\ to_insert' = (IF Shared THEN ArpPositions(burst) ELSE to_insert)
          /\ rx_batch'[0] = rx_batch[0] \o burst
      BY <1>0, <1>3, <2>2 DEF PollRx
    <3>2. to_insert = {}
      BY <1>0, <2>0, <2>2 DEF Threads
    <3>3. ArpPositions(burst) \subseteq ArpPositions(rx_batch'[0])
      <4>1. rx_ring[0] \in Seq(Frame)
        BY <1>0, Lengths
      <4>2. CASE rx_batch[0] = <<>>
        <5>1. Len(rx_ring[0]) \in Nat /\ RxCap \in Nat
          BY <4>1, Constants, LenProperties
        <5> DEFINE m == Len(rx_ring[0])
        <5>2. n \in {RxCap, m} /\ n <= m
          <6>1. n = Min({RxCap, m})
            BY <4>2
          <6>2. RxCap \in Int /\ m \in Int
            BY <5>1
          <6> HIDE DEF m, n
          <6> QED BY <6>1, <6>2, MinOfTwo
        <5>3. n \in 0..m
          <6>1. m \in Nat
            BY <5>1
          <6> HIDE DEF m, n
          <6> QED BY <5>1, <5>2, <6>1
        <5> HIDE DEF n
        <5>4. burst \in Seq(Frame)
          BY <4>1, <5>3, PrefixOf
        <5> HIDE DEF burst
        <5> QED BY <3>1, <4>2, <5>4, ConcatEmptySeq
      <4>3. CASE rx_batch[0] # <<>>
        <5>1. burst = <<>>
          BY <4>1, <4>3, TakeNothing
        <5>2. ArpPositions(<<>>) = {}
          BY DEF ArpPositions
        <5> QED BY <5>1, <5>2
      <4> QED BY <4>2, <4>3
    <3> HIDE DEF burst
    <3>4. to_insert' \subseteq ArpPositions(rx_batch'[0])
      BY <3>1, <3>2, <3>3
    <3>5. /\ pc'[0] \in {"pop", "scan"} /\ (pc'[0] = "scan" <=> to_insert' # {})
          /\ \A r \in Queues \ {0} : pc'[r] = pc[r]
      BY <1>0, <3>1 DEF AfterScan
    <3> QED BY <1>0, <2>0, <3>4, <3>5 DEF Threads
  <2> QED BY <2>1, <2>2
<1>4. CASE scan
  <2>0. /\ UNCHANGED <<todo, cache_snapshot, rx_batch>> /\ pc[0] \in {"scan", "bump"}
        /\ \A r \in Queues \ {0} : pc'[r] = pc[r]
    BY <1>0, <1>4 DEF scan, InsertEntry, BumpVersion, batch_vars, inject_vars
  <2>1. \/ to_insert' \subseteq to_insert /\ pc' = [pc EXCEPT ![0] = AfterScan(to_insert')]
        \/ to_insert' = to_insert /\ pc' = [pc EXCEPT ![0] = "bump"]
    BY <1>4 DEF scan, InsertEntry, BumpVersion
  <2>2. to_insert' \subseteq to_insert /\ (pc'[0] \in {"scan", "bump"} <=> to_insert' # {})
        /\ pc'[0] \in {"scan", "bump", "pop"}
    BY <1>0, <2>0, <2>1 DEF AfterScan, Threads
  <2>3. to_insert' \subseteq ArpPositions(rx_batch'[0])
    BY <1>0, <2>0, <2>2 DEF Threads
  <2> QED BY <1>0, <2>0, <2>2, <2>3 DEF Threads
<1>5. ASSUME NEW q \in Queues, inject_from_shared_cache(q) PROVE Threads'
  <2>0. pc[q] \in {"inject", "snapshot", "loop"} /\ q # 0
    BY <1>0, <1>5 DEF inject_from_shared_cache, LoadVersion, LoadSnapshot, PushEntry,
                      PushFails, InjectionDone, Threads
  <2>1. /\ UNCHANGED to_insert /\ rx_batch'[0] = rx_batch[0]
        /\ \A r \in Queues \ {q} : /\ pc'[r] = pc[r] /\ todo'[r] = todo[r]
                                   /\ cache_snapshot'[r] = cache_snapshot[r]
        /\ pc'[q] \in {"pop", "snapshot", "loop"}
    BY <1>0, <1>5, <2>0
    DEF inject_from_shared_cache, LoadVersion, LoadSnapshot, PushEntry, PushFails,
        InjectionDone, ReturnToReceive, batch_vars, inject_vars
  <2>2. todo'[q] \subseteq Entries(cache_snapshot'[q])
    BY <1>0, <1>5
    DEF inject_from_shared_cache, LoadVersion, LoadSnapshot, PushEntry, PushFails,
        InjectionDone, ReturnToReceive, inject_vars, Threads
  <2> QED BY <1>0, <2>0, <2>1, <2>2 DEF Threads
<1>6. ASSUME NEW q \in Queues, PopFrame(q) PROVE Threads'
  <2>1. /\ pc[q] = "pop" /\ pc' = [pc EXCEPT ![q] = "idle"]
        /\ UNCHANGED <<todo, cache_snapshot, to_insert>>
        /\ \A r \in Queues \ {q} : rx_batch'[r] = rx_batch[r]
    BY <1>0, <1>6 DEF PopFrame, inject_vars, batch_vars
  <2>2. to_insert \subseteq ArpPositions(rx_batch'[0])
    BY <1>0, <2>1 DEF Threads
  <2> QED BY <1>0, <2>1, <2>2 DEF Threads
<1>7. CASE Wire
  BY <1>1, <1>7 DEF Wire, WireArp, WireData, NicTransmit, NeighborExpires, inject_vars,
                    batch_vars
<1>8. ASSUME NEW q \in Queues, Transmit(q) PROVE Threads'
  BY <1>1, <1>8 DEF Transmit, inject_vars
<1> QED BY <1>2, <1>3, <1>4, <1>5, <1>6, <1>7, <1>8 DEF Next, receive

\* The devices start with empty rings and batches.
LEMMA InitDevice == Init => DeviceInv
<1> SUFFICES ASSUME Init PROVE DeviceInv
  OBVIOUS
<1>1. CacheTypes
  BY DEF Init, CacheTypes, Map, EmptyMap, Labels
<1>2. <<>> \in Seq(Frame) /\ <<>> \in Seq(Nat) /\ Len(<<>>) = 0
  BY EmptySeq
<1>3. BatchTypes
  BY <1>2, Constants DEF Init, BatchTypes
<1>4. Capacities
  BY <1>2, Constants DEF Init, Capacities
<1>5. Threads
  BY Constants DEF Init, Threads
<1>6. TransmitTokenSafe
  BY DEF Init, TransmitTokenSafe
<1> QED BY <1>1, <1>3, <1>4, <1>5, <1>6 DEF DeviceInv

\* DeviceInv is an invariant: types, capacities and where each thread is.
THEOREM DeviceTypes == Spec => []DeviceInv
<1>1. DeviceInv /\ [Next]_vars => DeviceInv'
  <2> SUFFICES ASSUME DeviceInv, [Next]_vars PROVE DeviceInv'
    OBVIOUS
  <2>1. CASE Next
    BY <2>1, StepKeepsCacheTypes, StepKeepsBatchTypes, StepKeepsThreads, StepKeepsPanics
    DEF DeviceInv
  <2>2. CASE UNCHANGED vars
    BY <2>2 DEF vars, cache_vars, batch_vars, inject_vars, ghost_vars, bound_vars, DeviceInv,
                CacheTypes, BatchTypes, Threads, Capacities, TransmitTokenSafe
  <2> QED BY <2>1, <2>2
<1> QED BY <1>1, InitDevice, PTL DEF Spec

(* transmit() hands out a token only when tx_batch has room for its frame: *)
(* on no queue, with rings and batches of any size, does consume() panic   *)
(* on such a token.                                                        *)
THEOREM TransmitTokensNeverPanic == Spec => []TransmitTokenSafe
<1>1. DeviceInv => TransmitTokenSafe
  BY DEF DeviceInv
<1> QED BY <1>1, DeviceTypes, PTL

-----------------------------------------------------------------------------
(* Sent frames keep their order *)

\* The frame at the head of the ring reaches the wire.
LEMMA WireKeepsOrder ==
  ASSUME NEW w \in Nat, NEW s \in Nat, NEW t \in Seq(Nat), NEW b \in Seq(Nat),
         Consecutive(w, s, t, b), t # <<>>
  PROVE  Consecutive(Head(t), s, Tail(t), b)
<1> DEFINE n == Len(t)
           m == Len(b)
           u == Tail(t)
<1>1. n \in Nat \ {0} /\ m \in Nat /\ Head(t) = t[1]
  BY EmptySeq, LenProperties, HeadTailProperties
<1>2. u \in Seq(Nat) /\ Len(u) = n - 1 /\ \A i \in 1..(n - 1) : u[i] = t[i + 1]
  BY HeadTailProperties
<1>3. Head(t) = w + 1
  BY <1>1 DEF Consecutive
<1> HIDE DEF n, m, u
<1>4. /\ w + n + m = s /\ \A i \in 1..n : t[i] = w + i
      /\ \A i \in 1..m : b[i] = w + n + i
  BY DEF Consecutive, n, m
<1>5. (w + 1) + (n - 1) + m = s
  BY <1>1, <1>4
<1>6. \A i \in 1..(n - 1) : u[i] = (w + 1) + i
  BY <1>1, <1>2, <1>4
<1>7. \A i \in 1..m : b[i] = (w + 1) + (n - 1) + i
  BY <1>1, <1>4
<1> QED BY <1>2, <1>3, <1>5, <1>6, <1>7 DEF Consecutive, m, u

\* Frames move from the front of the batch to the end of the ring.
LEMMA FlushKeepsOrder ==
  ASSUME NEW w \in Nat, NEW s \in Nat, NEW t \in Seq(Nat), NEW b \in Seq(Nat),
         Consecutive(w, s, t, b), NEW n \in 0..Len(b),
         NEW t1, Len(t1) = Len(t) + n,
         \A i \in 1..Len(t) : t1[i] = t[i],
         \A i \in 1..n : t1[Len(t) + i] = b[i],
         NEW b1, Len(b1) = Len(b) - n,
         \A i \in 1..(Len(b) - n) : b1[i] = b[n + i]
  PROVE  Consecutive(w, s, t1, b1)
<1> DEFINE d == Len(t)
           e == Len(b)
<1>1. d \in Nat /\ e \in Nat /\ n \in 0..e
  BY LenProperties
<1>2. /\ w + d + e = s /\ (\A i \in 1..d : t[i] = w + i)
      /\ \A i \in 1..e : b[i] = w + d + i
  BY DEF Consecutive
<1>3. /\ Len(t1) = d + n /\ (\A i \in 1..d : t1[i] = t[i])
      /\ \A i \in 1..n : t1[d + i] = b[i]
  OBVIOUS
<1>4. Len(b1) = e - n /\ \A i \in 1..(e - n) : b1[i] = b[n + i]
  OBVIOUS
<1> HIDE DEF d, e
<1>5. w + (d + n) + (e - n) = s
  BY <1>1, <1>2
<1>6. ASSUME NEW i \in 1..(d + n) PROVE t1[i] = w + i
  <2>1. CASE i <= d
    BY <1>1, <1>2, <1>3, <2>1
  <2>2. CASE ~(i <= d)
    <3>1. i - d \in 1..n /\ i - d \in 1..e /\ d + (i - d) = i /\ w + d + (i - d) = w + i
      BY <1>1, <2>2
    <3>2. t1[d + (i - d)] = b[i - d] /\ b[i - d] = w + d + (i - d)
      BY <1>2, <1>3, <3>1
    <3> QED BY <3>1, <3>2
  <2> QED BY <2>1, <2>2
<1>7. ASSUME NEW i \in 1..(e - n) PROVE b1[i] = w + (d + n) + i
  <2>1. n + i \in 1..e /\ w + d + (n + i) = w + (d + n) + i
    BY <1>1
  <2> QED BY <1>2, <1>4, <2>1
<1> QED BY <1>3, <1>4, <1>5, <1>6, <1>7 DEF Consecutive

\* A frame with the next number is written at the end of the batch.
LEMMA EmitKeepsOrder ==
  ASSUME NEW w \in Nat, NEW s \in Nat, NEW t \in Seq(Nat), NEW b \in Seq(Nat),
         Consecutive(w, s, t, b)
  PROVE  Consecutive(w, s + 1, t, Append(b, s + 1))
<1> DEFINE d == Len(t)
           e == Len(b)
           a == Append(b, s + 1)
<1>1. d \in Nat /\ e \in Nat
  BY LenProperties
<1>2. /\ w + d + e = s /\ (\A i \in 1..d : t[i] = w + i)
      /\ \A i \in 1..e : b[i] = w + d + i
  BY DEF Consecutive
<1>3. Len(a) = e + 1 /\ (\A i \in 1..e : a[i] = b[i]) /\ a[e + 1] = s + 1
  BY AppendProperties
<1> HIDE DEF d, e, a
<1>4. w + d + (e + 1) = s + 1
  BY <1>1, <1>2
<1>5. ASSUME NEW i \in 1..(e + 1) PROVE a[i] = w + d + i
  <2>1. CASE i = e + 1
    BY <1>1, <1>3, <1>4, <2>1
  <2>2. CASE i # e + 1
    <3>1. i \in 1..e
      BY <1>1, <2>2
    <3> QED BY <1>2, <1>3, <3>1
  <2> QED BY <2>1, <2>2
<1> QED BY <1>2, <1>3, <1>4, <1>5 DEF Consecutive, d, a

\* Every step keeps the numbers consecutive.
LEMMA StepKeepsOrder == ASSUME DeviceInv, Numbered, Next PROVE Numbered'
<1>1. PICK q \in Queues : Effect(q)
  BY StepEffect
<1>2. /\ wired[q] \in Nat /\ sent[q] \in Nat /\ tx_ring[q] \in Seq(Nat)
      /\ tx_batch[q] \in Seq(Nat)
      /\ Consecutive(wired[q], sent[q], tx_ring[q], tx_batch[q])
  BY Lengths DEF Numbered
<1>3. Consecutive(wired'[q], sent'[q], tx_ring'[q], tx_batch'[q])
  <2>1. CASE TxQuiet(q)
    BY <1>2, <2>1 DEF TxQuiet
  <2>2. CASE OnWire(q)
    BY <1>2, <2>2, WireKeepsOrder DEF OnWire
  <2>3. CASE Emitted(q)
    <3>1. wired'[q] = wired[q]
      BY <2>3 DEF Emitted
    <3>2. PICK n \in 0..Len(tx_batch[q]) :
            /\ Moved(q, n)
            /\ \/ tx_batch'[q] = Left(q, n) /\ sent'[q] = sent[q]
               \/ /\ tx_batch'[q] = Append(Left(q, n), sent[q] + 1)
                  /\ sent'[q] = sent[q] + 1
      BY <2>3 DEF Emitted
    <3>3. Consecutive(wired[q], sent[q], tx_ring'[q], Left(q, n))
      <4> DEFINE w == wired[q]
                 s == sent[q]
                 t == tx_ring[q]
                 b == tx_batch[q]
                 t1 == tx_ring'[q]
                 b1 == Left(q, n)
      <4>1. /\ Len(t1) = Len(t) + n /\ (\A i \in 1..Len(t) : t1[i] = t[i])
            /\ \A i \in 1..n : t1[Len(t) + i] = b[i]
        BY <3>2, MovedFacts
      <4>2. Len(b1) = Len(b) - n /\ \A i \in 1..(Len(b) - n) : b1[i] = b[n + i]
        BY <3>2, MovedFacts
      <4>3. /\ w \in Nat /\ s \in Nat /\ t \in Seq(Nat) /\ b \in Seq(Nat)
            /\ Consecutive(w, s, t, b) /\ n \in 0..Len(b)
        BY <1>2
      <4> HIDE DEF w, s, t, b, t1, b1
      <4>4. Consecutive(w, s, t1, b1)
        BY <4>1, <4>2, <4>3, FlushKeepsOrder
      <4> QED BY <4>4 DEF w, s, t1, b1
    <3>4. tx_ring'[q] \in Seq(Nat) /\ Left(q, n) \in Seq(Nat)
      BY <3>2, MovedFacts
    <3>5. Consecutive(wired[q], sent[q] + 1, tx_ring'[q], Append(Left(q, n), sent[q] + 1))
      BY <1>2, <3>3, <3>4, EmitKeepsOrder
    <3> QED BY <3>1, <3>2, <3>3, <3>5
  <2> QED BY <1>1, <2>1, <2>2, <2>3 DEF Effect, TxEffect
<1> QED BY <1>1, <1>3 DEF Effect, OnlyQueue, Numbered

(* Frames reach the wire in the order in which smoltcp wrote them, without *)
(* a gap: partial flushes, full rings and lost answers never reorder or    *)
(* drop a frame that consume() accepted.                                   *)
THEOREM FramesKeepOrder == Spec => []TxInOrder
<1>1. Init => Numbered
  <2>1. Len(<<>>) = 0
    BY EmptySeq
  <2> QED BY <2>1 DEF Init, Numbered, Consecutive
<1>2. DeviceInv /\ Numbered /\ [Next]_vars => Numbered'
  <2>1. Numbered /\ UNCHANGED vars => Numbered'
    BY DEF vars, batch_vars, ghost_vars, Numbered
  <2> QED BY <2>1, StepKeepsOrder
<1>3. DeviceInv /\ Numbered => TxInOrder
  <2> SUFFICES ASSUME DeviceInv, Numbered, NEW q \in Queues
               PROVE  LET pending == tx_ring[q] \o tx_batch[q]
                      IN  /\ wired[q] + Len(pending) = sent[q]
                          /\ \A i \in 1..Len(pending) : pending[i] = wired[q] + i
    BY DEF TxInOrder
  <2> DEFINE t == tx_ring[q]
             b == tx_batch[q]
             w == wired[q]
             d == Len(t)
             e == Len(b)
             p == t \o b
  <2>1. t \in Seq(Nat) /\ b \in Seq(Nat) /\ w \in Nat /\ d \in Nat /\ e \in Nat
    BY Lengths
  <2>2. w + d + e = sent[q] /\ (\A i \in 1..d : t[i] = w + i) /\ (\A i \in 1..e : b[i] = w + d + i)
    BY DEF Numbered, Consecutive
  <2>3. Len(p) = d + e /\ \A i \in 1..d + e : p[i] = IF i <= d THEN t[i] ELSE b[i - d]
    BY <2>1, ConcatProperties
  <2> HIDE DEF d, e, p, w, t, b
  <2>4. w + (d + e) = sent[q]
    BY <2>1, <2>2
  <2>5. ASSUME NEW i \in 1..(d + e) PROVE p[i] = w + i
    <3>1. CASE i <= d
      BY <2>1, <2>2, <2>3, <3>1
    <3>2. CASE ~(i <= d)
      <4>1. i - d \in 1..e /\ w + d + (i - d) = w + i
        BY <2>1, <3>2
      <4> QED BY <2>2, <2>3, <3>2, <4>1
    <3> QED BY <3>1, <3>2
  <2> QED BY <2>3, <2>4, <2>5 DEF p, w, t, b
<1> QED BY <1>1, <1>2, <1>3, DeviceTypes, PTL DEF Spec

-----------------------------------------------------------------------------
(* Sums over the queues.  MapThenSumSet is a fold: a recursive function on *)
(* the subsets of a finite set, which takes one element after the other.   *)

Pick(s) == CHOOSE x \in s : TRUE
SumBody(h, S, f) ==
  [s \in SUBSET S |-> IF s = {} THEN 0 ELSE h[Pick(s)] + f[s \ {Pick(s)}]]
SumFun(h, S) == CHOOSE f : f = SumBody(h, S, f)
SumOver(h, S) == MapThenSumSet(LAMBDA q : h[q], S)

\* The fold is the value of the recursive function at the whole set.
LEMMA SumUnfold == ASSUME NEW h, NEW S PROVE SumOver(h, S) = SumFun(h, S)[S]
BY DEF SumOver, SumFun, SumBody, Pick, MapThenSumSet, MapThenFoldSet

\* A nonempty finite set without the element the fold takes is smaller.
LEMMA PickFacts ==
  ASSUME NEW S, IsFiniteSet(S), NEW s \in SUBSET S, s # {}
  PROVE  /\ Pick(s) \in s /\ Pick(s) \in S /\ s \ {Pick(s)} \in SUBSET S
         /\ Cardinality(s) \in Nat /\ Cardinality(s \ {Pick(s)}) \in Nat
         /\ Cardinality(s \ {Pick(s)}) = Cardinality(s) - 1
<1>1. Pick(s) \in s
  BY DEF Pick
<1>2. IsFiniteSet(s)
  BY FS_Subset
<1>3. Cardinality(s \ {Pick(s)}) = Cardinality(s) - 1
  BY <1>1, <1>2, FS_RemoveElement
<1>4. IsFiniteSet(s \ {Pick(s)})
  BY <1>2, FS_Subset
<1> QED BY <1>1, <1>2, <1>3, <1>4, FS_CardinalityType

\* The recursive function exists: it can be computed for all sets of up to n
\* elements, for every n.
LEMMA SumExists ==
  ASSUME NEW S, IsFiniteSet(S), NEW h \in [S -> Nat]
  PROVE  \E f : f = SumBody(h, S, f)
<1> DEFINE Value(f, s) == IF s = {} THEN 0 ELSE h[Pick(s)] + f[s \ {Pick(s)}]
           Upto(f, n) == \A s \in SUBSET S : Cardinality(s) <= n => f[s] = Value(f, s)
           Bad == {n \in Nat : ~(\E f \in [SUBSET S -> Nat] : Upto(f, n))}
<1>1. \A s \in SUBSET S : IsFiniteSet(s) /\ Cardinality(s) \in Nat
  BY FS_Subset, FS_CardinalityType
<1>2. 0 \notin Bad
  <2> DEFINE f == [s \in SUBSET S |-> 0]
  <2>1. ASSUME NEW s \in SUBSET S, Cardinality(s) <= 0 PROVE f[s] = Value(f, s)
    <3>1. s = {}
      BY <1>1, <2>1, FS_EmptySet
    <3> QED BY <3>1
  <2>2. f \in [SUBSET S -> Nat]
    OBVIOUS
  <2> HIDE DEF f, Value
  <2>3. Upto(f, 0)
    BY <2>1
  <2> QED BY <2>2, <2>3
<1>3. ASSUME NEW n \in Nat, n \notin Bad PROVE n + 1 \notin Bad
  <2>1. PICK f \in [SUBSET S -> Nat] : Upto(f, n)
    BY <1>3
  <2> DEFINE g == [s \in SUBSET S |-> IF Cardinality(s) <= n THEN f[s] ELSE Value(f, s)]
  <2>2. ASSUME NEW s \in SUBSET S PROVE Value(f, s) \in Nat
    <3>1. CASE s = {}
      BY <3>1
    <3>2. CASE s # {}
      <4>1. Pick(s) \in S /\ s \ {Pick(s)} \in SUBSET S
        BY <3>2, PickFacts
      <4>2. h[Pick(s)] \in Nat /\ f[s \ {Pick(s)}] \in Nat
        BY <4>1
      <4> QED BY <3>2, <4>2
    <3> QED BY <3>1, <3>2
  <2>3. g \in [SUBSET S -> Nat]
    <3> HIDE DEF Value
    <3> QED BY <2>2
  <2>4. ASSUME NEW s \in SUBSET S, Cardinality(s) <= n + 1 PROVE g[s] = Value(g, s)
    <3>1. g[s] = Value(f, s)
      <4> HIDE DEF Value
      <4> QED BY <2>1
    <3>2. CASE s = {}
      BY <3>1, <3>2
    <3>3. CASE s # {}
      <4> DEFINE r == s \ {Pick(s)}
      <4>1. r \in SUBSET S /\ Cardinality(s) \in Nat /\ Cardinality(r) \in Nat
            /\ Cardinality(r) = Cardinality(s) - 1
        BY <3>3, PickFacts
      <4>2. Cardinality(r) <= n
        <5> HIDE DEF r
        <5> QED BY <2>4, <4>1
      <4>3. g[r] = f[r]
        <5> HIDE DEF r, Value
        <5> QED BY <4>1, <4>2
      <4>4. Value(f, s) = h[Pick(s)] + f[r] /\ Value(g, s) = h[Pick(s)] + g[r]
        BY <3>3
      <4> HIDE DEF g, Value, r
      <4> QED BY <3>1, <4>3, <4>4
    <3> QED BY <3>2, <3>3
  <2> HIDE DEF g, Value
  <2>5. Upto(g, n + 1)
    BY <2>4
  <2> QED BY <2>3, <2>5
<1> HIDE DEF Bad
<1>4. Bad = {}
  <2> SUFFICES ASSUME Bad # {} PROVE FALSE
    OBVIOUS
  <2>1. Bad \in SUBSET Nat
    BY DEF Bad
  <2>2. PICK m \in Bad : \A k \in Bad : m <= k
    BY <2>1, LeastNat
  <2>3. m \in Nat /\ m # 0
    BY <1>2, <2>1, <2>2
  <2>4. m - 1 \in Nat /\ (m - 1) + 1 = m /\ ~(m <= m - 1)
    BY <2>3
  <2>5. m - 1 \notin Bad
    BY <2>2, <2>4
  <2> QED BY <1>3, <2>2, <2>4, <2>5
<1>5. Cardinality(S) \in Nat
  BY FS_CardinalityType
<1>6. PICK f \in [SUBSET S -> Nat] : Upto(f, Cardinality(S))
  <2>1. Cardinality(S) \notin Bad
    BY <1>4
  <2> QED BY <1>5, <2>1 DEF Bad
<1>7. \A s \in SUBSET S : f[s] = Value(f, s)
  <2>1. \A s \in SUBSET S : Cardinality(s) <= Cardinality(S)
    BY FS_Subset
  <2> HIDE DEF Value
  <2> QED BY <1>6, <2>1
<1>8. f = [s \in SUBSET S |-> Value(f, s)]
  <2> HIDE DEF Value
  <2> QED BY <1>7
<1> QED BY <1>8 DEF SumBody

\* It satisfies its equation.
LEMMA SumEquation ==
  ASSUME NEW S, IsFiniteSet(S), NEW h \in [S -> Nat], NEW s \in SUBSET S
  PROVE  SumFun(h, S)[s] =
           IF s = {} THEN 0 ELSE h[Pick(s)] + SumFun(h, S)[s \ {Pick(s)}]
<1>1. SumFun(h, S) = SumBody(h, S, SumFun(h, S))
  BY SumExists DEF SumFun
<1> DEFINE F == SumFun(h, S)
<1> HIDE DEF F
<1>2. F = SumBody(h, S, F)
  BY <1>1 DEF F
<1>3. SumBody(h, S, F)[s] = IF s = {} THEN 0 ELSE h[Pick(s)] + F[s \ {Pick(s)}]
  BY DEF SumBody
<1>4. F[s] = IF s = {} THEN 0 ELSE h[Pick(s)] + F[s \ {Pick(s)}]
  BY <1>2, <1>3
<1> QED BY <1>4 DEF F

\* A sum is a number, and it changes by what one summand changes.
LEMMA SumChanges ==
  ASSUME NEW S, IsFiniteSet(S), NEW h \in [S -> Nat], NEW g \in [S -> Nat], NEW q \in S,
         \A x \in S \ {q} : g[x] = h[x]
  PROVE  /\ SumOver(h, S) \in Nat /\ SumOver(g, S) \in Nat
         /\ SumOver(g, S) + h[q] = SumOver(h, S) + g[q]
<1> DEFINE H == SumFun(h, S)
           G == SumFun(g, S)
           Good(s) == /\ H[s] \in Nat /\ G[s] \in Nat
                      /\ q \notin s => G[s] = H[s]
                      /\ q \in s => G[s] + h[q] = H[s] + g[q]
           Bad == {Cardinality(s) : s \in {r \in SUBSET S : ~Good(r)}}
<1>1. \A s \in SUBSET S : IsFiniteSet(s) /\ Cardinality(s) \in Nat
  BY FS_Subset, FS_CardinalityType
<1>2. \A s \in SUBSET S :
        /\ H[s] = IF s = {} THEN 0 ELSE h[Pick(s)] + H[s \ {Pick(s)}]
        /\ G[s] = IF s = {} THEN 0 ELSE g[Pick(s)] + G[s \ {Pick(s)}]
  BY SumEquation
<1> HIDE DEF H, G
<1>3. ASSUME NEW s \in SUBSET S, s # {}, Good(s \ {Pick(s)}) PROVE Good(s)
  <2> DEFINE x == Pick(s)
             r == s \ {x}
             hx == h[x]
             gx == g[x]
             hq == h[q]
             gq == g[q]
             Hr == H[r]
             Gr == G[r]
  <2>1. x \in s /\ x \in S
    BY <1>3, PickFacts
  <2>2. H[s] = hx + Hr /\ G[s] = gx + Gr
    BY <1>2, <1>3
  <2>3. /\ Hr \in Nat /\ Gr \in Nat
        /\ q \notin r => Gr = Hr
        /\ q \in r => Gr + hq = Hr + gq
    BY <1>3
  <2>4. hx \in Nat /\ gx \in Nat /\ hq \in Nat /\ gq \in Nat
    BY <2>1
  <2>5. CASE x = q
    <3>1. q \in s /\ q \notin r /\ hx = hq /\ gx = gq
      BY <2>1, <2>5
    <3>2. Gr = Hr
      BY <2>3, <3>1
    <3> HIDE DEF hx, gx, hq, gq, Hr, Gr
    <3>3. /\ hx + Hr \in Nat /\ gx + Gr \in Nat /\ (gx + Gr) + hq = (hx + Hr) + gq
      BY <2>3, <2>4, <3>1, <3>2
    <3> QED BY <2>2, <3>1, <3>3 DEF hq, gq
  <2>6. CASE x # q
    <3>1. gx = hx /\ (q \in s <=> q \in r)
      BY <2>1, <2>6
    <3> HIDE DEF hx, gx, hq, gq, Hr, Gr
    <3>2. hx + Hr \in Nat /\ gx + Gr \in Nat
      BY <2>3, <2>4
    <3>3. CASE q \in s
      <4>1. Gr + hq = Hr + gq
        BY <2>3, <3>1, <3>3
      <4>2. (gx + Gr) + hq = (hx + Hr) + gq
        BY <2>3, <2>4, <3>1, <4>1
      <4> QED BY <2>2, <3>2, <3>3, <4>2 DEF hq, gq
    <3>4. CASE q \notin s
      <4>1. Gr = Hr
        BY <2>3, <3>1, <3>4
      <4> QED BY <2>2, <3>1, <3>2, <3>4, <4>1
    <3> QED BY <3>3, <3>4
  <2> QED BY <2>5, <2>6
<1>4. Good({})
  <2>1. H[{}] = 0 /\ G[{}] = 0 /\ q \notin {}
    BY <1>2
  <2> QED BY <2>1
<1> HIDE DEF Good
<1>5. \A s \in SUBSET S : Good(s)
  <2> SUFFICES ASSUME NEW b \in SUBSET S, ~Good(b) PROVE FALSE
    OBVIOUS
  <2>1. Bad \in SUBSET Nat /\ Bad # {}
    BY <1>1
  <2>2. PICK m \in Bad : \A k \in Bad : m <= k
    BY <2>1, LeastNat
  <2>3. PICK s \in SUBSET S : ~Good(s) /\ m = Cardinality(s)
    BY <2>2
  <2>4. s # {}
    BY <1>4, <2>3
  <2> DEFINE r == s \ {Pick(s)}
  <2>5. r \in SUBSET S /\ Cardinality(r) \in Nat /\ m \in Nat /\ Cardinality(r) = m - 1
    BY <2>3, <2>4, PickFacts
  <2>6. ~Good(r)
    BY <1>3, <2>3, <2>4
  <2> HIDE DEF r
  <2>7. Cardinality(r) \in Bad
    BY <2>5, <2>6
  <2> HIDE DEF Bad
  <2>8. m <= Cardinality(r)
    BY <2>2, <2>7
  <2> QED BY <2>5, <2>8
<1>6. Good(S) /\ q \in S
  BY <1>5
<1>7. SumOver(h, S) = H[S] /\ SumOver(g, S) = G[S]
  BY SumUnfold DEF H, G
<1> QED BY <1>6, <1>7 DEF Good

\* A sum of zeros is zero.
LEMMA SumZero ==
  ASSUME NEW S, IsFiniteSet(S), NEW h \in [S -> Nat], \A x \in S : h[x] = 0
  PROVE  SumOver(h, S) = 0
<1> DEFINE H == SumFun(h, S)
           Bad == {Cardinality(s) : s \in {r \in SUBSET S : H[r] # 0}}
<1>1. \A s \in SUBSET S : IsFiniteSet(s) /\ Cardinality(s) \in Nat
  BY FS_Subset, FS_CardinalityType
<1>2. \A s \in SUBSET S : H[s] = IF s = {} THEN 0 ELSE h[Pick(s)] + H[s \ {Pick(s)}]
  BY SumEquation
<1> HIDE DEF H
<1>3. \A s \in SUBSET S : H[s] = 0
  <2> SUFFICES ASSUME NEW b \in SUBSET S, H[b] # 0 PROVE FALSE
    OBVIOUS
  <2>1. Bad \in SUBSET Nat /\ Bad # {}
    BY <1>1
  <2>2. PICK m \in Bad : \A k \in Bad : m <= k
    BY <2>1, LeastNat
  <2>3. PICK s \in SUBSET S : H[s] # 0 /\ m = Cardinality(s)
    BY <2>2
  <2>4. s # {}
    BY <1>2, <2>3
  <2> DEFINE r == s \ {Pick(s)}
  <2>5. /\ r \in SUBSET S /\ Cardinality(r) \in Nat /\ m \in Nat /\ Cardinality(r) = m - 1
        /\ Pick(s) \in S
    BY <2>3, <2>4, PickFacts
  <2>6. H[s] = h[Pick(s)] + H[r] /\ h[Pick(s)] = 0
    BY <1>2, <2>4, <2>5
  <2> HIDE DEF r
  <2>7. H[r] # 0
    BY <2>3, <2>6
  <2>8. Cardinality(r) \in Bad
    BY <2>5, <2>7
  <2> HIDE DEF Bad
  <2>9. m <= Cardinality(r)
    BY <2>2, <2>8
  <2> QED BY <2>5, <2>9
<1> QED BY <1>3, SumUnfold DEF H
-----------------------------------------------------------------------------
(* The mbufs of the mempool *)

\* What the queues hold, as a function of the queue.
LEMMA HeldFunction ==
  ASSUME DeviceInv
  PROVE  MbufsHeld \in [Queues -> Nat] /\ \A q \in Queues : MbufsHeld[q] = HeldBy(q)
<1>1. ASSUME NEW q \in Queues PROVE HeldBy(q) \in Nat
  <2> DEFINE a == Len(rx_ring[q])
             b == Len(rx_batch[q])
             c == Len(tx_ring[q])
             d == Len(tx_batch[q])
  <2>1. a \in Nat /\ b \in Nat /\ c \in Nat /\ d \in Nat
    BY Lengths
  <2>2. HeldBy(q) = a + b + c + d
    BY DEF HeldBy
  <2> HIDE DEF a, b, c, d
  <2> QED BY <2>1, <2>2
<1>2. MbufsHeld = [q \in Queues |-> HeldBy(q)]
  BY DEF MbufsHeld, HeldBy
<1> QED BY <1>1, <1>2

\* A step moves mbufs between the pool and one queue, or within that queue.
LEMMA StepKeepsMbufs ==
  ASSUME DeviceInv, DeviceInv', MbufsConserved, Next
  PROVE  MbufsConserved'
<1>1. PICK q \in Queues : Effect(q)
  BY StepEffect
<1> DEFINE h == MbufsHeld
           g == MbufsHeld'
<1>2. h \in [Queues -> Nat] /\ \A r \in Queues : h[r] = HeldBy(r)
  BY HeldFunction
<1>3. g \in [Queues -> Nat] /\ \A r \in Queues : g[r] = HeldBy(r)'
  <2>1. g = [r \in Queues |-> HeldBy(r)']
    BY DEF MbufsHeld, HeldBy
  <2>2. ASSUME NEW r \in Queues PROVE HeldBy(r)' \in Nat
    <3> DEFINE a == Len(rx_ring'[r])
               b == Len(rx_batch'[r])
               c == Len(tx_ring'[r])
               d == Len(tx_batch'[r])
    <3>1. /\ rx_ring'[r] \in Seq(Frame) /\ rx_batch'[r] \in Seq(Frame)
          /\ tx_ring'[r] \in Seq(Nat) /\ tx_batch'[r] \in Seq(Nat)
      BY DEF DeviceInv, BatchTypes
    <3>2. a \in Nat /\ b \in Nat /\ c \in Nat /\ d \in Nat
      BY <3>1, LenProperties
    <3>3. HeldBy(r)' = a + b + c + d
      BY DEF HeldBy
    <3> HIDE DEF a, b, c, d
    <3> QED BY <3>2, <3>3
  <2> QED BY <2>1, <2>2
<1>4. \A r \in Queues \ {q} : HeldBy(r)' = HeldBy(r)
  BY <1>1 DEF Effect, OnlyQueue, HeldBy
<1>5. IsFiniteSet(Queues) /\ \A r \in Queues \ {q} : g[r] = h[r]
  BY <1>2, <1>3, <1>4, DeviceAssumption
<1> HIDE DEF h, g
<1>6. /\ SumOver(h, Queues) \in Nat /\ SumOver(g, Queues) \in Nat
      /\ SumOver(g, Queues) + h[q] = SumOver(h, Queues) + g[q]
  BY <1>2, <1>3, <1>5, SumChanges
<1>7. PoolSize = free + SumOver(h, Queues)
  BY DEF MbufsConserved, SumOver, h
<1>8. free' \in Nat /\ free \in Nat /\ free' + g[q] = free + h[q]
  BY <1>1, <1>2, <1>3 DEF Effect, DeviceInv, BatchTypes
<1> DEFINE x == free
           x1 == free'
           y == SumOver(h, Queues)
           y1 == SumOver(g, Queues)
           z == h[q]
           z1 == g[q]
<1>9. x \in Nat /\ x1 \in Nat /\ y \in Nat /\ y1 \in Nat /\ z \in Nat /\ z1 \in Nat
  BY <1>2, <1>3, <1>6, <1>8
<1>10. x1 + z1 = x + z /\ y1 + z = y + z1 /\ PoolSize = x + y
  BY <1>6, <1>7, <1>8
<1> HIDE DEF x, x1, y, y1, z, z1
<1>11. PoolSize = x1 + y1
  BY <1>9, <1>10
<1>12. PoolSize = free' + SumFun(g, Queues)[Queues]
  BY <1>11, SumUnfold DEF x1, y1
<1> QED BY <1>12 DEF MbufsConserved, MapThenSumSet, MapThenFoldSet, SumFun, SumBody, Pick, g

(* Every mbuf is in exactly one place, for any number of queues that share *)
(* the mempool: the pool, a ring or a batch.  No path through receive(),   *)
(* transmit(), the injection or a panic leaks an mbuf or frees one twice.  *)
THEOREM MbufsAreConserved == Spec => []MbufsConserved
<1>1. Init => MbufsConserved
  <2> SUFFICES ASSUME Init PROVE MbufsConserved
    OBVIOUS
  <2>1. Len(<<>>) = 0
    BY EmptySeq
  <2>2. \A q \in Queues : MbufsHeld[q] = 0
    BY <2>1 DEF Init, MbufsHeld
  <2>3. DeviceInv
    BY InitDevice
  <2>4. MbufsHeld \in [Queues -> Nat] /\ IsFiniteSet(Queues)
    BY <2>3, HeldFunction, DeviceAssumption
  <2>5. SumOver(MbufsHeld, Queues) = 0
    BY <2>2, <2>4, SumZero
  <2>6. free = PoolSize /\ PoolSize \in Nat
    BY Constants DEF Init
  <2>7. PoolSize = free + SumOver(MbufsHeld, Queues)
    BY <2>5, <2>6
  <2> QED BY <2>7 DEF MbufsConserved, SumOver
<1>2. DeviceInv /\ DeviceInv' /\ MbufsConserved /\ [Next]_vars => MbufsConserved'
  <2>1. MbufsConserved /\ UNCHANGED vars => MbufsConserved'
    <3> SUFFICES ASSUME MbufsConserved, UNCHANGED vars PROVE MbufsConserved'
      OBVIOUS
    <3>1. free' = free /\ MbufsHeld' = MbufsHeld
      BY DEF vars, batch_vars, MbufsHeld
    <3>2. PoolSize = free + SumFun(MbufsHeld, Queues)[Queues]
      BY DEF MbufsConserved, MapThenSumSet, MapThenFoldSet, SumFun, SumBody, Pick
    <3>3. PoolSize = free' + SumFun(MbufsHeld', Queues)[Queues]
      BY <3>1, <3>2
    <3> QED BY <3>3 DEF MbufsConserved, MapThenSumSet, MapThenFoldSet, SumFun, SumBody, Pick
  <2> QED BY <2>1, StepKeepsMbufs
<1> QED BY <1>1, <1>2, DeviceTypes, PTL DEF Spec

-----------------------------------------------------------------------------
(* Received frames are delivered exactly once *)

\* A frame at the end of a sequence.
LEMMA AppendFrame ==
  ASSUME NEW s \in Seq(Frame), NEW f \in Frame, Once(s)
  PROVE  /\ \A n \in Nat : Has(Append(s, f), n) <=> Has(s, n) \/ f = Data(n)
         /\ (IsArp(f) \/ \A i \in 1..Len(s) : s[i] # f) => Once(Append(s, f))
<1> DEFINE t == Append(s, f)
           k == Len(s)
<1>1. k \in Nat /\ Len(t) = k + 1 /\ (\A i \in 1..k : t[i] = s[i]) /\ t[k + 1] = f
  BY AppendProperties, LenProperties
<1>2. \A i, j \in 1..k : (s[i] = s[j] /\ ~IsArp(s[i])) => i = j
  BY DEF Once
<1>3. ASSUME NEW n \in Nat PROVE Has(t, n) <=> (\E i \in 1..k : s[i] = Data(n)) \/ f = Data(n)
  <2> HIDE DEF t, k
  <2>1. \A i \in 1..(k + 1) : i \in 1..k \/ i = k + 1
    BY <1>1
  <2>2. k + 1 \in 1..(k + 1) /\ \A i \in 1..k : i \in 1..(k + 1)
    BY <1>1
  <2> QED BY <1>1, <2>1, <2>2 DEF Has
<1>4. ASSUME IsArp(f) \/ \A i \in 1..k : s[i] # f PROVE Once(t)
  <2> HIDE DEF t, k
  <2> SUFFICES ASSUME NEW i \in 1..(k + 1), NEW j \in 1..(k + 1), t[i] = t[j], ~IsArp(t[i])
               PROVE  i = j
    BY <1>1 DEF Once
  <2>1. (i \in 1..k \/ i = k + 1) /\ (j \in 1..k \/ j = k + 1)
    BY <1>1
  <2>2. CASE i \in 1..k /\ j \in 1..k
    BY <1>1, <1>2, <2>2
  <2>3. CASE i = k + 1 /\ j \in 1..k
    BY <1>1, <1>4, <2>3
  <2>4. CASE i \in 1..k /\ j = k + 1
    BY <1>1, <1>4, <2>4
  <2> QED BY <2>1, <2>2, <2>3, <2>4
<1> QED BY <1>3, <1>4 DEF Has

\* A sequence cut in two.
LEMMA SplitFrames ==
  ASSUME NEW s \in Seq(Frame), Once(s), NEW k \in 0..Len(s)
  PROVE  LET p == SubSeq(s, 1, k)
             u == SubSeq(s, k + 1, Len(s))
         IN  /\ Once(p) /\ Once(u)
             /\ \A n \in Nat : Has(s, n) <=> Has(p, n) \/ Has(u, n)
             /\ \A n \in Nat : ~(Has(p, n) /\ Has(u, n))
<1> DEFINE p == SubSeq(s, 1, k)
           u == SubSeq(s, k + 1, Len(s))
           l == Len(s)
<1>1. l \in Nat /\ k \in 0..l
  BY LenProperties
<1>2. Len(p) = k /\ \A i \in 1..k : p[i] = s[i]
  BY PrefixOf
<1>3. Len(u) = l - k /\ \A i \in 1..(l - k) : u[i] = s[k + i]
  BY RestOf
<1>4. \A i, j \in 1..l : (s[i] = s[j] /\ ~IsArp(s[i])) => i = j
  BY DEF Once
<1>5. \A n \in Nat : ~IsArp(Data(n))
  BY FrameFacts
<1>6. \A n \in Nat : Has(s, n) <=> \E i \in 1..l : s[i] = Data(n)
  BY DEF Has
<1> HIDE DEF p, u, l
<1>7. (\A i \in 1..k : i \in 1..l) /\ (\A i \in 1..(l - k) : k + i \in 1..l)
      /\ \A i \in 1..l : i \in 1..k \/ (i - k \in 1..(l - k) /\ k + (i - k) = i)
  BY <1>1
<1>8. Once(p)
  BY <1>2, <1>4, <1>7 DEF Once
<1>9. Once(u)
  <2> SUFFICES ASSUME NEW i \in 1..(l - k), NEW j \in 1..(l - k), u[i] = u[j], ~IsArp(u[i])
               PROVE  i = j
    BY <1>3 DEF Once
  <2>1. k + i = k + j
    BY <1>3, <1>4, <1>7
  <2> QED BY <1>1, <2>1
<1>10. ASSUME NEW n \in Nat PROVE Has(s, n) <=> Has(p, n) \/ Has(u, n)
  <2>1. ASSUME NEW i \in 1..l, s[i] = Data(n) PROVE Has(p, n) \/ Has(u, n)
    <3>1. CASE i \in 1..k
      BY <1>2, <2>1, <3>1 DEF Has
    <3>2. CASE i - k \in 1..(l - k) /\ k + (i - k) = i
      <4>1. u[i - k] = Data(n)
        BY <1>3, <2>1, <3>2
      <4> QED BY <1>3, <3>2, <4>1 DEF Has
    <3> QED BY <1>7, <3>1, <3>2
  <2>2. ASSUME Has(p, n) PROVE \E i \in 1..l : s[i] = Data(n)
    BY <1>2, <1>7, <2>2 DEF Has
  <2>3. ASSUME Has(u, n) PROVE \E i \in 1..l : s[i] = Data(n)
    BY <1>3, <1>7, <2>3 DEF Has
  <2> QED BY <1>6, <2>1, <2>2, <2>3
<1>11. ASSUME NEW n \in Nat, Has(p, n), Has(u, n) PROVE FALSE
  <2>1. PICK i \in 1..k : s[i] = Data(n)
    BY <1>2, <1>11 DEF Has
  <2>2. PICK j \in 1..(l - k) : s[k + j] = Data(n)
    BY <1>3, <1>11 DEF Has
  <2>3. i = k + j
    BY <1>4, <1>5, <1>7, <2>1, <2>2
  <2> QED BY <1>1, <2>3
<1> QED BY <1>8, <1>9, <1>10, <1>11 DEF p, u

\* A sequence without its last frame.
LEMMA FrontFrames ==
  ASSUME NEW s \in Seq(Frame), Once(s), s # <<>>
  PROVE  /\ Once(Front(s))
         /\ \A n \in Nat : Has(s, n) <=> Has(Front(s), n) \/ Last(s) = Data(n)
         /\ \A n \in Nat : ~(Has(Front(s), n) /\ Last(s) = Data(n))
<1> DEFINE t == Front(s)
           l == Len(s)
           f == Last(s)
<1>1. l \in Nat \ {0} /\ Len(t) = l - 1 /\ (\A i \in 1..(l - 1) : t[i] = s[i]) /\ f = s[l]
  BY FrontOf
<1>2. \A i, j \in 1..l : (s[i] = s[j] /\ ~IsArp(s[i])) => i = j
  BY DEF Once
<1>3. \A n \in Nat : ~IsArp(Data(n))
  BY FrameFacts
<1>4. \A n \in Nat : Has(s, n) <=> \E i \in 1..l : s[i] = Data(n)
  BY DEF Has
<1> HIDE DEF t, l, f
<1>5. /\ \A i \in 1..(l - 1) : i \in 1..l /\ i # l
      /\ \A i \in 1..l : i \in 1..(l - 1) \/ i = l
      /\ l \in 1..l
  BY <1>1
<1>6. Once(t)
  BY <1>1, <1>2, <1>5 DEF Once
<1>7. \A n \in Nat : Has(s, n) <=> Has(t, n) \/ f = Data(n)
  BY <1>1, <1>4, <1>5 DEF Has
<1>8. \A n \in Nat : ~(Has(t, n) /\ f = Data(n))
  BY <1>1, <1>2, <1>3, <1>5 DEF Has
<1> QED BY <1>6, <1>7, <1>8 DEF t, f

\* A number at the end of a list that does not hold it.
LEMMA AppendListed ==
  ASSUME NEW d \in Seq(Nat), NEW m \in Nat, NoRepeat(d)
  PROVE  /\ \A n \in Nat : Listed(Append(d, m), n) <=> Listed(d, n) \/ n = m
         /\ ~Listed(d, m) => NoRepeat(Append(d, m))
<1> DEFINE t == Append(d, m)
           k == Len(d)
<1>1. k \in Nat /\ Len(t) = k + 1 /\ (\A i \in 1..k : t[i] = d[i]) /\ t[k + 1] = m
  BY AppendProperties, LenProperties
<1>2. \A i, j \in 1..k : d[i] = d[j] => i = j
  BY DEF NoRepeat
<1>3. ASSUME NEW n \in Nat PROVE Listed(t, n) <=> (\E i \in 1..k : d[i] = n) \/ n = m
  <2> HIDE DEF t, k
  <2>1. \A i \in 1..(k + 1) : i \in 1..k \/ i = k + 1
    BY <1>1
  <2>2. k + 1 \in 1..(k + 1) /\ \A i \in 1..k : i \in 1..(k + 1)
    BY <1>1
  <2> QED BY <1>1, <2>1, <2>2 DEF Listed
<1>4. ASSUME \A i \in 1..k : d[i] # m PROVE NoRepeat(t)
  <2> HIDE DEF t, k
  <2> SUFFICES ASSUME NEW i \in 1..(k + 1), NEW j \in 1..(k + 1), t[i] = t[j]
               PROVE  i = j
    BY <1>1 DEF NoRepeat
  <2>1. (i \in 1..k \/ i = k + 1) /\ (j \in 1..k \/ j = k + 1)
    BY <1>1
  <2>2. CASE i \in 1..k /\ j \in 1..k
    BY <1>1, <1>2, <2>2
  <2>3. CASE i = k + 1 /\ j \in 1..k
    BY <1>1, <1>4, <2>3
  <2>4. CASE i \in 1..k /\ j = k + 1
    BY <1>1, <1>4, <2>4
  <2> QED BY <2>1, <2>2, <2>3, <2>4
<1> QED BY <1>3, <1>4 DEF Listed

\* The number after the last one that arrived is new.
LEMMA NextIsNew ==
  ASSUME NEW r, NEW b, NEW d, NEW a \in Nat, Exact(r, b, d, a)
  PROVE  /\ ~Has(r, a + 1) /\ ~Has(b, a + 1) /\ ~Listed(d, a + 1)
         /\ (\A i \in 1..Len(r) : r[i] # Data(a + 1))
         /\ (\A i \in 1..Len(b) : b[i] # Data(a + 1))
         /\ \A n \in Nat : n \in 1..(a + 1) <=> n \in 1..a \/ n = a + 1
<1>1. a + 1 \in Nat /\ a + 1 \notin 1..a
  OBVIOUS
<1>2. ~Has(r, a + 1) /\ ~Has(b, a + 1) /\ ~Listed(d, a + 1)
  BY <1>1 DEF Exact
<1>3. \A n \in Nat : n \in 1..(a + 1) <=> n \in 1..a \/ n = a + 1
  OBVIOUS
<1> QED BY <1>2, <1>3 DEF Has

\* Data frames with different numbers differ.
LEMMA DataInjective == \A m, n \in Nat : Data(m) = Data(n) <=> m = n
BY DEF Data

\* A frame appears on the ring.
LEMMA ExactOnRing ==
  ASSUME NEW r \in Seq(Frame), NEW b, NEW d, NEW a \in Nat, Exact(r, b, d, a), NEW f \in Frame,
         NEW a1, \/ IsArp(f) /\ a1 = a
                 \/ f = Data(a + 1) /\ a1 = a + 1
  PROVE  Exact(Append(r, f), b, d, a1) 
<1> DEFINE s == Append(r, f)
<1>1. Once(r) /\ Once(b) /\ NoRepeat(d)
  BY DEF Exact
<1>2. \A n \in Nat : Has(s, n) <=> Has(r, n) \/ f = Data(n)
  BY <1>1, AppendFrame
<1>3. (IsArp(f) \/ \A i \in 1..Len(r) : r[i] # f) => Once(s)
  BY <1>1, AppendFrame
<1> HIDE DEF s
<1>4. CASE IsArp(f) /\ a1 = a
  <2>1. \A n \in Nat : f # Data(n)
    BY <1>4, FrameFacts
  <2>2. Once(s) /\ \A n \in Nat : Has(s, n) <=> Has(r, n)
    BY <1>2, <1>3, <1>4, <2>1
  <2> QED BY <1>1, <1>4, <2>2 DEF Exact, s
<1>5. CASE f = Data(a + 1) /\ a1 = a + 1
  <2>1. a + 1 \in Nat
    OBVIOUS
  <2>2. \A n \in Nat : Has(s, n) <=> Has(r, n) \/ n = a + 1
    BY <1>2, <1>5, <2>1, DataInjective
  <2>3. Once(s)
    BY <1>3, <1>5, NextIsNew
  <2>4. \A n \in Nat : n \in 1..(a + 1) <=> Has(s, n) \/ Has(b, n) \/ Listed(d, n)
    BY <2>2, NextIsNew DEF Exact
  <2>5. \A n \in Nat : /\ ~(Has(s, n) /\ Has(b, n)) /\ ~(Has(s, n) /\ Listed(d, n))
                       /\ ~(Has(b, n) /\ Listed(d, n))
    BY <2>2, NextIsNew DEF Exact
  <2> QED BY <1>1, <1>5, <2>3, <2>4, <2>5 DEF Exact, s
<1> QED BY <1>4, <1>5

\* The ring and the batch are alike in Exact.
LEMMA ExactSymmetric == \A r, b, d, a : Exact(r, b, d, a) <=> Exact(b, r, d, a)
BY DEF Exact

\* The batch is refilled with the front of the ring.
LEMMA ExactRefill ==
  ASSUME NEW r \in Seq(Frame), NEW d, NEW a \in Nat, Exact(r, <<>>, d, a), NEW k \in 0..Len(r)
  PROVE  Exact(SubSeq(r, k + 1, Len(r)), SubSeq(r, 1, k), d, a)
<1> DEFINE p == SubSeq(r, 1, k)
           u == SubSeq(r, k + 1, Len(r))
<1>1. Once(r) /\ NoRepeat(d)
  BY DEF Exact
<1>2. /\ Once(p) /\ Once(u)
      /\ \A n \in Nat : Has(r, n) <=> Has(p, n) \/ Has(u, n)
      /\ \A n \in Nat : ~(Has(p, n) /\ Has(u, n))
  BY <1>1, SplitFrames
<1>3. \A n \in Nat : ~Has(<<>>, n)
  <2>1. Len(<<>>) = 0
    BY EmptySeq
  <2> QED BY <2>1 DEF Has
<1> HIDE DEF p, u
<1>4. Exact(u, p, d, a)
  BY <1>1, <1>2, <1>3 DEF Exact
<1> QED BY <1>4 DEF p, u

\* The last frame of the batch is popped and, if it is data, delivered.
LEMMA ExactPop ==
  ASSUME NEW r, NEW b \in Seq(Frame), NEW d \in Seq(Nat), NEW a \in Nat, Exact(r, b, d, a),
         b # <<>>, NEW d1,
         \/ IsArp(Last(b)) /\ d1 = d
         \/ ~IsArp(Last(b)) /\ d1 = Append(d, Last(b).id)
  PROVE  Exact(r, Front(b), d1, a)
<1> DEFINE f == Last(b)
           t == Front(b)
<1>1. Once(r) /\ Once(b) /\ NoRepeat(d)
  BY DEF Exact
<1>2. /\ Once(t) /\ f \in Frame
      /\ \A n \in Nat : Has(b, n) <=> Has(t, n) \/ f = Data(n)
      /\ \A n \in Nat : ~(Has(t, n) /\ f = Data(n))
  BY <1>1, FrontFrames, FrontOf
<1>3. \/ IsArp(f) /\ d1 = d
      \/ ~IsArp(f) /\ d1 = Append(d, f.id)
  OBVIOUS
<1> HIDE DEF f, t
<1>4. CASE IsArp(f) /\ d1 = d
  <2>1. \A n \in Nat : f # Data(n)
    BY <1>4, FrameFacts
  <2>2. Exact(r, t, d, a)
    BY <1>1, <1>2, <2>1 DEF Exact
  <2> QED BY <1>4, <2>2 DEF t
<1>5. CASE ~IsArp(f) /\ d1 = Append(d, f.id)
  <2> DEFINE m == f.id
  <2>1. m \in Nat /\ f = Data(m)
    BY <1>2, <1>5, FrameFacts
  <2> HIDE DEF m
  <2>2. \A n \in Nat : f = Data(n) <=> n = m
    BY <2>1, DataInjective
  <2>3. Has(b, m) /\ ~Has(t, m)
    BY <1>2, <2>1
  <2>4. ~Listed(d, m) /\ ~Has(r, m)
    BY <2>1, <2>3 DEF Exact
  <2>5. NoRepeat(d1) /\ \A n \in Nat : Listed(d1, n) <=> Listed(d, n) \/ n = m
    BY <1>1, <1>5, <2>1, <2>4, AppendListed DEF m
  <2>6. \A n \in Nat : n \in 1..a <=> Has(r, n) \/ Has(t, n) \/ Listed(d1, n)
    BY <1>2, <2>2, <2>5 DEF Exact
  <2>7. \A n \in Nat : /\ ~(Has(r, n) /\ Has(t, n)) /\ ~(Has(r, n) /\ Listed(d1, n))
                       /\ ~(Has(t, n) /\ Listed(d1, n))
    BY <1>2, <2>2, <2>3, <2>4, <2>5 DEF Exact
  <2>8. Exact(r, t, d1, a)
    BY <1>1, <1>2, <2>5, <2>6, <2>7 DEF Exact
  <2> QED BY <2>8 DEF t
<1> QED BY <1>3, <1>4, <1>5

\* Every step keeps the bookkeeping of received frames exact.
LEMMA StepKeepsReceived == ASSUME DeviceInv, Received, Next PROVE Received'
<1>1. PICK q \in Queues : Effect(q)
  BY StepEffect
<1> DEFINE r == rx_ring[q]
           b == rx_batch[q]
           d == delivered[q]
           a == arrived[q]
           r1 == rx_ring'[q]
           b1 == rx_batch'[q]
           d1 == delivered'[q]
           a1 == arrived'[q]
<1>2. /\ r \in Seq(Frame) /\ b \in Seq(Frame) /\ d \in Seq(Nat) /\ a \in Nat
      /\ Exact(r, b, d, a)
  BY Lengths DEF Received
<1>3. Exact(r1, b1, d1, a1)
  <2>1. CASE RxQuiet(q)
    <3>1. r1 = r /\ b1 = b /\ d1 = d /\ a1 = a
      BY <2>1 DEF RxQuiet
    <3> HIDE DEF r, b, d, a, r1, b1, d1, a1
    <3> QED BY <1>2, <3>1
  <2>2. CASE OnRing(q)
    <3>1. PICK f \in Frame :
            /\ \/ IsArp(f) /\ a1 = a
               \/ f = Data(a + 1) /\ a1 = a + 1
            /\ r1 = Append(r, f) /\ b1 = b /\ d1 = d
      BY <2>2 DEF OnRing, Appears
    <3> HIDE DEF r, b, d, a, r1, b1, d1, a1
    <3> QED BY <1>2, <3>1, ExactOnRing
  <2>3. CASE InBatch(q)
    <3>1. PICK f \in Frame :
            /\ \/ IsArp(f) /\ a1 = a
               \/ f = Data(a + 1) /\ a1 = a + 1
            /\ b1 = Append(b, f) /\ r1 = r /\ d1 = d
      BY <2>3 DEF InBatch, Appears
    <3> HIDE DEF r, b, d, a, r1, b1, d1, a1
    <3>2. Exact(b, r, d, a)
      BY <1>2, ExactSymmetric
    <3>3. Exact(b1, r, d, a1)
      BY <1>2, <3>1, <3>2, ExactOnRing
    <3> QED BY <3>1, <3>3, ExactSymmetric
  <2>4. CASE Refill(q)
    <3>1. PICK n \in 0..Len(r) : b1 = SubSeq(r, 1, n) /\ r1 = SubSeq(r, n + 1, Len(r))
      BY <2>4 DEF Refill
    <3>2. b = <<>> /\ d1 = d /\ a1 = a
      BY <2>4 DEF Refill
    <3> HIDE DEF r, b, d, a, r1, b1, d1, a1
    <3>3. Exact(r, <<>>, d, a)
      BY <1>2, <3>2
    <3>4. Exact(SubSeq(r, n + 1, Len(r)), SubSeq(r, 1, n), d, a)
      BY <1>2, <3>3, ExactRefill
    <3> QED BY <3>1, <3>2, <3>4
  <2>5. CASE Popped(q)
    <3>1. /\ b # <<>> /\ b1 = Front(b) /\ r1 = r /\ a1 = a
          /\ \/ IsArp(Last(b)) /\ d1 = d
             \/ ~IsArp(Last(b)) /\ d1 = Append(d, Last(b).id)
      BY <2>5 DEF Popped
    <3> HIDE DEF r, b, d, a, r1, b1, d1, a1
    <3>2. Exact(r, Front(b), d1, a)
      BY <1>2, <3>1, ExactPop
    <3> QED BY <3>1, <3>2
  <2> QED BY <1>1, <2>1, <2>2, <2>3, <2>4, <2>5 DEF Effect, RxEffect
<1> QED BY <1>1, <1>3 DEF Effect, OnlyQueue, Received

\* The numbers of the data frames in a sequence, in the two ways in which
\* they are written.
LEMMA IdsOf ==
  ASSUME NEW s \in Seq(Frame)
  PROVE  \A n : n \in Ids(s) <=> n \in Nat /\ Has(s, n)
<1>1. DOMAIN s = 1..Len(s) /\ \A i \in 1..Len(s) : s[i] \in Frame
  BY LenProperties, ElementOfSeq
<1>2. ASSUME NEW n, n \in Ids(s) PROVE n \in Nat /\ Has(s, n)
  <2>1. PICK i \in 1..Len(s) : ~IsArp(s[i]) /\ n = s[i].id
    BY <1>1, <1>2 DEF Ids, Range
  <2>2. n \in Nat /\ s[i] = Data(n)
    BY <1>1, <2>1, FrameFacts
  <2> QED BY <2>2 DEF Has
<1>3. ASSUME NEW n \in Nat, Has(s, n) PROVE n \in Ids(s)
  <2>1. PICK i \in 1..Len(s) : s[i] = Data(n)
    BY <1>3 DEF Has
  <2>2. ~IsArp(s[i]) /\ s[i].id = n /\ s[i] \in Range(s)
    BY <1>1, <2>1, FrameFacts DEF Range
  <2> QED BY <2>2 DEF Ids
<1> QED BY <1>2, <1>3

\* A list without repetitions is as long as the set of what it lists.
LEMMA ListedOf ==
  ASSUME NEW d \in Seq(Nat), NoRepeat(d)
  PROVE  /\ \A n : n \in Range(d) <=> n \in Nat /\ Listed(d, n)
         /\ IsFiniteSet(Range(d)) /\ Cardinality(Range(d)) = Len(d)
<1> DEFINE R == Range(d)
           k == Len(d)
<1>1. k \in Nat /\ DOMAIN d = 1..k /\ d \in [1..k -> Nat]
  BY LenProperties
<1>2. \A n : n \in R <=> n \in Nat /\ Listed(d, n)
  BY <1>1 DEF Range, Listed
<1>3. d \in [1..k -> R] /\ \A y \in R : \E x \in 1..k : d[x] = y
  BY <1>1 DEF Range
<1>4. \A x, y \in 1..k : d[x] = d[y] => x = y
  BY DEF NoRepeat
<1> HIDE DEF R, k
<1>5. d \in Bijection(1..k, R)
  BY <1>3, <1>4 DEF Bijection, Injection, Surjection, IsInjective
<1>6. ExistsBijection(1..k, R)
  BY <1>5 DEF ExistsBijection
<1>7. IsFiniteSet(R) /\ Cardinality(R) = k
  BY <1>1, <1>6, FS_NatBijection, FS_CountingElements
<1> QED BY <1>2, <1>7 DEF R, k

\* What Exact says, as sets and their sizes.
LEMMA ExactSets ==
  ASSUME NEW r \in Seq(Frame), NEW b \in Seq(Frame), NEW d \in Seq(Nat), NEW a \in Nat,
         Exact(r, b, d, a)
  PROVE  /\ (Ids(r) \cup Ids(b)) \cup Range(d) = 1..a
         /\ (Ids(r) \cup Ids(b)) \cap Range(d) = {}
         /\ Len(d) + Cardinality(Ids(r) \cup Ids(b)) = a
<1> DEFINE F == Ids(r) \cup Ids(b)
           R == Range(d)
           k == Len(d)
<1>1. \A n : n \in F <=> n \in Nat /\ (Has(r, n) \/ Has(b, n))
  BY IdsOf
<1>2. /\ \A n : n \in R <=> n \in Nat /\ Listed(d, n)
      /\ IsFiniteSet(R) /\ Cardinality(R) = k
  BY ListedOf DEF Exact
<1>3. k \in Nat
  BY LenProperties
<1> HIDE DEF F, R, k
<1>4. \A n \in 1..a : n \in Nat
  OBVIOUS
<1>5. F \cup R = 1..a
  BY <1>1, <1>2, <1>4 DEF Exact
<1>6. F \cap R = {}
  BY <1>1, <1>2 DEF Exact
<1>7. IsFiniteSet(1..a) /\ Cardinality(1..a) = a
  BY FS_Interval
<1>8. IsFiniteSet(F) /\ F \in SUBSET (1..a)
  BY <1>5, <1>7, FS_Subset
<1>9. Cardinality(F) \in Nat
  BY <1>8, FS_CardinalityType
<1>10. Cardinality(F \cup R) = Cardinality(F) + Cardinality(R) - Cardinality(F \cap R)
  BY <1>2, <1>8, FS_Union
<1>11. Cardinality(F \cap R) = 0
  BY <1>6, FS_EmptySet
<1>12. k + Cardinality(F) = a
  <2> DEFINE c == Cardinality(F)
  <2>1. c \in Nat /\ a = c + k - 0
    BY <1>2, <1>5, <1>7, <1>9, <1>10, <1>11
  <2> HIDE DEF c
  <2>2. k + c = a
    BY <1>3, <2>1
  <2> QED BY <2>2 DEF c
<1> QED BY <1>5, <1>6, <1>12 DEF F, R, k

(* No data frame is lost or given to smoltcp twice: those that arrived are *)
(* the ones on the ring, in rx_batch and delivered, each in one place and  *)
(* once, whatever the bursts and although rx_batch is popped from its end. *)
THEOREM FramesReceivedExactlyOnce == Spec => []ReceivedExactlyOnce
<1>1. Init => Received
  <2> SUFFICES ASSUME Init, NEW q \in Queues
               PROVE  Exact(rx_ring[q], rx_batch[q], delivered[q], arrived[q])
    BY DEF Received
  <2>1. rx_ring[q] = <<>> /\ rx_batch[q] = <<>> /\ delivered[q] = <<>> /\ arrived[q] = 0
    BY DEF Init
  <2>2. Len(<<>>) = 0 /\ (\A i \in 1..0 : FALSE)
    BY EmptySeq
  <2>3. Once(<<>>) /\ NoRepeat(<<>>) /\ \A n : ~Has(<<>>, n) /\ ~Listed(<<>>, n)
    BY <2>2 DEF Once, NoRepeat, Has, Listed
  <2>4. Exact(<<>>, <<>>, <<>>, 0)
    BY <2>2, <2>3 DEF Exact
  <2> QED BY <2>1, <2>4
<1>2. DeviceInv /\ Received /\ [Next]_vars => Received'
  <2> SUFFICES ASSUME DeviceInv, Received, [Next]_vars PROVE Received'
    OBVIOUS
  <2>1. CASE Next
    BY <2>1, StepKeepsReceived
  <2>2. CASE UNCHANGED vars
    BY <2>2 DEF vars, batch_vars, ghost_vars, Received
  <2> QED BY <2>1, <2>2
<1>3. DeviceInv /\ Received => ReceivedExactlyOnce
  <2> SUFFICES ASSUME DeviceInv, Received, NEW q \in Queues
               PROVE  /\ InFlight(q) \cup Range(delivered[q]) = 1..arrived[q]
                      /\ InFlight(q) \cap Range(delivered[q]) = {}
                      /\ Len(delivered[q]) + Cardinality(InFlight(q)) = arrived[q]
    BY DEF ReceivedExactlyOnce
  <2> DEFINE r == rx_ring[q]
             b == rx_batch[q]
             d == delivered[q]
             a == arrived[q]
  <2>1. /\ r \in Seq(Frame) /\ b \in Seq(Frame) /\ d \in Seq(Nat) /\ a \in Nat
        /\ Exact(r, b, d, a)
    BY Lengths DEF Received
  <2>2. InFlight(q) = Ids(r) \cup Ids(b)
    BY DEF InFlight
  <2> HIDE DEF r, b, d, a
  <2>3. /\ (Ids(r) \cup Ids(b)) \cup Range(d) = 1..a
        /\ (Ids(r) \cup Ids(b)) \cap Range(d) = {}
        /\ Len(d) + Cardinality(Ids(r) \cup Ids(b)) = a
    BY <2>1, ExactSets
  <2> QED BY <2>2, <2>3 DEF d, a
<1> QED BY <1>1, <1>2, <1>3, DeviceTypes, PTL DEF Spec

-----------------------------------------------------------------------------
(* The devices implement SharedArpCache *)

\* The ARP replies of a sequence are finitely many, and where they are.
LEMMA ArpFinite ==
  ASSUME NEW s \in Seq(Frame)
  PROVE  /\ \A i : i \in ArpPositions(s) <=> i \in 1..Len(s) /\ IsArp(s[i])
         /\ IsFiniteSet(ArpPositions(s)) /\ Cardinality(ArpPositions(s)) \in Nat
<1> DEFINE P == ArpPositions(s)
           k == Len(s)
<1>1. k \in Nat /\ DOMAIN s = 1..k
  BY LenProperties
<1>2. \A i : i \in P <=> i \in 1..k /\ IsArp(s[i])
  BY <1>1 DEF ArpPositions
<1> HIDE DEF P, k
<1>3. IsFiniteSet(1..k)
  BY <1>1, FS_Interval
<1>4. P \in SUBSET (1..k)
  BY <1>2
<1>5. IsFiniteSet(P)
  BY <1>3, <1>4, FS_Subset
<1>6. Cardinality(P) \in Nat
  BY <1>5, FS_CardinalityType
<1> QED BY <1>2, <1>5, <1>6 DEF P, k

\* A frame at the end: one reply more if it is one.
LEMMA ArpAppend ==
  ASSUME NEW s \in Seq(Frame), NEW f \in Frame
  PROVE  Cardinality(ArpPositions(Append(s, f)))
           = IF IsArp(f) THEN Cardinality(ArpPositions(s)) + 1 ELSE Cardinality(ArpPositions(s))
<1> DEFINE t == Append(s, f)
           k == Len(s)
           P == ArpPositions(s)
           Q == ArpPositions(t)
<1>1. /\ k \in Nat /\ t \in Seq(Frame) /\ Len(t) = k + 1 
      /\ (\A i \in 1..k : t[i] = s[i]) /\ t[k + 1] = f
  BY AppendProperties, LenProperties
<1>2. (\A i : i \in P <=> i \in 1..k /\ IsArp(s[i])) /\ IsFiniteSet(P)
  BY ArpFinite
<1> HIDE DEF t, k
<1>3. \A i : i \in Q <=> i \in 1..(k + 1) /\ IsArp(t[i])
  BY <1>1, ArpFinite
<1> HIDE DEF P, Q
<1>4. k + 1 \notin P /\ k + 1 \in 1..(k + 1) /\ \A i : i \in 1..(k + 1) <=> i \in 1..k \/ i = k + 1
  BY <1>1, <1>2
<1>5. CASE IsArp(f)
  <2>1. Q = P \cup {k + 1}
    BY <1>1, <1>2, <1>3, <1>4, <1>5
  <2>2. Cardinality(Q) = Cardinality(P) + 1
    BY <1>2, <1>4, <2>1, FS_AddElement
  <2> QED BY <1>5, <2>2 DEF P, Q, t
<1>6. CASE ~IsArp(f)
  <2>1. Q = P
    BY <1>1, <1>2, <1>3, <1>4, <1>6
  <2> QED BY <1>6, <2>1 DEF P, Q, t
<1> QED BY <1>5, <1>6

\* A sequence cut in two: every reply is in one of the pieces.
LEMMA ArpSplit ==
  ASSUME NEW s \in Seq(Frame), NEW k \in 0..Len(s)
  PROVE  Cardinality(ArpPositions(SubSeq(s, 1, k)))
           + Cardinality(ArpPositions(SubSeq(s, k + 1, Len(s)))) = Cardinality(ArpPositions(s))
<1> DEFINE p == SubSeq(s, 1, k)
           u == SubSeq(s, k + 1, Len(s))
           l == Len(s)
           A == ArpPositions(s)
           P == ArpPositions(p)
           U == ArpPositions(u)
           H == A \ P
           g == [i \in U |-> k + i]
<1>1. l \in Nat /\ k \in 0..l
  BY LenProperties
<1>2. p \in Seq(Frame) /\ Len(p) = k /\ \A i \in 1..k : p[i] = s[i]
  BY PrefixOf
<1>3. u \in Seq(Frame) /\ Len(u) = l - k /\ \A i \in 1..(l - k) : u[i] = s[k + i]
  BY RestOf
<1>4. (\A i : i \in A <=> i \in 1..l /\ IsArp(s[i])) /\ IsFiniteSet(A)
  BY ArpFinite
<1> HIDE DEF p, u, l, A
<1>5. /\ \A i : i \in P <=> i \in 1..k /\ IsArp(p[i])
      /\ IsFiniteSet(P) /\ Cardinality(P) \in Nat
  BY <1>2, ArpFinite
<1>6. /\ \A i : i \in U <=> i \in 1..(l - k) /\ IsArp(u[i])
      /\ IsFiniteSet(U) /\ Cardinality(U) \in Nat
  BY <1>3, ArpFinite
<1> HIDE DEF P, U
<1>7. (\A i \in 1..k : i \in 1..l) /\ (\A i \in 1..(l - k) : k + i \in 1..l /\ k + i \notin 1..k)
      /\ \A i \in 1..l : i \notin 1..k => (i - k \in 1..(l - k) /\ k + (i - k) = i)
  BY <1>1
<1>8. P \subseteq A
  BY <1>2, <1>4, <1>5, <1>7
<1>9. \A i : i \in H <=> i \in 1..l /\ IsArp(s[i]) /\ i \notin 1..k
  BY <1>2, <1>4, <1>5
<1> HIDE DEF H
<1>10. \A i \in U : k + i \in H
  BY <1>3, <1>6, <1>7, <1>9
<1>11. \A i \in H : i - k \in U /\ k + (i - k) = i
  BY <1>3, <1>6, <1>7, <1>9
<1>12. \A i, j \in U : k + i = k + j => i = j
  BY <1>1, <1>6
<1>13. g \in Bijection(U, H)
  <2>1. g \in [U -> H] /\ \A i \in U : g[i] = k + i
    BY <1>10
  <2> HIDE DEF g
  <2>2. \A j \in H : \E i \in U : g[i] = j
    BY <1>11, <2>1
  <2>3. \A i, j \in U : g[i] = g[j] => i = j
    BY <1>12, <2>1
  <2> QED BY <2>1, <2>2, <2>3 DEF Bijection, Injection, Surjection, IsInjective
<1>14. IsFiniteSet(H) /\ Cardinality(H) = Cardinality(U)
  BY <1>6, <1>13, FS_Bijection DEF ExistsBijection
<1>15. P \cup H = A /\ P \cap H = {}
  BY <1>8 DEF H
<1>16. Cardinality(A) = Cardinality(P) + Cardinality(H) - Cardinality(P \cap H)
  BY <1>5, <1>14, <1>15, FS_Union
<1>17. Cardinality(P \cap H) = 0
  BY <1>15, FS_EmptySet
<1>18. Cardinality(P) + Cardinality(U) = Cardinality(A)
  <2> DEFINE c == Cardinality(P)
             e == Cardinality(U)
             o == Cardinality(A)
  <2>1. c \in Nat /\ e \in Nat /\ o = c + e - 0
    BY <1>5, <1>6, <1>14, <1>16, <1>17
  <2> HIDE DEF c, e, o
  <2>2. c + e = o
    BY <2>1
  <2> QED BY <2>2 DEF c, e, o
<1> QED BY <1>18 DEF P, U, A, p, u, l

\* What the scan has yet to insert is finite.
LEMMA RepliesTyped ==
  ASSUME DeviceInv
  PROVE  /\ rx_ring[0] \in Seq(Frame) /\ rx_batch[0] \in Seq(Frame)
         /\ IsFiniteSet(to_insert) /\ Cardinality(to_insert) \in Nat
         /\ Cardinality(ArpPositions(rx_ring[0])) \in Nat
         /\ version \in Nat /\ arps \in Nat
<1>1. /\ rx_ring[0] \in Seq(Frame) /\ rx_batch[0] \in Seq(Frame)
      /\ version \in Nat /\ arps \in Nat
  BY Constants DEF DeviceInv, BatchTypes, CacheTypes
<1>2. to_insert \in SUBSET ArpPositions(rx_batch[0])
  BY DEF DeviceInv, Threads
<1>3. IsFiniteSet(to_insert)
  BY <1>1, <1>2, ArpFinite, FS_Subset
<1> QED BY <1>1, <1>3, ArpFinite, FS_CardinalityType

\* The refill of queue 0 hands the replies of its burst to the scan.
LEMMA PollKeepsReplies ==
  ASSUME DeviceInv, Replies, PollRx(0)
  PROVE  Replies'
<1> DEFINE r == rx_ring[0]
           n == IF rx_batch[0] = <<>> THEN Min({RxCap, Len(r)}) ELSE 0
           p == SubSeq(r, 1, n)
           u == SubSeq(r, n + 1, Len(r))
           c == Cardinality(to_insert)
           e == Cardinality(ArpPositions(r))
           c1 == Cardinality(to_insert')
           e1 == Cardinality(ArpPositions(rx_ring'[0]))
           h == Cardinality(ArpPositions(p))
<1>1. /\ rx_ring'[0] = u /\ UNCHANGED <<version, arps>>
      /\ to_insert' = IF Shared THEN ArpPositions(p) ELSE to_insert
      /\ pc[0] = "idle"
  <2>1. rx_ring \in [Queues -> Seq(Frame)] /\ 0 \in Queues
    BY Constants DEF DeviceInv, BatchTypes
  <2> QED BY <2>1 DEF PollRx, cache_vars, bound_vars
<1>2. to_insert = {}
  BY <1>1 DEF DeviceInv, Threads
<1>3. r \in Seq(Frame) /\ c \in Nat /\ e \in Nat /\ version \in Nat /\ arps \in Nat
  BY RepliesTyped
<1>4. n \in 0..Len(r)
  <2> DEFINE l == Len(r)
  <2>1. l \in Nat /\ RxCap \in Nat
    BY <1>3, Constants, LenProperties
  <2>2. CASE rx_batch[0] # <<>>
    BY <2>1, <2>2
  <2>3. CASE rx_batch[0] = <<>>
    <3>1. n = Min({RxCap, l}) /\ l \in Int /\ RxCap \in Int
      BY <2>1, <2>3
    <3> HIDE DEF n, l
    <3>2. n \in {RxCap, l} /\ n <= l
      BY <3>1, MinOfTwo
    <3>3. n \in 0..l
      BY <2>1, <3>2
    <3> QED BY <3>3 DEF l
  <2> QED BY <2>2, <2>3
<1> HIDE DEF n, r
<1>5. h + e1 = e
  BY <1>1, <1>3, <1>4, ArpSplit
<1>6. h \in Nat /\ e1 \in Nat
  BY <1>1, <1>3, <1>4, PrefixOf, RestOf, ArpFinite
<1>7. c1 \in Nat /\ c1 <= h
  <2>1. CASE Shared
    BY <1>1, <1>6, <2>1
  <2>2. CASE ~Shared
    <3>1. c1 = 0
      BY <1>1, <1>2, <2>2, FS_EmptySet
    <3> HIDE DEF c1, h
    <3> QED BY <1>6, <3>1
  <2> QED BY <2>1, <2>2
<1>8. version + c + e <= arps /\ arps <= MaxVersion
  BY DEF Replies, r
<1> HIDE DEF c, e, c1, e1, h
<1>9. version + c1 + e1 <= arps /\ arps <= MaxVersion
  BY <1>3, <1>5, <1>6, <1>7, <1>8
<1> QED BY <1>1, <1>9 DEF Replies, c1, e1

\* Every step keeps the count of ARP replies: a version for each reply that
\* was inserted, and no more replies than arrived.
LEMMA StepKeepsReplies == ASSUME DeviceInv, Replies, Next PROVE Replies'
<1> DEFINE c == Cardinality(to_insert)
           e == Cardinality(ArpPositions(rx_ring[0]))
           v1 == version'
           a1 == arps'
           c1 == Cardinality(to_insert')
           e1 == Cardinality(ArpPositions(rx_ring'[0]))
<1>1. /\ rx_ring[0] \in Seq(Frame) /\ c \in Nat /\ e \in Nat /\ version \in Nat /\ arps \in Nat
      /\ MaxVersion \in Nat /\ IsFiniteSet(to_insert)
  BY RepliesTyped, Constants
<1>2. version + c + e <= arps /\ arps <= MaxVersion
  BY DEF Replies
<1>3. ASSUME v1 + c1 + e1 <= a1, a1 <= MaxVersion PROVE Replies'
  BY <1>3 DEF Replies
<1>4. rx_ring \in [Queues -> Seq(Frame)] /\ 0 \in Queues
  BY Constants DEF DeviceInv, BatchTypes
<1>5. CASE UNCHANGED <<version, to_insert, arps>> /\ rx_ring'[0] = rx_ring[0]
  BY <1>2, <1>3, <1>5
<1>6. ASSUME NEW ip \in Ips, NEW mac \in Macs, WireArp(ip, mac) PROVE Replies'
  <2>1. /\ rx_ring'[0] = Append(rx_ring[0], Arp(ip, mac)) /\ a1 = arps + 1 /\ arps < MaxVersion
        /\ v1 = version /\ c1 = c
    BY <1>4, <1>6 DEF WireArp, cache_vars
  <2>2. e1 = e + 1
    BY <1>1, <2>1, ArpAppend, FrameFacts
  <2> HIDE DEF c, e, v1, a1, c1, e1
  <2>3. v1 + c1 + e1 <= a1 /\ a1 <= MaxVersion
    BY <1>1, <1>2, <2>1, <2>2
  <2> QED BY <1>3, <2>3
<1>7. ASSUME NEW q \in Queues, WireData(q) PROVE Replies'
  <2>1. UNCHANGED <<version, to_insert, arps>>
    BY <1>7 DEF WireData, cache_vars, bound_vars
  <2>2. CASE q # 0
    BY <1>4, <1>5, <1>7, <2>1, <2>2 DEF WireData
  <2>3. CASE q = 0
    <3>1. rx_ring'[0] = Append(rx_ring[0], Data(arrived'[0])) /\ arrived'[0] \in Nat
      <4>1. arrived \in [Queues -> Nat]
        BY DEF DeviceInv, BatchTypes
      <4> QED BY <1>4, <1>7, <2>3, <4>1 DEF WireData
    <3>2. e1 = e
      BY <1>1, <3>1, ArpAppend, FrameFacts
    <3>3. v1 = version /\ c1 = c /\ a1 = arps
      BY <2>1
    <3> HIDE DEF c, e, v1, a1, c1, e1
    <3> QED BY <1>2, <1>3, <3>2, <3>3
  <2> QED BY <2>2, <2>3
<1>8. CASE Wire
  <2>1. ASSUME NEW q \in Queues, NicTransmit(q) PROVE Replies'
    BY <1>5, <2>1 DEF NicTransmit, cache_vars, bound_vars
  <2>2. ASSUME NEW q \in Queues, NEW ip \in Ips, NeighborExpires(q, ip) PROVE Replies'
    BY <1>5, <2>2 DEF NeighborExpires, cache_vars, batch_vars
  <2> QED BY <1>6, <1>7, <1>8, <2>1, <2>2 DEF Wire
<1>9. ASSUME NEW q \in Queues, PollRx(q) PROVE Replies'
  <2>1. CASE q = 0
    BY <1>9, <2>1, PollKeepsReplies
  <2>2. CASE q # 0
    BY <1>4, <1>5, <1>9, <2>2 DEF PollRx, cache_vars, bound_vars
  <2> QED BY <2>1, <2>2
<1>10. CASE scan
  <2>1. rx_ring'[0] = rx_ring[0] /\ a1 = arps
    BY <1>10 DEF scan, InsertEntry, BumpVersion, batch_vars, bound_vars
  <2>2. CASE UNCHANGED <<version, to_insert>>
    BY <1>5, <2>1, <2>2
  <2>3. CASE version' = version + 1 /\ to_insert' = to_insert \ {Min(to_insert)}
    <3>1. pc[0] \in {"scan", "bump"}
      BY <1>10 DEF scan, InsertEntry, BumpVersion
    <3>2. Min(to_insert) \in to_insert
      BY <3>1, NextReply
    <3>3. c1 = c - 1
      BY <1>1, <2>3, <3>2, FS_RemoveElement
    <3>4. v1 = version + 1 /\ e1 = e
      BY <2>1, <2>3
    <3> HIDE DEF c, e, v1, a1, c1, e1
    <3>5. v1 + c1 + e1 <= a1 /\ a1 <= MaxVersion
      BY <1>1, <1>2, <2>1, <3>3, <3>4
    <3> QED BY <1>3, <3>5
  <2> QED BY <1>10, <2>2, <2>3 DEF scan, InsertEntry, BumpVersion
<1>11. ASSUME NEW q \in Queues, inject_from_shared_cache(q) PROVE Replies'
  BY <1>5, <1>11
  DEF inject_from_shared_cache, LoadVersion, LoadSnapshot, PushEntry, PushFails, InjectionDone,
      cache_vars, batch_vars, bound_vars
<1>12. ASSUME NEW q \in Queues, PopFrame(q) \/ Transmit(q) \/ inject_rx_packet(q) PROVE Replies'
  BY <1>5, <1>12 DEF PopFrame, Transmit, inject_rx_packet, cache_vars, batch_vars, bound_vars
<1> QED BY <1>8, <1>9, <1>10, <1>11, <1>12 DEF Next, receive

\* The refinement mapping: where SharedArpCache sees queue 0 and the others.
MappedWriter == IF pc[0] = "bump" THEN "stored" ELSE "idle"
MappedPc(q) == IF pc[q] \in {"snapshot", "loop"} THEN pc[q] ELSE "idle"

\* A step that leaves what SharedArpCache sees alone is a stuttering step.
LEMMA CacheStutters ==
  ASSUME UNCHANGED <<inner, version, current_version, cache_snapshot, todo,
                     last_cache_version, rx_injected>>,
         UNCHANGED MappedWriter,
         \A q \in Queues \ {0} : UNCHANGED MappedPc(q)
  PROVE  UNCHANGED Cache!vars
BY DEF MappedWriter, MappedPc, Cache!vars, Cache!producer_vars, Cache!consumer_vars

\* queue 0's scan is the writer of SharedArpCache: Replies keeps it within
\* the bound on insert() calls.
LEMMA ScanRefines ==
  ASSUME DeviceInv, Replies, scan
  PROVE  Cache!Next
<1> DEFINE a == rx_batch[0][Min(to_insert)]
<1>1. pc[0] \in {"scan", "bump"} /\ 0 \in Queues /\ pc \in [Queues -> Labels]
  BY Constants DEF scan, InsertEntry, BumpVersion, DeviceInv, CacheTypes
<1>2. a.ip \in Ips /\ a.mac \in Macs /\ Min(to_insert) \in to_insert
  BY <1>1, NextReply
<1>3. version < MaxVersion
  <2> DEFINE c == Cardinality(to_insert)
             e == Cardinality(ArpPositions(rx_ring[0]))
  <2>1. c \in Nat /\ e \in Nat /\ version \in Nat /\ arps \in Nat /\ MaxVersion \in Nat
    BY RepliesTyped, Constants
  <2>2. c # 0
    BY <1>2, RepliesTyped, FS_EmptySet
  <2>3. version + c + e <= arps /\ arps <= MaxVersion
    BY DEF Replies
  <2> HIDE DEF c, e
  <2> QED BY <2>1, <2>2, <2>3
<1>4. UNCHANGED <<current_version, cache_snapshot, todo, last_cache_version, rx_injected>>
  BY DEF scan, InsertEntry, BumpVersion, inject_vars
<1>5. \A q \in Queues \ {0} : pc'[q] = pc[q]
  BY <1>1 DEF scan, InsertEntry, BumpVersion, Goto
<1>6. UNCHANGED Cache!consumer_vars
  BY <1>4, <1>5 DEF Cache!consumer_vars
<1>7. CASE InsertEntry
  <2>1. pc[0] = "scan" /\ pc'[0] \in Labels
    BY <1>7, <1>1 DEF InsertEntry, Goto, AfterScan, Labels
  <2>2. CASE inner[a.ip] = a.mac
    <3>1. version' = version + 1 /\ UNCHANGED inner /\ pc'[0] # "bump"
      BY <1>1, <1>7, <2>2 DEF InsertEntry, Goto, AfterScan
    <3>2. Cache!InsertRefresh(a.ip, a.mac)
      BY <1>3, <1>6, <2>1, <2>2, <3>1 DEF Cache!InsertRefresh
    <3> QED BY <1>2, <3>2 DEF Cache!Next, Cache!insert
  <2>3. CASE inner[a.ip] # a.mac
    <3>1. inner' = [inner EXCEPT ![a.ip] = a.mac] /\ UNCHANGED version /\ pc'[0] = "bump"
      BY <1>1, <1>7, <2>3 DEF InsertEntry, Goto
    <3>2. Cache!InsertStore(a.ip, a.mac)
      BY <1>3, <1>6, <2>1, <2>3, <3>1 DEF Cache!InsertStore
    <3> QED BY <1>2, <3>2 DEF Cache!Next, Cache!insert
  <2> QED BY <2>2, <2>3
<1>8. CASE BumpVersion
  <2>1. pc[0] = "bump" /\ version' = version + 1 /\ UNCHANGED inner /\ pc'[0] # "bump"
    BY <1>1, <1>8 DEF BumpVersion, Goto, AfterScan
  <2>2. Cache!InsertBump
    BY <1>6, <2>1 DEF Cache!InsertBump
  <2> QED BY <2>2 DEF Cache!Next
<1> QED BY <1>7, <1>8 DEF scan

\* The thread of another queue is a consumer of SharedArpCache.
LEMMA InjectionRefines ==
  ASSUME DeviceInv, NEW q \in Queues, inject_from_shared_cache(q)
  PROVE  [Cache!Next]_Cache!vars
<1> USE DEF Goto
<1>1. /\ 0 \in Queues /\ pc \in [Queues -> Labels]
      /\ last_cache_version \in [Queues -> Nat] /\ current_version \in [Queues -> Nat]
      /\ cache_snapshot \in [Queues -> Map] /\ todo \in [Queues -> SUBSET Ips]
      /\ rx_injected \in [Queues -> Map]
  BY Constants DEF DeviceInv, CacheTypes
<1>2. pc[q] \in {"inject", "snapshot", "loop"} /\ q # 0
  BY DEF inject_from_shared_cache, LoadVersion, LoadSnapshot, PushEntry, PushFails,
         InjectionDone, DeviceInv, Threads
<1>3. q \in Queues \ {0} /\ UNCHANGED <<inner, version>> /\ UNCHANGED MappedWriter
  BY <1>1, <1>2
  DEF inject_from_shared_cache, LoadVersion, LoadSnapshot, PushEntry, PushFails,
      InjectionDone, ReturnToReceive, cache_vars, MappedWriter
<1>4. UNCHANGED Cache!producer_vars
  BY <1>3 DEF Cache!producer_vars, MappedWriter
<1>5. CASE LoadVersion(q)
  <2>1. CASE version = last_cache_version[q]
    <3>1. /\ UNCHANGED <<inner, version, current_version, cache_snapshot, todo,
                         last_cache_version, rx_injected>>
          /\ pc' = [pc EXCEPT ![q] = "pop"] /\ pc[q] = "inject"
      BY <1>5, <2>1 DEF LoadVersion, cache_vars
    <3>2. \A r \in Queues \ {0} : UNCHANGED MappedPc(r)
      BY <1>1, <3>1 DEF MappedPc
    <3> QED BY <1>3, <3>1, <3>2, CacheStutters
  <2>2. CASE version # last_cache_version[q]
    <3>1. Cache!LoadVersion(q)
      BY <1>1, <1>3, <1>4, <1>5, <2>2 DEF LoadVersion, Cache!LoadVersion
    <3> QED BY <1>3, <3>1 DEF Cache!Next, Cache!inject_from_shared_cache
  <2> QED BY <2>1, <2>2
<1>6. CASE LoadSnapshot(q)
  <2>1. Cache!LoadSnapshot(q)
    BY <1>1, <1>3, <1>4, <1>6 DEF LoadSnapshot, Cache!LoadSnapshot, Entries, Cache!Entries
  <2> QED BY <1>3, <2>1 DEF Cache!Next, Cache!inject_from_shared_cache
<1>7. ASSUME NEW ip \in Ips, PushEntry(q, ip) PROVE [Cache!Next]_Cache!vars
  <2>1. Cache!PushEntry(q, ip)
    BY <1>1, <1>3, <1>4, <1>7 DEF PushEntry, Cache!PushEntry
  <2> QED BY <1>3, <2>1 DEF Cache!Next, Cache!inject_from_shared_cache
<1>8. CASE PushFails(q)
  <2>1. Cache!PushFails(q)
    BY <1>1, <1>3, <1>4, <1>8
    DEF PushFails, ReturnToReceive, Cache!PushFails, Cache!Return, EmptyMap, Cache!EmptyMap
  <2> QED BY <1>3, <2>1 DEF Cache!Next, Cache!inject_from_shared_cache
<1>9. CASE InjectionDone(q)
  <2>1. Cache!InjectionDone(q)
    BY <1>1, <1>3, <1>4, <1>9
    DEF InjectionDone, ReturnToReceive, Cache!InjectionDone, Cache!Return, EmptyMap, Cache!EmptyMap
  <2> QED BY <1>3, <2>1 DEF Cache!Next, Cache!inject_from_shared_cache
<1> QED BY <1>5, <1>6, <1>7, <1>8, <1>9 DEF inject_from_shared_cache

\* The steps outside the scan and the injection do not touch the cache.
CacheUntouched ==
  /\ UNCHANGED <<inner, version, current_version, cache_snapshot, todo,
                 last_cache_version, rx_injected>>
  /\ UNCHANGED MappedWriter
  /\ \A q \in Queues \ {0} : UNCHANGED MappedPc(q)

\* The rings, batches and mempool are not visible to SharedArpCache.
LEMMA StepTouchesCache ==
  ASSUME DeviceInv, [Next]_vars
  PROVE  scan \/ (\E q \in Queues : inject_from_shared_cache(q)) \/ CacheUntouched
<1> DEFINE Same == UNCHANGED <<inner, version, current_version, cache_snapshot, todo,
                               last_cache_version, rx_injected>>
<1>1. 0 \in Queues /\ pc \in [Queues -> Labels]
  BY Constants DEF DeviceInv, CacheTypes
<1>2. ASSUME Same, UNCHANGED pc PROVE CacheUntouched
  BY <1>2 DEF CacheUntouched, MappedWriter, MappedPc
<1>3. CASE Wire
  <2>1. Same /\ UNCHANGED pc
    BY <1>3 DEF Wire, WireArp, WireData, NicTransmit, NeighborExpires, cache_vars, inject_vars
  <2> QED BY <1>2, <2>1
<1>4. ASSUME NEW q \in Queues, Transmit(q) \/ inject_rx_packet(q) PROVE CacheUntouched
  <2>1. Same /\ UNCHANGED pc
    BY <1>4 DEF Transmit, inject_rx_packet, cache_vars, inject_vars
  <2> QED BY <1>2, <2>1
<1>5. ASSUME NEW q \in Queues, PollRx(q) \/ PopFrame(q) PROVE CacheUntouched
  <2>1. /\ Same /\ pc[q] \in {"idle", "pop"} /\ pc'[q] \in {"idle", "pop", "scan", "inject"}
        /\ \A r \in Queues \ {q} : pc'[r] = pc[r]
    BY <1>1, <1>5 DEF PollRx, PopFrame, Goto, AfterScan, cache_vars, inject_vars
  <2>2. UNCHANGED MappedWriter /\ \A r \in Queues \ {0} : UNCHANGED MappedPc(r)
    BY <1>1, <2>1 DEF MappedWriter, MappedPc
  <2> QED BY <2>1, <2>2 DEF CacheUntouched
<1>6. CASE UNCHANGED vars
  <2>1. Same /\ UNCHANGED pc
    BY <1>6 DEF vars, cache_vars, inject_vars
  <2> QED BY <1>2, <2>1
<1> HIDE DEF Same
<1> QED BY <1>3, <1>4, <1>5, <1>6 DEF Next, receive

\* Every step of the devices is a step of SharedArpCache or a stuttering
\* step of it.
LEMMA StepRefines ==
  ASSUME DeviceInv, Replies, [Next]_vars
  PROVE  [Cache!Next]_Cache!vars
<1>1. CASE scan
  BY <1>1, ScanRefines
<1>2. ASSUME NEW q \in Queues, inject_from_shared_cache(q) PROVE [Cache!Next]_Cache!vars
  BY <1>2, InjectionRefines
<1>3. CASE CacheUntouched
  BY <1>3, CacheStutters DEF CacheUntouched
<1> QED BY <1>1, <1>2, <1>3, StepTouchesCache

(* The devices implement SharedArpCache: whatever the batches, the rings   *)
(* and the mempool do, queue 0's scan is its writer and the threads of the *)
(* other queues are its consumers, so that what is proved of the cache     *)
(* (an up-to-date consumer has pushed every entry) holds of the devices.   *)
THEOREM DevicesImplementCache == Spec => ImplementsSharedArpCache
<1>1. Init => Cache!Init
  <2> SUFFICES ASSUME Init PROVE Cache!Init
    OBVIOUS
  <2>1. 0 \in Queues
    BY Constants
  <2> QED BY <2>1 DEF Init, Cache!Init, EmptyMap, Cache!EmptyMap
<1>2. Init => Replies
  <2> SUFFICES ASSUME Init PROVE Replies
    OBVIOUS
  <2>1. /\ version = 0 /\ arps = 0 /\ to_insert = {} /\ rx_ring[0] = <<>>
        /\ MaxVersion \in Nat
    BY Constants DEF Init
  <2>2. ArpPositions(<<>>) = {}
    BY DEF ArpPositions
  <2>3. Cardinality(to_insert) = 0 /\ Cardinality(ArpPositions(rx_ring[0])) = 0
    BY <2>1, <2>2, FS_EmptySet
  <2> QED BY <2>1, <2>3 DEF Replies
<1>3. DeviceInv /\ Replies /\ [Next]_vars => Replies'
  <2> SUFFICES ASSUME DeviceInv, Replies, [Next]_vars PROVE Replies'
    OBVIOUS
  <2>1. CASE Next
    BY <2>1, StepKeepsReplies
  <2>2. CASE UNCHANGED vars
    BY <2>2 DEF vars, cache_vars, batch_vars, bound_vars, Replies
  <2> QED BY <2>1, <2>2
<1>4. DeviceInv /\ Replies /\ [Next]_vars => [Cache!Next]_Cache!vars
  BY StepRefines
<1> QED BY <1>1, <1>2, <1>3, <1>4, DeviceTypes, PTL
        DEF Spec, ImplementsSharedArpCache, Cache!Spec

-----------------------------------------------------------------------------
(* What the cache promises, on the devices *)

\* The invariant of SharedArpCache, seen through the refinement mapping.
Ahead(q) ==
  /\ last_cache_version[q] <= version
  /\ MappedPc(q) # "idle" => /\ last_cache_version[q] < current_version[q]
                             /\ current_version[q] <= version

Covers(q) ==
  MappedPc(q) = "loop" =>
    /\ \A ip \in Entries(cache_snapshot[q]) \ todo[q] :
         rx_injected[q][ip] = cache_snapshot[q][ip]
    /\ (MappedWriter = "idle" /\ current_version[q] = version) => cache_snapshot[q] = inner

UpToDate(q) ==
  (MappedWriter = "idle" /\ last_cache_version[q] = version)
    => \A ip \in Entries(inner) : rx_injected[q][ip] = inner[ip]

Published == \A q \in Queues \ {0} : Ahead(q) /\ Covers(q) /\ UpToDate(q)

\* insert() voids every claim about the published map until its bump, and the
\* bump exceeds every version a queue has loaded.
LEMMA ScanKeepsPublished ==
  ASSUME DeviceInv, Published, scan
  PROVE  Published'
<1>1. /\ 0 \in Queues /\ pc \in [Queues -> Labels] /\ version \in Nat
      /\ last_cache_version \in [Queues -> Nat] /\ current_version \in [Queues -> Nat]
  BY Constants DEF DeviceInv, CacheTypes
<1>2. UNCHANGED <<current_version, cache_snapshot, todo, last_cache_version, rx_injected>>
  BY DEF scan, InsertEntry, BumpVersion, inject_vars
<1>3. \A q \in Queues \ {0} : MappedPc(q)' = MappedPc(q)
  BY <1>1 DEF scan, InsertEntry, BumpVersion, Goto, MappedPc
<1>4. CASE MappedWriter' = "stored" /\ version' = version
  <2>1. ASSUME NEW q \in Queues \ {0} PROVE Ahead(q)' /\ Covers(q)' /\ UpToDate(q)'
    <3>1. Ahead(q) /\ Covers(q)
      BY DEF Published
    <3> QED BY <1>2, <1>3, <1>4, <3>1 DEF Ahead, Covers, UpToDate
  <2> QED BY <2>1 DEF Published
<1>5. CASE version' = version + 1 /\ inner' = inner
  <2>1. ASSUME NEW q \in Queues \ {0} PROVE Ahead(q)' /\ Covers(q)' /\ UpToDate(q)'
    <3>1. Ahead(q) /\ Covers(q)
      BY DEF Published
    <3>2. Ahead(q)'
      BY <1>1, <1>2, <1>3, <1>5, <3>1 DEF Ahead
    <3>3. last_cache_version[q] # version' /\ (MappedPc(q) = "loop" => current_version[q] # version')
      BY <1>1, <1>5, <3>1 DEF Ahead
    <3> QED BY <1>2, <1>3, <3>1, <3>2, <3>3 DEF Covers, UpToDate
  <2> QED BY <2>1 DEF Published
<1>6. CASE InsertEntry
  <2> DEFINE a == rx_batch[0][Min(to_insert)]
  <2>1. CASE inner[a.ip] = a.mac
    BY <1>5, <1>6, <2>1 DEF InsertEntry
  <2>2. CASE inner[a.ip] # a.mac
    BY <1>1, <1>4, <1>6, <2>2 DEF InsertEntry, Goto, MappedWriter
  <2> QED BY <2>1, <2>2
<1>7. CASE BumpVersion
  BY <1>5, <1>7 DEF BumpVersion
<1> QED BY <1>6, <1>7 DEF scan

\* The map is loaded after the version, so that the end of the loop means that
\* everything published with that version has been pushed.
LEMMA InjectionKeepsPublished ==
  ASSUME DeviceInv, Published, NEW q \in Queues, inject_from_shared_cache(q)
  PROVE  Published'
<1> USE DEF Goto
<1>1. /\ 0 \in Queues /\ pc \in [Queues -> Labels] /\ version \in Nat /\ inner \in Map
      /\ last_cache_version \in [Queues -> Nat] /\ current_version \in [Queues -> Nat]
      /\ cache_snapshot \in [Queues -> Map] /\ todo \in [Queues -> SUBSET Ips]
      /\ rx_injected \in [Queues -> Map]
  BY Constants DEF DeviceInv, CacheTypes
<1>2. pc[q] \in {"inject", "snapshot", "loop"} /\ q # 0 /\ q \in Queues \ {0}
  BY DEF inject_from_shared_cache, LoadVersion, LoadSnapshot, PushEntry, PushFails,
         InjectionDone, DeviceInv, Threads
<1>3. UNCHANGED <<inner, version>> /\ MappedWriter' = MappedWriter
  BY <1>1, <1>2
  DEF inject_from_shared_cache, LoadVersion, LoadSnapshot, PushEntry, PushFails,
      InjectionDone, ReturnToReceive, cache_vars, MappedWriter
<1>4. Ahead(q) /\ Covers(q) /\ UpToDate(q)
  BY <1>2 DEF Published
<1>5. ASSUME NEW r \in Queues \ {0, q} PROVE Ahead(r)' /\ Covers(r)' /\ UpToDate(r)'
  <2>1. /\ last_cache_version'[r] = last_cache_version[r] /\ current_version'[r] = current_version[r]
        /\ cache_snapshot'[r] = cache_snapshot[r] /\ todo'[r] = todo[r]
        /\ rx_injected'[r] = rx_injected[r] /\ pc'[r] = pc[r]
    BY <1>1
    DEF inject_from_shared_cache, LoadVersion, LoadSnapshot, PushEntry, PushFails,
        InjectionDone, ReturnToReceive
  <2>2. Ahead(r) /\ Covers(r) /\ UpToDate(r)
    BY DEF Published
  <2> QED BY <1>3, <2>1, <2>2 DEF Ahead, Covers, UpToDate, MappedPc
<1>6. Ahead(q)' /\ Covers(q)' /\ UpToDate(q)'
  <2>1. CASE LoadVersion(q)
    BY <1>1, <1>3, <1>4, <2>1 DEF LoadVersion, Ahead, Covers, UpToDate, MappedPc
  <2>2. CASE LoadSnapshot(q)
    <3>1. /\ pc[q] = "snapshot" /\ pc'[q] = "loop" /\ cache_snapshot'[q] = inner
          /\ todo'[q] = Entries(inner)
          /\ UNCHANGED <<last_cache_version, current_version, rx_injected>>
      BY <1>1, <2>2 DEF LoadSnapshot
    <3> QED BY <1>3, <1>4, <3>1 DEF Ahead, Covers, UpToDate, MappedPc
  <2>3. ASSUME NEW ip \in Ips, PushEntry(q, ip)
        PROVE  Ahead(q)' /\ Covers(q)' /\ UpToDate(q)'
    <3>1. /\ pc[q] = "loop" /\ UNCHANGED <<pc, last_cache_version, current_version, cache_snapshot>>
          /\ rx_injected'[q] = [rx_injected[q] EXCEPT ![ip] = cache_snapshot[q][ip]]
          /\ todo'[q] = todo[q] \ {ip}
      BY <1>1, <2>3 DEF PushEntry
    <3>2. last_cache_version[q] # version
      BY <1>1, <1>4, <3>1 DEF Ahead, MappedPc
    <3>3. \A i \in Ips : rx_injected'[q][i] = IF i = ip THEN cache_snapshot[q][i] ELSE rx_injected[q][i]
      BY <1>1, <3>1 DEF Map
    <3> QED BY <1>3, <1>4, <3>1, <3>2, <3>3 DEF Ahead, Covers, UpToDate, MappedPc, Entries
  <2>4. CASE PushFails(q)
    <3>1. pc'[q] = "pop" /\ UNCHANGED <<last_cache_version, rx_injected>>
      BY <1>1, <2>4 DEF PushFails, ReturnToReceive
    <3> QED BY <1>3, <1>4, <3>1 DEF Ahead, Covers, UpToDate, MappedPc
  <2>5. CASE InjectionDone(q)
    <3>1. /\ pc[q] = "loop" /\ todo[q] = {} /\ pc'[q] = "pop" /\ UNCHANGED rx_injected
          /\ last_cache_version'[q] = current_version[q]
      BY <1>1, <2>5 DEF InjectionDone, ReturnToReceive
    <3> QED BY <1>3, <1>4, <3>1 DEF Ahead, Covers, UpToDate, MappedPc
  <2> QED BY <2>1, <2>2, <2>3, <2>4, <2>5 DEF inject_from_shared_cache
<1> QED BY <1>5, <1>6 DEF Published

\* Every step keeps what the queues know of the cache.
LEMMA StepKeepsPublished ==
  ASSUME DeviceInv, Published, [Next]_vars
  PROVE  Published'
<1>1. CASE CacheUntouched
  <2>1. ASSUME NEW q \in Queues \ {0} PROVE Ahead(q)' /\ Covers(q)' /\ UpToDate(q)'
    <3>1. Ahead(q) /\ Covers(q) /\ UpToDate(q)
      BY DEF Published
    <3> QED BY <1>1, <3>1 DEF CacheUntouched, Ahead, Covers, UpToDate
  <2> QED BY <2>1 DEF Published
<1> QED BY <1>1, StepTouchesCache, ScanKeepsPublished, InjectionKeepsPublished

\* It holds in every state.
LEMMA PublishedAlways == Spec => []Published
<1>1. Init => Published
  <2> SUFFICES ASSUME Init, NEW q \in Queues \ {0} PROVE Ahead(q) /\ Covers(q) /\ UpToDate(q)
    BY DEF Published
  <2> QED BY DEF Init, Ahead, Covers, UpToDate, MappedPc, Entries, EmptyMap
<1> QED BY <1>1, StepKeepsPublished, DeviceTypes, PTL DEF Spec

(* The fast path of inject_from_shared_cache on the devices, for any       *)
(* number of queues and addresses and with batches, mempool and bursts of  *)
(* any size: a queue that skips the injection has pushed every entry of    *)
(* the cache with its current MAC.                                         *)
THEOREM DevicesTakeTheFastPathSafely == Spec => []Cache!FastPathIsSafe
<1>1. Published => Cache!FastPathIsSafe
  BY DEF Published, UpToDate, MappedWriter, Cache!FastPathIsSafe, Entries, Cache!Entries
<1> QED BY <1>1, PublishedAlways, PTL
=============================================================================
