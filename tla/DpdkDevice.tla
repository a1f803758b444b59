----------------------------- MODULE DpdkDevice -----------------------------
(***************************************************************************)
(* The smoltcp devices of one port: one DpdkDevice per RX/TX queue pair    *)
(* (dpdk-net/src/device/dpdk_device.rs over api/rte/queue.rs), each polled *)
(* by its own thread, sharing a mempool and a SharedArpCache.              *)
(*                                                                         *)
(* receive() is split where it touches memory shared with other threads:   *)
(*   PollRx       poll_rx up to the scan (flush_tx, rx burst)              *)
(*   InsertEntry, BumpVersion        queue 0's scan: cache.insert          *)
(*   LoadVersion, LoadSnapshot, PushEntry, PushFails, InjectionDone        *)
(*                                   inject_from_shared_cache              *)
(*   PopFrame     rx_batch.pop() and smoltcp's processing of the frame     *)
(* transmit() and the consumption of its token are one action.             *)
(*                                                                         *)
(* The NIC (rings, wire) and smoltcp (which frames it answers, its         *)
(* neighbor cache) are the environment.  A frame is an ARP reply for an    *)
(* (IP, MAC) pair or a data frame numbered by arrival on its queue; an     *)
(* mbuf is counted, not named.                                             *)
(***************************************************************************)
EXTENDS SequencesExt

CONSTANTS Queues,       \* queue ids; queue 0 is the ARP producer
          Ips, Macs, NoMac,
          RxCap,        \* capacity of rx_batch (64) = MAX_BURST_SIZE
          TxCap,        \* capacity of tx_batch (256)
          TxBurst,      \* MAX_BURST_SIZE: frames per rte_eth_tx_burst (64)
          RxRingSize, TxRingSize, PoolSize,
          MaxVersion,   \* bound: ARP replies on the wire
          MaxFrames,    \* bound: data frames per queue, from the wire ...
          MaxFabricated, \* ... and from inject_rx_packet, in total
          MaxSends,     \* bound: frames smoltcp emits per queue
          MaxExpiries   \* bound: neighbor-cache expiries

ASSUME DeviceAssumption ==
  /\ 0 \in Queues /\ Queues \subseteq Nat /\ IsFiniteSet(Queues)
  /\ NoMac \notin Macs
  /\ {RxCap, TxCap, TxBurst, RxRingSize, TxRingSize, PoolSize} \subseteq Nat \ {0}
  /\ MaxFrames \in [Queues -> Nat]
  /\ {MaxVersion, MaxFabricated, MaxSends, MaxExpiries} \subseteq Nat

VARIABLES
  inner, version,            \* the SharedArpCache
  free,                      \* mbufs in the mempool
  rx_ring, tx_ring,          \* the NIC's queues
  rx_batch, tx_batch,        \* fields of DpdkDevice
  last_cache_version,        \* field of DpdkDevice
  pc,                        \* where each thread is in receive()
  to_insert,                 \* queue 0: where in rx_batch the scan has yet to insert
  current_version, cache_snapshot, todo, \* locals of inject_from_shared_cache
  rx_injected,               \* the MAC of the newest frame injected per IP
  neighbor,                  \* smoltcp's neighbor cache of each queue
  arrived, delivered,        \* data frames put on the ring / given to smoltcp
  sent, wired,               \* frames numbered by token / last one on the wire
  panicked,                  \* whose token made consume() panic
  arps, fabricated, expiries \* counters for the bounds

cache_vars   == <<inner, version>>
batch_vars   == <<rx_ring, tx_ring, rx_batch, tx_batch, free>>
inject_vars  == <<current_version, cache_snapshot, todo>>
ghost_vars   == <<arrived, delivered, sent, wired>>
bound_vars   == <<arps, fabricated, expiries>>
vars == <<cache_vars, batch_vars, last_cache_version, pc, to_insert,
          inject_vars, rx_injected, neighbor, ghost_vars, panicked, bound_vars>>

Map == [Ips -> Macs \cup {NoMac}]
EmptyMap == [ip \in Ips |-> NoMac]
Entries(map) == {ip \in Ips : map[ip] # NoMac}

ArpFrame == [kind : {"arp"}, ip : Ips, mac : Macs]
DataFrame == [kind : {"data"}, id : Nat]
Arp(ip, mac) == [kind |-> "arp", ip |-> ip, mac |-> mac]
Data(n) == [kind |-> "data", id |-> n]
IsArp(f) == f.kind = "arp"

(* with_shared_arp_cache is called only when there are several queues.     *)
Shared == Queues # {0}
-----------------------------------------------------------------------------
(* DpdkDevice::new for every queue; rings empty, all mbufs in the pool.    *)
Init ==
  /\ inner = EmptyMap /\ version = 0
  /\ free = PoolSize
  /\ rx_ring = [q \in Queues |-> <<>>] /\ tx_ring = [q \in Queues |-> <<>>]
  /\ rx_batch = [q \in Queues |-> <<>>] /\ tx_batch = [q \in Queues |-> <<>>]
  /\ last_cache_version = [q \in Queues |-> 0]
  /\ pc = [q \in Queues |-> "idle"]
  /\ to_insert = {}
  /\ current_version = [q \in Queues |-> 0]
  /\ cache_snapshot = [q \in Queues |-> EmptyMap]
  /\ todo = [q \in Queues |-> {}]
  /\ rx_injected = [q \in Queues |-> EmptyMap]
  /\ neighbor = [q \in Queues |-> EmptyMap]
  /\ arrived = [q \in Queues |-> 0] /\ delivered = [q \in Queues |-> <<>>]
  /\ sent = [q \in Queues |-> 0] /\ wired = [q \in Queues |-> 0]
  /\ panicked = [q \in Queues |-> "no"]
  /\ arps = 0 /\ fabricated = 0 /\ expiries = 0

Goto(q, label) == pc' = [pc EXCEPT ![q] = label]
-----------------------------------------------------------------------------
(* Plausible mistakes in this code; each replaces the definition named in  *)
(* its comment when the properties are tested for their strength.          *)

\* Unflushed: frames the ring took are not removed from tx_batch
KeepsFlushed(q) == tx_batch[q]

\* Unflushed: one frame more than the ring took is forgotten
ForgetsOneMore(q) == 
  LET n == Min({Len(tx_batch[q]), TxBurst, TxRingSize - Len(tx_ring[q])})
  IN  IF n = 0 THEN tx_batch[q] ELSE SubSeq(tx_batch[q], n + 2, Len(tx_batch[q]))

\* PollRx: rx_batch is refilled although it is not empty
RefillAlways(q) ==
  LET burst == SubSeq(rx_ring[q], 1, Min({RxCap, Len(rx_ring[q])}))
  IN  /\ pc[q] = "idle" /\ panicked[q] = "no"
      /\ rx_ring' = [rx_ring EXCEPT ![q] = SubSeq(@, Len(burst) + 1, Len(@))]
      /\ rx_batch' = [rx_batch EXCEPT ![q] = burst]
      /\ Goto(q, "pop")
      /\ UNCHANGED <<cache_vars, free, tx_ring, tx_batch, to_insert,
                     last_cache_version, inject_vars, rx_injected, neighbor,
                     ghost_vars, panicked, bound_vars>>

\* InsertEntry: a refresh with the same MAC does not bump the version
RefreshIgnored ==
  /\ pc[0] = "scan"
  /\ LET a == rx_batch[0][Min(to_insert)]
     IN  \/ /\ inner[a.ip] = a.mac
            /\ to_insert' = to_insert \ {Min(to_insert)}
            /\ Goto(0, IF to_insert' = {} THEN "pop" ELSE "scan")
            /\ UNCHANGED <<inner, version>>
         \/ /\ inner[a.ip] # a.mac
            /\ inner' = [inner EXCEPT ![a.ip] = a.mac]
            /\ Goto(0, "bump")
            /\ UNCHANGED <<version, to_insert>>
  /\ UNCHANGED <<batch_vars, last_cache_version, inject_vars, rx_injected,
                 neighbor, ghost_vars, panicked, bound_vars>>

\* PushFails: spins in the loop until there is room
SpinInLoop(q) ==
  /\ pc[q] = "loop" /\ todo[q] # {}
  /\ ~(Len(rx_batch[q]) < RxCap /\ free > 0)
  /\ UNCHANGED vars

\* PushFails: the version is remembered although an entry is missing
FailureMovesVersion(q) ==
  /\ pc[q] = "loop" /\ todo[q] # {}
  /\ ~(Len(rx_batch[q]) < RxCap /\ free > 0)
  /\ last_cache_version' = [last_cache_version EXCEPT ![q] = current_version[q]]
  /\ Goto(q, "pop")
  /\ current_version' = [current_version EXCEPT ![q] = 0]
  /\ cache_snapshot' = [cache_snapshot EXCEPT ![q] = EmptyMap]
  /\ todo' = [todo EXCEPT ![q] = {}]
  /\ UNCHANGED <<cache_vars, batch_vars, to_insert, rx_injected, neighbor,
                 ghost_vars, panicked, bound_vars>>

\* InjectionDone: remembers `v' instead of the version loaded first
DoneRemembers(q, v) ==
  /\ pc[q] = "loop" /\ todo[q] = {}
  /\ last_cache_version' = [last_cache_version EXCEPT ![q] = v]
  /\ Goto(q, "pop")
  /\ current_version' = [current_version EXCEPT ![q] = 0]
  /\ cache_snapshot' = [cache_snapshot EXCEPT ![q] = EmptyMap]
  /\ todo' = [todo EXCEPT ![q] = {}]
  /\ UNCHANGED <<cache_vars, batch_vars, to_insert, rx_injected, neighbor,
                 ghost_vars, panicked, bound_vars>>
DoneForgetsVersion(q) == DoneRemembers(q, last_cache_version[q])
-----------------------------------------------------------------------------
(* The environment: the NIC fills a descriptor's mbuf (ARP replies match   *)
(* no RSS rule and land on queue 0), transmits from its ring, and smoltcp  *)
(* forgets a neighbor after its lifetime.                                  *)
WireArp(ip, mac) ==
  /\ arps < MaxVersion
  /\ Len(rx_ring[0]) < RxRingSize /\ free > 0
  /\ rx_ring' = [rx_ring EXCEPT ![0] = Append(@, Arp(ip, mac))]
  /\ free' = free - 1
  /\ arps' = arps + 1
  /\ UNCHANGED <<cache_vars, tx_ring, rx_batch, tx_batch, last_cache_version,
                 pc, to_insert, inject_vars, rx_injected, neighbor, ghost_vars,
                 panicked, fabricated, expiries>>

WireData(q) ==
  /\ arrived[q] < MaxFrames[q]
  /\ Len(rx_ring[q]) < RxRingSize /\ free > 0
  /\ arrived' = [arrived EXCEPT ![q] = @ + 1]
  /\ rx_ring' = [rx_ring EXCEPT ![q] = Append(@, Data(arrived'[q]))]
  /\ free' = free - 1
  /\ UNCHANGED <<cache_vars, tx_ring, rx_batch, tx_batch, last_cache_version,
                 pc, to_insert, inject_vars, rx_injected, neighbor, delivered,
                 sent, wired, panicked, bound_vars>>

NicTransmit(q) ==
  /\ tx_ring[q] # <<>>
  /\ wired' = [wired EXCEPT ![q] = Head(tx_ring[q])]
  /\ tx_ring' = [tx_ring EXCEPT ![q] = Tail(@)]
  /\ free' = free + 1
  /\ UNCHANGED <<cache_vars, rx_ring, rx_batch, tx_batch, last_cache_version,
                 pc, to_insert, inject_vars, rx_injected, neighbor, arrived,
                 delivered, sent, panicked, bound_vars>>

NeighborExpires(q, ip) ==
  /\ expiries < MaxExpiries
  /\ neighbor[q][ip] # NoMac
  /\ neighbor' = [neighbor EXCEPT ![q][ip] = NoMac]
  /\ expiries' = expiries + 1
  /\ UNCHANGED <<cache_vars, batch_vars, last_cache_version, pc, to_insert,
                 inject_vars, rx_injected, ghost_vars, panicked, arps,
                 fabricated>>
-----------------------------------------------------------------------------
(* TxQueue::tx as flush_tx calls it: offer at most a burst; the ring takes *)
(* what fits, from the front, and the rest stays in tx_batch.              *)
Flushed(q) == Min({Len(tx_batch[q]), TxBurst, TxRingSize - Len(tx_ring[q])})
Unflushed(q) == SubSeq(tx_batch[q], Flushed(q) + 1, Len(tx_batch[q]))

flush_tx(q) ==
  tx_ring' = [tx_ring EXCEPT ![q] = @ \o SubSeq(tx_batch[q], 1, Flushed(q))]

(* Queue 0 goes on with the scan; when there is nothing left to insert it  *)
(* returns from inject_from_shared_cache at once and pops.                 *)
AfterScan(rest) == IF rest = {} THEN "pop" ELSE "scan"

(* What the scan's loop over a batch finds: where the ARP replies are.     *)
ArpPositions(batch) == {i \in DOMAIN batch : IsArp(batch[i])}

(* poll_rx: flush, then refill an empty rx_batch with one burst.  Queue 0  *)
(* is left with the ARP replies of the new burst to insert, front to back. *)
PollRx(q) ==
  /\ pc[q] = "idle" /\ panicked[q] = "no"
  /\ flush_tx(q)
  /\ tx_batch' = [tx_batch EXCEPT ![q] = Unflushed(q)]
  /\ LET n     == IF rx_batch[q] = <<>> THEN Min({RxCap, Len(rx_ring[q])}) ELSE 0
         burst == SubSeq(rx_ring[q], 1, n)
     IN  /\ rx_ring' = [rx_ring EXCEPT ![q] = SubSeq(@, n + 1, Len(@))]
         /\ rx_batch' = [rx_batch EXCEPT ![q] = @ \o burst]
         /\ to_insert' = IF q = 0 /\ Shared THEN ArpPositions(burst)
                                            ELSE to_insert
  /\ Goto(q, IF q # 0 THEN "inject" ELSE AfterScan(to_insert'))
  /\ UNCHANGED <<cache_vars, free, last_cache_version, inject_vars,
                 rx_injected, neighbor, ghost_vars, panicked, bound_vars>>

(* One cache.insert of the scan up to the store, or the whole of it when   *)
(* the MAC is unchanged and only the version is bumped.                    *)
InsertEntry ==
  /\ pc[0] = "scan"
  /\ LET a == rx_batch[0][Min(to_insert)]
     IN  \/ /\ inner[a.ip] = a.mac
            /\ version' = version + 1
            /\ to_insert' = to_insert \ {Min(to_insert)}
            /\ Goto(0, AfterScan(to_insert'))
            /\ UNCHANGED inner
         \/ /\ inner[a.ip] # a.mac
            /\ inner' = [inner EXCEPT ![a.ip] = a.mac]
            /\ Goto(0, "bump")
            /\ UNCHANGED <<version, to_insert>>
  /\ UNCHANGED <<batch_vars, last_cache_version, inject_vars, rx_injected,
                 neighbor, ghost_vars, panicked, bound_vars>>

BumpVersion ==
  /\ pc[0] = "bump"
  /\ version' = version + 1
  /\ to_insert' = to_insert \ {Min(to_insert)}
  /\ Goto(0, AfterScan(to_insert'))
  /\ UNCHANGED <<inner, batch_vars, last_cache_version, inject_vars,
                 rx_injected, neighbor, ghost_vars, panicked, bound_vars>>
-----------------------------------------------------------------------------
(* The other queues: cache.version() and the fast path.                    *)
LoadVersion(q) ==
  /\ pc[q] = "inject"
  /\ \/ /\ version = last_cache_version[q]
        /\ Goto(q, "pop")
        /\ UNCHANGED current_version
     \/ /\ version # last_cache_version[q]
        /\ current_version' = [current_version EXCEPT ![q] = version]
        /\ Goto(q, "snapshot")
  /\ UNCHANGED <<cache_vars, batch_vars, last_cache_version, to_insert,
                 cache_snapshot, todo, rx_injected, neighbor, ghost_vars,
                 panicked, bound_vars>>

LoadSnapshot(q) ==
  /\ pc[q] = "snapshot"
  /\ cache_snapshot' = [cache_snapshot EXCEPT ![q] = inner]
  /\ todo' = [todo EXCEPT ![q] = Entries(inner)]
  /\ Goto(q, "loop")
  /\ UNCHANGED <<cache_vars, batch_vars, last_cache_version, to_insert,
                 current_version, rx_injected, neighbor, ghost_vars, panicked,
                 bound_vars>>

(* rx_batch has room and try_alloc succeeds; copy_from_slice cannot fail   *)
(* because new() asserts that an mbuf holds far more than an ARP frame.    *)
CanPush(q) == Len(rx_batch[q]) < RxCap /\ free > 0

PushEntry(q, ip) ==
  /\ pc[q] = "loop" /\ ip \in todo[q]
  /\ CanPush(q)
  /\ rx_batch' = [rx_batch EXCEPT
                    ![q] = Append(@, Arp(ip, cache_snapshot[q][ip]))]
  /\ free' = free - 1
  /\ rx_injected' = [rx_injected EXCEPT ![q][ip] = cache_snapshot[q][ip]]
  /\ todo' = [todo EXCEPT ![q] = @ \ {ip}]
  /\ UNCHANGED <<cache_vars, rx_ring, tx_ring, tx_batch, last_cache_version,
                 pc, to_insert, current_version, cache_snapshot, neighbor,
                 ghost_vars, panicked, bound_vars>>

(* inject_from_shared_cache returns to receive(); its locals are gone.     *)
ReturnToReceive(q) ==
  /\ Goto(q, "pop")
  /\ current_version' = [current_version EXCEPT ![q] = 0]
  /\ cache_snapshot' = [cache_snapshot EXCEPT ![q] = EmptyMap]
  /\ todo' = [todo EXCEPT ![q] = {}]

PushFails(q) ==
  /\ pc[q] = "loop" /\ todo[q] # {}
  /\ ~CanPush(q)
  /\ ReturnToReceive(q)
  /\ UNCHANGED <<cache_vars, batch_vars, last_cache_version, to_insert,
                 rx_injected, neighbor, ghost_vars, panicked, bound_vars>>

InjectionDone(q) ==
  /\ pc[q] = "loop" /\ todo[q] = {}
  /\ last_cache_version' =
       [last_cache_version EXCEPT ![q] = current_version[q]]
  /\ ReturnToReceive(q)
  /\ UNCHANGED <<cache_vars, batch_vars, to_insert, rx_injected, neighbor,
                 ghost_vars, panicked, bound_vars>>
-----------------------------------------------------------------------------
(* DpdkTxTokenWithPool::consume on a tx_batch that holds `batch', by the   *)
(* holder of a token of origin "receive" or "transmit", while `freed'      *)
(* mbufs return to the pool: with no mbuf the frame goes to a heap buffer  *)
(* and is lost; with an mbuf but no room the expect() panics (and the mbuf *)
(* unwinds to the pool).                                                   *)
consume(q, batch, origin, freed) ==
  \/ /\ free = 0
     /\ free' = free + freed
     /\ tx_batch' = [tx_batch EXCEPT ![q] = batch]
     /\ UNCHANGED <<sent, panicked>>
  \/ /\ free > 0 /\ Len(batch) < TxCap
     /\ sent' = [sent EXCEPT ![q] = @ + 1]
     /\ tx_batch' = [tx_batch EXCEPT ![q] = Append(batch, sent'[q])]
     /\ free' = free - 1 + freed
     /\ UNCHANGED panicked
  \/ /\ free > 0 /\ Len(batch) >= TxCap
     /\ panicked' = [panicked EXCEPT ![q] = origin]
     /\ free' = free + freed
     /\ tx_batch' = [tx_batch EXCEPT ![q] = batch]
     /\ UNCHANGED sent

(* The end of receive() with smoltcp's use of the two tokens: the newest   *)
(* frame is popped, handed to smoltcp, and its mbuf dropped afterwards, so *)
(* it is still in use when an answer is written through the TX token.      *)
PopFrame(q) ==
  /\ pc[q] = "pop"
  /\ Goto(q, "idle")
  /\ \/ /\ rx_batch[q] = <<>>
        /\ UNCHANGED <<batch_vars, neighbor, delivered, sent, panicked>>
     \/ /\ rx_batch[q] # <<>>
        /\ rx_batch' = [rx_batch EXCEPT ![q] = Front(@)]
        /\ LET f == Last(rx_batch[q])
           IN  \/ /\ IsArp(f)
                  /\ neighbor' = [neighbor EXCEPT ![q][f.ip] = f.mac]
                  /\ free' = free + 1
                  /\ UNCHANGED <<tx_batch, delivered, sent, panicked>>
               \/ /\ ~IsArp(f)
                  /\ delivered' = [delivered EXCEPT ![q] = Append(@, f.id)]
                  /\ \/ /\ free' = free + 1
                        /\ UNCHANGED <<tx_batch, sent, panicked>>
                     \/ /\ sent[q] < MaxSends
                        /\ consume(q, tx_batch[q], "receive", 1)
                  /\ UNCHANGED neighbor
        /\ UNCHANGED <<rx_ring, tx_ring>>
  /\ UNCHANGED <<cache_vars, last_cache_version, to_insert, inject_vars,
                 rx_injected, arrived, wired, bound_vars>>

\* Transmit (a plausible mistake): no second check after the flush
TransmitUnchecked(q) ==
  /\ pc[q] = "idle" /\ panicked[q] = "no"
  /\ sent[q] < MaxSends
  /\ flush_tx(q)
  /\ consume(q, Unflushed(q), "transmit", 0)
  /\ UNCHANGED <<cache_vars, rx_ring, rx_batch, last_cache_version, pc,
                 to_insert, inject_vars, rx_injected, neighbor, arrived,
                 delivered, wired, bound_vars>>

(* poll_egress for one frame: transmit() hands out a token if tx_batch has *)
(* room, if necessary after one flush, and smoltcp writes the frame; when  *)
(* the ring took nothing there is no token and the frame waits.            *)
Transmit(q) ==
  /\ pc[q] = "idle" /\ panicked[q] = "no"
  /\ sent[q] < MaxSends
  /\ \/ /\ Len(tx_batch[q]) < TxCap
        /\ consume(q, tx_batch[q], "transmit", 0)
        /\ UNCHANGED tx_ring
     \/ /\ Len(tx_batch[q]) >= TxCap
        /\ flush_tx(q)
        /\ Flushed(q) > 0
        /\ consume(q, Unflushed(q), "transmit", 0)
  /\ UNCHANGED <<cache_vars, rx_ring, rx_batch, last_cache_version, pc,
                 to_insert, inject_vars, rx_injected, neighbor, arrived,
                 delivered, wired, bound_vars>>

(* inject_rx_packet: the public entry for a fabricated frame; it returns   *)
(* false without a change when rx_batch is full or the pool is empty.      *)
inject_rx_packet(q) ==
  /\ pc[q] = "idle" /\ panicked[q] = "no"
  /\ fabricated < MaxFabricated /\ arrived[q] < MaxFrames[q]
  /\ CanPush(q)
  /\ fabricated' = fabricated + 1
  /\ arrived' = [arrived EXCEPT ![q] = @ + 1]
  /\ rx_batch' = [rx_batch EXCEPT ![q] = Append(@, Data(arrived'[q]))]
  /\ free' = free - 1
  /\ UNCHANGED <<cache_vars, rx_ring, tx_ring, tx_batch, last_cache_version,
                 pc, to_insert, inject_vars, rx_injected, neighbor, delivered,
                 sent, wired, panicked, arps, expiries>>
-----------------------------------------------------------------------------
scan == InsertEntry \/ BumpVersion

inject_from_shared_cache(q) ==
  \/ LoadVersion(q)
  \/ LoadSnapshot(q)
  \/ \E ip \in Ips : PushEntry(q, ip)
  \/ PushFails(q)
  \/ InjectionDone(q)

receive(q) ==
  \/ PollRx(q)
  \/ q = 0 /\ scan
  \/ inject_from_shared_cache(q)
  \/ PopFrame(q)

Wire ==
  \/ \E ip \in Ips, mac \in Macs : WireArp(ip, mac)
  \/ \E q \in Queues : WireData(q) \/ NicTransmit(q)
  \/ \E q \in Queues, ip \in Ips : NeighborExpires(q, ip)

Next ==
  \/ Wire
  \/ \E q \in Queues : receive(q) \/ Transmit(q) \/ inject_rx_packet(q)

Spec == Init /\ [][Next]_vars

(* Every reactor iteration polls ingress, so a thread that has not         *)
(* panicked keeps executing receive().  The link may stay down: nothing    *)
(* obliges the NIC to transmit.                                            *)
FairSpec == Spec /\ \A q \in Queues : WF_vars(receive(q))
-----------------------------------------------------------------------------
Ids(frames) == {f.id : f \in {f \in Range(frames) : ~IsArp(f)}}
InFlight(q) == Ids(rx_ring[q]) \cup Ids(rx_batch[q])

TypeOK ==
  /\ inner \in Map /\ version \in Nat
  /\ free \in 0..PoolSize
  /\ \A q \in Queues :
       /\ Len(rx_ring[q]) <= RxRingSize /\ Len(tx_ring[q]) <= TxRingSize
       /\ Len(rx_batch[q]) <= RxCap /\ Len(tx_batch[q]) <= TxCap
       /\ Range(rx_batch[q]) \cup Range(rx_ring[q]) \subseteq
            ArpFrame \cup [kind : {"data"}, id : 1..arrived[q]]
       /\ pc[q] \in {"idle", "scan", "bump", "inject", "snapshot", "loop", "pop"}
       /\ cache_snapshot[q] \in Map /\ neighbor[q] \in Map
       /\ todo[q] \subseteq Ips
       /\ panicked[q] \in {"no", "receive", "transmit"}

(* The mbufs that each queue's rings and batches own.                      *)
MbufsHeld == [q \in Queues |-> Len(rx_ring[q]) + Len(rx_batch[q])
                                 + Len(tx_ring[q]) + Len(tx_batch[q])]

(* Every mbuf is in exactly one place: the pool, a NIC ring or a batch.    *)
(* Neither a lost answer, a partial flush, a failed injection nor a panic  *)
(* leaks one or frees one twice (Mbuf's Drop against mem::forget in tx).   *)
MbufsConserved == PoolSize = free + MapThenSumSet(LAMBDA q : MbufsHeld[q], Queues)

(* Frames reach the wire in the order in which smoltcp wrote them, however *)
(* often the ring takes only part of a burst: wire, ring and tx_batch read *)
(* in this order are consecutive token numbers.                            *)
TxInOrder ==
  \A q \in Queues :
    LET pending == tx_ring[q] \o tx_batch[q]
    IN  /\ wired[q] + Len(pending) = sent[q]
        /\ \A i \in 1..Len(pending) : pending[i] = wired[q] + i

(* No received frame is lost or handed to smoltcp twice on its way from    *)
(* the ring through rx_batch.                                              *)
ReceivedExactlyOnce ==
  \A q \in Queues :
    /\ InFlight(q) \cup Range(delivered[q]) = 1..arrived[q]
    /\ InFlight(q) \cap Range(delivered[q]) = {}
    /\ Len(delivered[q]) + Cardinality(InFlight(q)) = arrived[q]

(* The capacity check in transmit() is enough for the tokens transmit()    *)
(* hands out: consume() never panics on one of those.                      *)
TransmitTokenSafe == \A q \in Queues : panicked[q] # "transmit"

(* "Re-injecting already-known entries is harmless - smoltcp deduplicates" *)
(* (dpdk_device.rs:182): when a drained queue believes itself up to date,  *)
(* smoltcp's neighbor cache agrees with the shared cache, except for       *)
(* entries that expired.  With two entries it need not: frames left from   *)
(* an earlier injection lie below those of the next, are popped after      *)
(* them, and put an old MAC back.                                          *)
NeighborsFresh ==
  \A q \in Queues \ {0} :
    (/\ pc[0] # "bump" /\ pc[q] = "idle"
     /\ rx_batch[q] = <<>> /\ last_cache_version[q] = version)
      => \A ip \in Entries(inner) : neighbor[q][ip] \in {inner[ip], NoMac}

(* What SharedArpCache promises its clients, promised by the devices: the  *)
(* batches, the mempool and the rest of receive() add nothing to it.       *)
Cache == INSTANCE SharedArpCache WITH
  Consumers <- Queues \ {0},
  writer <- IF pc[0] = "bump" THEN "stored" ELSE "idle",
  pc <- [q \in Queues \ {0} |->
           IF pc[q] \in {"snapshot", "loop"} THEN pc[q] ELSE "idle"],
  current_version <- [q \in Queues \ {0} |-> current_version[q]],
  cache_snapshot <- [q \in Queues \ {0} |-> cache_snapshot[q]],
  todo <- [q \in Queues \ {0} |-> todo[q]],
  last_cache_version <- [q \in Queues \ {0} |-> last_cache_version[q]],
  rx_injected <- [q \in Queues \ {0} |-> rx_injected[q]]

ImplementsSharedArpCache == Cache!Spec

(* Every frame that reaches a queue's ring is eventually given to smoltcp. *)
FramesDelivered ==
  \A q \in Queues : \A i \in 1..MaxFrames[q] :
    (arrived[q] >= i) ~> (i \in Range(delivered[q]) \/ panicked[q] # "no")

(* An injection that fails is retried until it succeeds ("Return without   *)
(* updating cache version so we retry next iteration").                    *)
RetryCompletes ==
  \A q \in Queues \ {0} :
    (version # last_cache_version[q])
      ~> (version = last_cache_version[q] \/ panicked[q] # "no")

(* A fresh ARP reply for an address whose entry expired in the neighbor    *)
(* cache of another queue makes that queue learn it again, even though the *)
(* MAC did not change ("still bump version so consumers re-inject").       *)
RefreshHealsExpiry ==
  \A q \in Queues \ {0}, ip \in Ips :
    (neighbor[q][ip] = NoMac /\ \E f \in Range(rx_ring[0]) : IsArp(f) /\ f.ip = ip)
      ~> (neighbor[q][ip] # NoMac \/ panicked[q] # "no" \/ panicked[0] # "no")

(* "transmit() only returns a token when tx_batch has space": no token     *)
(* ever makes consume() hit its expect().                                  *)
TokensHaveSpace == \A q \in Queues : panicked[q] = "no"
=============================================================================
