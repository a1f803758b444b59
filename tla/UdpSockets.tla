----------------------------- MODULE UdpSockets -----------------------------
(***************************************************************************)
(* The two UDP sockets of the repository, talking to each other: the raw   *)
(* socket of the test harness (dpdk-net-test/src/udp.rs), which works on   *)
(* mbufs and a queue pair, and the async socket of dpdk-net                *)
(* (socket/udp.rs), a smoltcp socket polled by the reactor, here used by a *)
(* task that echoes.                                                       *)
(*                                                                         *)
(* A datagram is its number.  The NIC, the network (which loses) and       *)
(* smoltcp are external.                                                   *)
(***************************************************************************)
EXTENDS Naturals, Sequences, SequencesExt, FiniteSetsExt

CONSTANTS
    MaxSends,      \* datagrams the raw socket's owner sends
    MaxStrays,     \* frames for the raw socket's NIC that are not its datagrams
    PoolSize,      \* mbufs of its mempool
    BatchSize,     \* capacity of tx_batch and rx_batch
    RingSize,      \* descriptors of its NIC's rings
    RxPackets, TxPackets,   \* rx_buffer_packets and tx_buffer_packets
    Truncated,     \* datagrams larger than the buffer given to recv_from
    Oversized,     \* datagrams larger than tx_payload, tx_buffer_packets * max_packet_size bytes
    Unreachable    \* datagrams whose sender's address never resolves

ASSUME UdpAssumption ==
    /\ {MaxSends, MaxStrays, PoolSize} \subseteq Nat
    /\ {BatchSize, RingSize, RxPackets, TxPackets} \subseteq Nat \ {0}

VARIABLES
    \* the raw socket
    bound,
    pool,       \* the attached mempool: "none", "live" or "freed"
    call,       \* "idle", "flush" (in flush), "drop" (in drop's flush), "gone"
    free,       \* mbufs in the pool
    tx_batch, rx_batch,
    held,       \* mbufs that recv_from gave to the caller
    sends,      \* datagrams the owner has tried to send
    echoed,     \* what recv_from has returned
    \* its NIC, and the network
    strays, txr, rxr, there, back,
    \* the async socket and its task
    open, rx, tx,
    rwaker, swaker,    \* is the task's waker registered?
    woken,             \* is the task scheduled?
    pc,                \* "recv", "send" or "done"
    cur,               \* the datagram being echoed
    received,          \* what recv_from has returned
    answered,          \* what send_to has returned Ok for
    out                \* what left the socket

rawVars   == <<bound, pool, call, free, tx_batch, rx_batch, held, sends, echoed>>
nicVars   == <<strays, txr, rxr>>
asyncVars == <<open, rx, tx, rwaker, swaker, woken, pc, cur, received, answered, out>>
vars == <<rawVars, nicVars, there, back, asyncVars>>

Stray == 0

\* Queues and a mempool are attached, and the mempool exists.
attached == pool = "live"

\* The mbufs of the pool that are somewhere else.
Outstanding == Len(tx_batch) + Len(rx_batch) + held + Len(txr) + Len(rxr)
-----------------------------------------------------------------------------
(* Plausible mistakes in the definitions below *)

FlushWhenAllFit ==
    /\ call \in {"flush", "drop"}
    /\ IF tx_batch = <<>>
       THEN call' = (IF call = "flush" THEN "idle" ELSE "gone") /\ UNCHANGED <<tx_batch, txr>>
       ELSE /\ Len(tx_batch) <= RingSize - Len(txr) /\ txr' = txr \o tx_batch
            /\ tx_batch' = <<>> /\ UNCHANGED call
    /\ UNCHANGED <<bound, pool, free, rx_batch, held, sends, echoed, strays, rxr, there, back, asyncVars>>

LeakWhenFull == free' = free - 1 /\ UNCHANGED tx_batch

DropWhenFull == answered' = Append(answered, cur) /\ pc' = "recv" /\ UNCHANGED <<swaker, woken>>

ForgetWaker == woken' = FALSE /\ UNCHANGED rwaker

Init ==
    /\ bound = FALSE /\ pool = "none" /\ call = "idle"
    /\ free = PoolSize /\ tx_batch = <<>> /\ rx_batch = <<>> /\ held = 0
    /\ sends = 0 /\ echoed = <<>>
    /\ strays = 0 /\ txr = <<>> /\ rxr = <<>> /\ there = <<>> /\ back = <<>>
    /\ open = TRUE /\ rx = <<>> /\ tx = <<>>
    /\ rwaker = FALSE /\ swaker = FALSE /\ woken = TRUE
    /\ pc = "recv" /\ cur = Stray /\ received = <<>> /\ answered = <<>> /\ out = <<>>
-----------------------------------------------------------------------------
(* The raw socket *)

\* Port 0 is refused.
bind ==
    /\ bound' \in {bound, TRUE}
    /\ UNCHANGED <<pool, call, free, tx_batch, rx_batch, held, sends, echoed, nicVars>>

\* A pool attached before is freed.  With none of its mbufs outstanding the
\* socket goes on with the new pool; otherwise they are left without a pool,
\* whatever is done with them next is undefined, and the model goes no further.
attach_queues ==
    /\ IF Outstanding = 0 THEN pool' = "live" /\ free' = PoolSize
                          ELSE pool' = "freed" /\ UNCHANGED free
    /\ UNCHANGED <<bound, call, tx_batch, rx_batch, held, sends, echoed, nicVars>>

\* try_push gives the mbuf back, and its drop returns it to the pool.
PushFails == UNCHANGED <<tx_batch, free>>

\* NotBound, InvalidEndpoint and QueueError before an mbuf is allocated,
\* BufferFull when the pool or the batch has no room.
send_to ==
    /\ sends < MaxSends /\ sends' = sends + 1
    /\ \/ UNCHANGED <<tx_batch, free>>      \* the remote endpoint is unspecified
       \/ ~bound /\ UNCHANGED <<tx_batch, free>>
       \/ ~attached /\ UNCHANGED <<tx_batch, free>>
       \/ free = 0 /\ UNCHANGED <<tx_batch, free>>
       \/ /\ bound /\ attached /\ free > 0 /\ Len(tx_batch) = BatchSize
          /\ PushFails
       \/ /\ bound /\ attached /\ free > 0 /\ Len(tx_batch) < BatchSize
          /\ tx_batch' = Append(tx_batch, sends') /\ free' = free - 1
    /\ UNCHANGED <<bound, pool, call, rx_batch, held, echoed, nicVars>>

\* rte_eth_tx_burst takes what the ring has room for.
Taken == Min({Len(tx_batch), RingSize - Len(txr)})

\* TxQueue::tx: what is taken leaves the front of the batch.
tx_burst ==
    /\ txr' = txr \o SubSeq(tx_batch, 1, Taken)
    /\ tx_batch' = SubSeq(tx_batch, Taken + 1, Len(tx_batch))

\* flush is called, by the owner or by drop; an empty batch needs no queue.
flush ==
    /\ call' \in {"flush", "drop"}
    /\ UNCHANGED <<bound, pool, free, tx_batch, rx_batch, held, sends, echoed, nicVars>>

\* Its loop: one burst after another until the batch is empty.  When drop is over
\* the fields are dropped in their order, mempool before rx_batch.
FlushLoop ==
    /\ call \in {"flush", "drop"}
    /\ IF tx_batch = <<>>
       THEN /\ \/ call = "flush" /\ call' = "idle" /\ UNCHANGED pool
               \/ call = "drop" /\ call' = "gone" /\ pool' = IF attached THEN "freed" ELSE pool
            /\ UNCHANGED <<tx_batch, txr>>
       ELSE tx_burst /\ UNCHANGED <<call, pool>>
    /\ UNCHANGED <<bound, free, rx_batch, held, sends, echoed, strays, rxr, there, back, asyncVars>>

\* RxQueue::rx fills what is left of the batch.
rx_burst ==
    LET n == Min({BatchSize - Len(rx_batch), Len(rxr)})
    IN  /\ rx_batch' = rx_batch \o SubSeq(rxr, 1, n)
        /\ rxr' = SubSeq(rxr, n + 1, Len(rxr))

\* Without queues poll fails.
poll ==
    /\ attached /\ rx_burst
    /\ UNCHANGED <<bound, pool, call, free, tx_batch, held, sends, echoed, strays, txr>>

\* The newest frame of the batch; one that is not for this socket is freed, and
\* the caller told QueueError.
recv_from ==
    /\ bound /\ rx_batch # <<>>
    /\ rx_batch' = Front(rx_batch)
    /\ IF Last(rx_batch) = Stray
       THEN free' = free + 1 /\ UNCHANGED <<held, echoed>>
       ELSE /\ held' = held + 1 /\ echoed' = Append(echoed, Last(rx_batch))
            /\ UNCHANGED free
    /\ UNCHANGED <<bound, pool, call, tx_batch, sends, nicVars>>

\* The caller drops a received mbuf.
FreeMbuf ==
    /\ held > 0 /\ held' = held - 1 /\ free' = free + 1
    /\ UNCHANGED <<bound, pool, call, tx_batch, rx_batch, sends, echoed, nicVars>>

Raw ==
    /\ call = "idle" /\ pool # "freed"
    /\ bind \/ attach_queues \/ send_to \/ flush \/ poll \/ recv_from \/ FreeMbuf
    /\ UNCHANGED <<there, back, asyncVars>>

(* The NIC of the raw socket and the network *)

NicTransmit ==
    /\ txr # <<>> /\ pool # "freed"
    /\ txr' = Tail(txr) /\ there' = Append(there, Head(txr)) /\ free' = free + 1
    /\ UNCHANGED <<bound, pool, call, tx_batch, rx_batch, held, sends, echoed,
                   strays, rxr, back, asyncVars>>

\* A frame is dropped when there is no mbuf or no descriptor for it.
NicReceive(frame) ==
    IF free > 0 /\ Len(rxr) < RingSize /\ attached
    THEN rxr' = Append(rxr, frame) /\ free' = free - 1
    ELSE UNCHANGED <<rxr, free>>

Arrives ==
    /\ call # "gone" /\ pool # "freed"
    /\ \/ back # <<>> /\ back' = Tail(back) /\ NicReceive(Head(back)) /\ UNCHANGED strays
       \/ strays < MaxStrays /\ strays' = strays + 1 /\ NicReceive(Stray) /\ UNCHANGED back
    /\ UNCHANGED <<bound, pool, call, tx_batch, rx_batch, held, sends, echoed,
                   txr, there, asyncVars>>

Lose ==
    /\ \/ there # <<>> /\ there' = Tail(there) /\ UNCHANGED back
       \/ back # <<>> /\ back' = Tail(back) /\ UNCHANGED there
    /\ UNCHANGED <<rawVars, nicVars, asyncVars>>

(* The reactor and smoltcp, for the async socket *)

WakeRecv == rwaker' = FALSE /\ woken' = (woken \/ rwaker)

WakeSend == swaker' = FALSE /\ woken' = (woken \/ swaker)

Ingress ==
    /\ there # <<>> /\ there' = Tail(there)
    /\ IF open /\ Len(rx) < RxPackets
       THEN rx' = Append(rx, Head(there)) /\ WakeRecv
       ELSE UNCHANGED <<rx, rwaker, woken>>
    /\ UNCHANGED <<rawVars, nicVars, back, open, tx, swaker, pc, cur, received, answered, out>>

\* A datagram whose neighbor is not known stays at the head of the buffer.
Egress ==
    /\ tx # <<>> /\ Head(tx) \notin Unreachable
    /\ tx' = Tail(tx) /\ out' = Append(out, Head(tx)) /\ back' = Append(back, Head(tx))
    /\ WakeSend
    /\ UNCHANGED <<rawVars, nicVars, there, open, rx, rwaker, pc, cur, received, answered>>

(* The async socket and the task that owns it *)

\* smoltcp's close empties both buffers and wakes both wakers.
close_socket ==
    /\ open' = FALSE /\ rx' = <<>> /\ tx' = <<>>
    /\ rwaker' = FALSE /\ swaker' = FALSE

\* close takes &self: another task calls it while a future is pending.
close ==
    /\ open /\ close_socket
    /\ woken' = (woken \/ rwaker \/ swaker)
    /\ UNCHANGED <<pc, cur, received, answered, out>>

RecvPending == rwaker' = TRUE /\ woken' = FALSE

\* UdpRecvFuture::poll; a truncated datagram is consumed and reported.
PollRecv ==
    /\ pc = "recv" /\ woken
    /\ IF rx = <<>>
       THEN RecvPending /\ UNCHANGED <<rx, pc, cur, received>>
       ELSE /\ rx' = Tail(rx)
            /\ IF Head(rx) \in Truncated THEN UNCHANGED <<pc, cur, received>>
               ELSE pc' = "send" /\ cur' = Head(rx) /\ received' = Append(received, Head(rx))
            /\ UNCHANGED <<rwaker, woken>>
    /\ UNCHANGED <<open, tx, swaker, answered, out>>

SendPending == swaker' = TRUE /\ woken' = FALSE /\ UNCHANGED <<pc, answered>>

\* UdpSendFuture::poll; a closed socket makes it return Unaddressable.  BufferFull:
\* no packet slot is left, or the payload ring has no contiguous room beside what
\* is queued, or it is smaller than the datagram, empty or not.
PollSend ==
    /\ pc = "send" /\ woken
    /\ \/ ~open /\ pc' = "done" /\ UNCHANGED <<tx, answered, swaker, woken>>
       \/ open /\ (tx # <<>> \/ cur \in Oversized) /\ SendPending /\ UNCHANGED tx
       \/ /\ open /\ Len(tx) < TxPackets /\ cur \notin Oversized
          /\ tx' = Append(tx, cur) /\ answered' = Append(answered, cur) /\ pc' = "recv"
          /\ UNCHANGED <<swaker, woken>>
    /\ UNCHANGED <<open, rx, rwaker, cur, received, out>>

\* The task ends, its recv future with it, and the socket is dropped.
DropSocket ==
    /\ pc = "recv" /\ pc' = "done"
    /\ close_socket /\ woken' = FALSE
    /\ UNCHANGED <<cur, received, answered, out>>

Task == (PollRecv \/ PollSend) /\ UNCHANGED <<rawVars, nicVars, there, back>>

Owner == (close \/ DropSocket) /\ UNCHANGED <<rawVars, nicVars, there, back>>

Next ==
    \/ Raw \/ FlushLoop \/ NicTransmit \/ Arrives \/ Lose
    \/ Ingress \/ Egress \/ Task \/ Owner

\* flush spins; the NIC drains its ring; the reactor polls; the executor polls a
\* task that was woken.  Nothing else need happen.
Spec ==
    /\ Init /\ [][Next]_vars
    /\ WF_vars(FlushLoop) /\ WF_vars(NicTransmit) /\ WF_vars(Egress) /\ WF_vars(Task)
-----------------------------------------------------------------------------
TypeOK ==
    /\ call \in {"idle", "flush", "drop", "gone"} /\ pool \in {"none", "live", "freed"}
    /\ free \in 0..PoolSize
    /\ Len(tx_batch) <= BatchSize /\ Len(rx_batch) <= BatchSize
    /\ Len(txr) <= RingSize /\ Len(rxr) <= RingSize
    /\ Len(rx) <= RxPackets /\ Len(tx) <= TxPackets
    /\ pc \in {"recv", "send", "done"}

\* Up to the moment its pool is freed, every mbuf of the raw socket's pool is in
\* the pool, in a batch, in a ring or with a caller, whichever of its calls fail
\* half-way (a full batch, a frame of another protocol, a burst taken in part) and
\* also when a new pool was attached.
RawMbufsConserved == free + Outstanding = PoolSize

\* The claim of mbuf.rs:14-15, "a safe, buffer-like interface", whose mbuf "is
\* automatically freed when dropped": the mbufs that the drop of the raw socket
\* frees with its batches go back to a mempool that still exists.
DroppedMbufsHavePool ==
    call = "gone" /\ pool = "freed" => tx_batch = <<>> /\ rx_batch = <<>>

\* No datagram is made up, duplicated or reordered by the async socket: what
\* send_to accepted leaves in that order, and all of it unless the socket is
\* closed; and the raw socket gets an echo once at most.
DatagramsExact ==
    /\ \A i, j \in DOMAIN received : i < j => received[i] < received[j]
    /\ IsPrefix(answered, received)
    /\ IsPrefix(out \o tx, answered) /\ (open => out \o tx = answered)
    /\ ToSet(echoed) \subseteq ToSet(out) /\ IsInjective(echoed)

\* flush returns, and so does the drop that calls it, however few descriptors the
\* NIC has compared with the batch, as long as the NIC drains its ring.
FlushReturns == call \in {"flush", "drop"} ~> call \in {"idle", "gone"}

\* A pending recv_from is woken for a datagram that arrives and a pending send_to
\* for room in the buffer or for close.  Two sends may wait for ever: one behind a
\* datagram whose neighbor never resolves, and one of a datagram that is larger
\* than the whole payload buffer.
WaitersServed ==
    /\ (pc = "recv" /\ rx # <<>>) ~> (pc # "recv" \/ rx = <<>>)
    /\ (pc = "send") ~> (pc # "send" \/ cur \in Oversized \/ (tx # <<>> /\ Head(tx) \in Unreachable))
=============================================================================
