--------------------------- MODULE MCServerRunner ---------------------------
(* The machines and the servers of the ServerRunner runs. *)
EXTENDS ServerRunner

Machine(kind, hw, cpus, max, rx, size) ==
    [kind |-> kind, hw_queues |-> hw, num_cpus |-> cpus, max_queues |-> max,
     max_rx_queues |-> rx, reta_size |-> size]

\* One queue; scaled up to the CPUs; limited by the user; more than the device
\* has; none; no RSS; and the servers over kernel sockets.
MCConfigs ==
    {Machine("dpdk", 1, 1, -1, 4, 4), Machine("dpdk", 1, 3, -1, 4, 5),
     Machine("dpdk", 2, 3, 2, 4, 3), Machine("dpdk", 2, 3, -1, 2, 4),
     Machine("dpdk", 1, 2, 0, 4, 4), Machine("dpdk", 2, 1, -1, 4, 0),
     Machine("tokio", 0, 3, -1, 0, 0), Machine("multi", 0, 2, -1, 0, 0),
     Machine("kimojio", 0, 2, -1, 0, 0)}
=============================================================================
