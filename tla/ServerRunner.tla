---------------------------- MODULE ServerRunner ----------------------------
(***************************************************************************)
(* Life of a multi-threaded server: DpdkServerRunner::run (main thread,    *)
(* one worker thread per queue, queue 0 on the main thread), the servers   *)
(* over kernel sockets (tokio_server.rs, with a thread per core or with    *)
(* tokio's own threads; kimojio_server.rs), the EAL guard of eal.rs, the   *)
(* set-up of a port by EthDevBuilder::build, and the accept loops.         *)
(*                                                                         *)
(* An expect() that fails unwinds its thread: a worker's panic is          *)
(* swallowed by join(), one of the main thread ends the process once its   *)
(* locals are dropped.                                                     *)
(***************************************************************************)
EXTENDS Integers, FiniteSets, Sequences

CONSTANTS
    Configs,     \* [kind, hw_queues, num_cpus, max_queues (-1: None), max_rx_queues, reta_size]
    Callers,     \* threads that call Eal::init
    Main,        \* the one that runs the server
    MaxConns     \* connections accepted by one worker

ASSUME RunnerAssumption ==
    /\ Main \in Callers
    /\ MaxConns \in Nat
    /\ Configs \subseteq [kind : {"dpdk", "tokio", "multi", "kimojio"},
                           hw_queues : Nat, num_cpus : Nat \ {0}, max_queues : Nat \cup {-1},
                           max_rx_queues : Nat, reta_size : Nat]

VARIABLES
    config,
    flag,       \* EAL_INITIALIZED
    eal,        \* external: "never", "on", "off" (cleaned up) or "partly" cleaned up
    epc,        \* Callers -> step of Eal::init or of Eal's drop
    main,       \* what the main thread is doing
    nextq,      \* the queue its set-up or spawn loop is at
    port,       \* "closed", "configured", "started", "stopped"
    rxqs,       \* queues of the port that are set up
    reta,       \* the redirection table, <<>> when there is none
    pool,       \* "none", "live", "freed"
    arcs,       \* holders of an Arc<MemPool>: MainArc and worker numbers
    cancel,     \* the CancellationToken or the shutdown flag
    work,       \* queue -> what its worker is doing
    registered, \* workers registered with the EAL
    conns       \* queue -> connection tasks of its worker

ealVars  == <<flag, eal, epc>>
portVars == <<port, rxqs, reta, pool>>
vars == <<config, ealVars, main, nextq, portVars, arcs, cancel, work, registered, conns>>

-----------------------------------------------------------------------------
(* Plausible mistakes in the definitions below *)

RoundRobinFromOne(i, n) == i % (n + 1)

FlagFirst(c) ==
    /\ epc[c] = "drop"
    /\ flag' = FALSE
    /\ epc' = [epc EXCEPT ![c] = "cleanup"]
    /\ UNCHANGED eal

NoWait(q) == TRUE

FreeWithMain(holder) ==
    /\ arcs' = arcs \ {holder}
    /\ pool' = IF holder = -1 /\ pool = "live" THEN "freed" ELSE pool

CancelUnseen(q) == conns[q] = 0 /\ cancel

(* The number of queues, and the table that spreads flows over them *)

num_queues(c) ==
    LET n == IF c.num_cpus > c.hw_queues THEN c.num_cpus ELSE c.hw_queues
    IN  IF c.max_queues # -1 /\ c.max_queues < n THEN c.max_queues ELSE n

Dpdk == config.kind = "dpdk"

MainArc == -1

\* With tokio's own threads there is one accept loop, on the main thread.
NumWorkers ==
    CASE Dpdk -> num_queues(config)
      [] config.kind = "multi" -> 1
      [] OTHER -> config.num_cpus

Queues == 0..(NumWorkers - 1)

reta_entry(i, n) == i % n

\* kimojio's main thread only waits; the others serve queue 0 themselves.
FirstSpawned == IF config.kind = "kimojio" THEN 0 ELSE 1

Running == {"spawned", "registered", "serve", "check", "accept", "returned", "stopped"}

\* A worker has a device from its creation until the LocalSet is dropped.
HasDevice(q) == Dpdk /\ work[q] \in {"serve", "returned", "stopped"}

Init ==
    /\ config \in Configs
    /\ flag = FALSE /\ eal = "never" /\ epc = [c \in Callers |-> "idle"]
    /\ main = IF Dpdk THEN "eal" ELSE "spawn"
    /\ nextq = IF Dpdk THEN 0 ELSE FirstSpawned
    /\ port = "closed" /\ rxqs = {} /\ reta = <<>> /\ pool = "none" /\ arcs = {}
    /\ cancel = FALSE
    /\ work = [q \in Queues |-> "none"]
    /\ registered = {}
    /\ conns = [q \in Queues |-> 0]
-----------------------------------------------------------------------------
(* Eal::init and Eal::drop, each step one access to shared state *)

EalStep(c, from, to) == epc[c] = from /\ epc' = [epc EXCEPT ![c] = to]

EalSwap(c) ==
    /\ \/ flag /\ EalStep(c, "idle", "failed")
       \/ ~flag /\ EalStep(c, "idle", "init")
    /\ flag' = TRUE
    /\ UNCHANGED eal

\* rte_eal_init (external): it can fail, and does after an earlier success.  An
\* argument with a null byte panics before it, and the flag stays set.
EalInit(c) ==
    \/ EalStep(c, "init", "panicked") /\ UNCHANGED <<eal, flag>>
    \/ eal = "never" /\ EalStep(c, "init", "held") /\ eal' = "on" /\ UNCHANGED flag
    \/ EalStep(c, "init", "clear") /\ UNCHANGED <<eal, flag>>

EalClear(c) ==
    /\ EalStep(c, "clear", "failed")
    /\ flag' = FALSE
    /\ UNCHANGED eal

\* The error of a rte_eal_cleanup that releases only a part is ignored.
EalCleanup(c) ==
    /\ EalStep(c, "drop", "cleanup")
    /\ eal' \in {"off", "partly"}
    /\ UNCHANGED flag

EalDropped(c) ==
    /\ EalStep(c, "cleanup", "dropped")
    /\ flag' = FALSE
    /\ UNCHANGED eal

\* Another thread drops its guard at any time; main when run() has returned.
EalDrop(c) ==
    /\ c # Main \/ main \in {"returned", "unwound"}
    /\ EalStep(c, "held", "drop")
    /\ UNCHANGED <<eal, flag>>

Eal(c) ==
    /\ EalSwap(c) \/ EalInit(c) \/ EalClear(c) \/ EalDrop(c) \/ EalCleanup(c) \/ EalDropped(c)
    /\ UNCHANGED <<config, main, nextq, portVars, arcs, cancel, work, registered, conns>>

(* The main thread: set-up *)

MainStep(from, to) == main = from /\ main' = to

\* An Arc is dropped; the last one frees the pool.
Release(holder) ==
    /\ arcs' = arcs \ {holder}
    /\ pool' = IF arcs' = {} /\ pool = "live" THEN "freed" ELSE pool

Panic == main' = "unwind"

\* MemPool::create; a pool of no mbufs cannot be made.
CreatePool ==
    /\ main = "eal" /\ epc[Main] = "held"
    /\ \/ /\ num_queues(config) > 0
          /\ main' = "configure" /\ pool' = "live" /\ arcs' = {MainArc}
       \/ Panic /\ UNCHANGED <<pool, arcs>>
    /\ UNCHANGED <<nextq, port, rxqs, reta>>

\* EthDev::configure refuses more queues than the device has.
Configure ==
    /\ main = "configure"
    /\ \/ /\ num_queues(config) <= config.max_rx_queues
          /\ main' = "rxqueues" /\ port' = "configured"
       \/ Panic /\ UNCHANGED port
    /\ UNCHANGED <<nextq, rxqs, reta, pool, arcs>>

SetupQueue ==
    /\ main = "rxqueues" /\ nextq \in Queues
    /\ \/ rxqs' = rxqs \cup {nextq} /\ nextq' = nextq + 1 /\ UNCHANGED main
       \/ Panic /\ UNCHANGED <<nextq, rxqs>>
    /\ UNCHANGED <<port, reta, pool, arcs>>

\* configure_rss_reta: an error is only logged and leaves the driver's table,
\* which names any of the queues set up.
ConfigureReta ==
    /\ main = "rxqueues" /\ nextq \notin Queues
    /\ main' = "start" /\ nextq' = FirstSpawned
    /\ LET n == Cardinality(rxqs)
       IN  IF n > 1 /\ config.reta_size > 0
           THEN \/ reta' = [i \in 1..config.reta_size |-> reta_entry(i - 1, n)]
                \/ \E q \in rxqs : reta' = [i \in 1..config.reta_size |-> q]
           ELSE UNCHANGED reta
    /\ UNCHANGED <<port, rxqs, pool, arcs>>

Start ==
    /\ main = "start"
    /\ \/ port' = "started" /\ main' = "handler"
       \/ Panic /\ UNCHANGED port
    /\ UNCHANGED <<nextq, rxqs, reta, pool, arcs>>

\* mac_addr and ctrlc::set_handler, whose failure panics.  kimojio's handler is
\* set when its workers already run.
InstallHandler ==
    /\ main = "handler"
    /\ main' = (IF Dpdk THEN "spawn" ELSE "serve") \/ Panic
    /\ UNCHANGED <<nextq, portVars, arcs>>

Setup ==
    /\ CreatePool \/ Configure \/ SetupQueue \/ ConfigureReta \/ Start \/ InstallHandler
    /\ UNCHANGED <<config, ealVars, cancel, work, registered, conns>>

(* The main thread: workers *)

\* spawn_workers; the thread's closure holds its Arc from the start.
Spawn ==
    /\ main = "spawn" /\ nextq \in Queues
    /\ \/ /\ work' = [work EXCEPT ![nextq] = "spawned"]
          /\ arcs' = IF Dpdk THEN arcs \cup {nextq} ELSE arcs
          /\ nextq' = nextq + 1
          /\ UNCHANGED main
       \/ Panic /\ UNCHANGED <<work, arcs, nextq>>
    /\ UNCHANGED <<config, ealVars, portVars, cancel, registered, conns>>

\* The main thread becomes the worker of queue 0, or waits.
ServeQueue0 ==
    /\ main = "spawn" /\ nextq \notin Queues
    /\ main' = IF FirstSpawned = 0 THEN "handler" ELSE "serve"
    /\ work' = IF FirstSpawned = 0 THEN work ELSE [work EXCEPT ![0] = "spawned"]
    /\ arcs' = IF Dpdk THEN arcs \cup {0} ELSE arcs
    /\ UNCHANGED <<config, ealVars, nextq, portVars, cancel, registered, conns>>

\* join() waits for a thread to end, by return or by panic.
Joined(q) == work[q] \in {"ended", "dead"}

Join ==
    /\ main = "serve"
    /\ FirstSpawned = 1 => work[0] = "ended"
    /\ \A q \in Queues \ {0} : Joined(q)
    /\ FirstSpawned = 0 => Joined(0)
    /\ main' = IF Dpdk THEN "stop" ELSE "returned"
    /\ UNCHANGED <<config, ealVars, nextq, portVars, arcs, cancel, work, registered, conns>>

\* cleanup: stop and close, each of which may fail; run() goes on and drops the
\* pool, also under a port that is not stopped.
Stop == MainStep("stop", "close") /\ port' \in {"stopped", port} /\ UNCHANGED <<pool, arcs>>

Close == MainStep("close", "drop") /\ port' \in {"closed", port} /\ UNCHANGED <<pool, arcs>>

DropPool == MainStep("drop", "returned") /\ Release(MainArc) /\ UNCHANGED port

Cleanup ==
    /\ Stop \/ Close \/ DropPool
    /\ UNCHANGED <<config, ealVars, nextq, rxqs, reta, cancel, work, registered, conns>>

\* A panic in the main thread's own worker unwinds at once: join is not reached.
Unwind ==
    /\ \/ main = "unwind"
       \/ main = "serve" /\ FirstSpawned = 1 /\ work[0] = "dead"
    /\ main' = "unwound"
    /\ Release(MainArc)
    /\ UNCHANGED <<config, ealVars, nextq, port, rxqs, reta, cancel, work, registered, conns>>

\* The process ends when the caller of run() has dropped its guard; threads
\* that still run end with it.
Exit ==
    /\ main \in {"returned", "unwound", "eal"}
    /\ Dpdk => epc[Main] \in {"dropped", "failed", "panicked"}
    /\ main' = "exited"
    /\ work' = [q \in Queues |-> IF work[q] = "none" THEN "none" ELSE "ended"]
    /\ UNCHANGED <<config, ealVars, nextq, portVars, arcs, cancel, registered, conns>>

\* Ctrl-C, at any time after the handler is installed; the multi-threaded
\* server hears it only while it waits in select!.
CtrlC ==
    /\ ~cancel /\ main \in (IF Dpdk THEN {"spawn", "serve"} ELSE {"serve"})
    /\ config.kind = "multi" => work[0] = "serve"
    /\ cancel' = TRUE
    /\ UNCHANGED <<config, ealVars, main, nextq, portVars, arcs, work, registered, conns>>

(* A worker *)

WorkStep(q, from, to) == work[q] = from /\ work' = [work EXCEPT ![q] = to]

\* A panic drops what the worker holds: device, registration, tasks.
Die(q) ==
    /\ work' = [work EXCEPT ![q] = "dead"]
    /\ Release(q)
    /\ registered' = registered \ {q}

Register(q) ==
    /\ Dpdk /\ work[q] = "spawned"
    /\ \/ /\ WorkStep(q, "spawned", "registered")
          /\ registered' = registered \cup {q}
          /\ UNCHANGED <<pool, arcs>>
       \/ Die(q)
    /\ UNCHANGED <<cancel, conns>>

\* create_device, the interface, the reactor, and the listener's bind.
Bind(q) ==
    /\ work[q] = "registered"
    /\ \/ WorkStep(q, "registered", "serve") /\ UNCHANGED <<pool, arcs, registered>>
       \/ Die(q)
    /\ UNCHANGED <<cancel, conns>>

\* The listening socket of a server over kernel sockets: a failure panics, or
\* (kimojio) ends the worker with an error.
Listen(q) ==
    /\ config.kind \in {"tokio", "multi"} /\ work[q] = "spawned"
    /\ \/ WorkStep(q, "spawned", "serve") /\ UNCHANGED <<pool, arcs, registered>>
       \/ Die(q)
    /\ UNCHANGED <<cancel, conns>>

create_server_socket_reuseport(q) ==
    /\ config.kind = "kimojio"
    /\ WorkStep(q, "spawned", "check") \/ WorkStep(q, "spawned", "ended")
    /\ UNCHANGED <<pool, arcs, registered, cancel, conns>>

\* select! in the accept loop: a connection becomes a task of its own, an
\* error is logged and the loop goes on, and a cancelled token ends it.
Accept(q) ==
    /\ work[q] = "serve" /\ conns[q] < MaxConns
    /\ conns' = [conns EXCEPT ![q] = @ + 1]
    /\ UNCHANGED <<work, pool, arcs, registered, cancel>>

ConnectionEnds(q) ==
    /\ work[q] \in Running /\ conns[q] > 0
    /\ conns' = [conns EXCEPT ![q] = @ - 1]
    /\ UNCHANGED <<work, pool, arcs, registered, cancel>>

Cancelled(q) == cancel

LeaveLoop(q) ==
    /\ Cancelled(q)
    /\ WorkStep(q, "serve", IF Dpdk THEN "returned" ELSE "ended")
    /\ conns' = IF Dpdk THEN conns ELSE [conns EXCEPT ![q] = 0]
    /\ UNCHANGED <<pool, arcs, registered, cancel>>

AcceptLoop(q) == Accept(q) \/ LeaveLoop(q)

\* The kimojio loop looks at the flag, then waits in accept for as long as it
\* takes; an accept error ends the worker.
CheckShutdown(q) ==
    /\ WorkStep(q, "check", IF cancel THEN "ended" ELSE "accept")
    /\ UNCHANGED <<pool, arcs, registered, cancel, conns>>

AcceptBlocking(q) ==
    /\ \/ conns[q] < MaxConns /\ WorkStep(q, "accept", "check")
          /\ conns' = [conns EXCEPT ![q] = @ + 1]
       \/ WorkStep(q, "accept", "ended") /\ UNCHANGED conns
    /\ UNCHANGED <<pool, arcs, registered, cancel>>

BlockingLoop(q) == CheckShutdown(q) \/ AcceptBlocking(q)

\* reactor_cancel is stored and the reactor task awaited.
StopReactor(q) ==
    /\ WorkStep(q, "returned", "stopped")
    /\ UNCHANGED <<pool, arcs, registered, cancel, conns>>

\* Dropping the LocalSet drops the connection tasks, and with the last of them
\* the reactor's inner state: the device, its Arc before its batches (the order of
\* its fields; the mbufs of the batches are counted in DpdkDevice, not here).
DropLocalSet(q) ==
    /\ WorkStep(q, "stopped", "dropped")
    /\ conns' = [conns EXCEPT ![q] = 0]
    /\ Release(q)
    /\ UNCHANGED <<registered, cancel>>

\* _dpdk_registration is the first local, so it is dropped last.
Unregister(q) ==
    /\ WorkStep(q, "dropped", "ended")
    /\ registered' = registered \ {q}
    /\ UNCHANGED <<pool, arcs, cancel, conns>>

Worker(q) ==
    /\ \/ Register(q) \/ Bind(q) \/ Listen(q) \/ AcceptLoop(q)
       \/ create_server_socket_reuseport(q) \/ BlockingLoop(q) \/ ConnectionEnds(q)
       \/ StopReactor(q) \/ DropLocalSet(q) \/ Unregister(q)
    /\ UNCHANGED <<config, ealVars, main, nextq, port, rxqs, reta>>

MainThread == Setup \/ Spawn \/ ServeQueue0 \/ Join \/ Cleanup \/ Unwind \/ Exit

Next ==
    \/ \E c \in Callers : Dpdk /\ main # "exited" /\ Eal(c)
    \/ MainThread
    \/ CtrlC
    \/ \E q \in Queues : main # "exited" /\ Worker(q)

\* Threads run; nothing makes a client connect or close.
Progress(q) ==
    \/ Register(q) \/ Bind(q) \/ Listen(q) \/ LeaveLoop(q)
    \/ create_server_socket_reuseport(q) \/ CheckShutdown(q)
    \/ StopReactor(q) \/ DropLocalSet(q) \/ Unregister(q)

WorkerProgress(q) ==
    /\ q \in Queues /\ main # "exited" /\ Progress(q)
    /\ UNCHANGED <<config, ealVars, main, nextq, port, rxqs, reta>>

Fairness ==
    /\ WF_vars(MainThread)
    /\ WF_vars(main # "exited" /\ Eal(Main))
    /\ \A q \in UNION {0..(c.hw_queues + c.num_cpus) : c \in Configs} :
            WF_vars(WorkerProgress(q))

Spec == Init /\ [][Next]_vars /\ Fairness
-----------------------------------------------------------------------------
TypeOK ==
    /\ config \in Configs
    /\ eal \in {"never", "on", "off", "partly"}
    /\ port \in {"closed", "configured", "started", "stopped"}
    /\ pool \in {"none", "live", "freed"}
    /\ arcs \subseteq {MainArc} \cup Queues /\ registered \subseteq Queues

InEal(c) == epc[c] \in {"init", "clear", "held", "drop", "cleanup"}

Panicked == main \in {"unwind", "unwound", "exited"}

\* Unless run() itself has panicked, a worker that holds a device has everything
\* the device polls under it: the EAL is up, the port started, its queue set up,
\* the pool alive and its thread registered.
ResourcesOutliveWorkers ==
    ~Panicked => \A q \in Queues : HasDevice(q) =>
        /\ eal = "on" /\ port = "started" /\ q \in rxqs
        /\ pool = "live" /\ q \in registered

\* However run() ends, the pool is not freed under a worker that has a device; run()
\* frees it only when every worker has ended, whichever of them panicked; and when
\* run() has returned, the EAL is cleaned up last.  Nothing is said of the port:
\* cleanup drops the errors of stop and close and the pool goes all the same.
PoolFreedLast ==
    /\ pool = "freed" => \A q \in Queues : ~HasDevice(q)
    /\ pool = "freed" /\ ~Panicked => \A q \in Queues : Joined(q)
    /\ eal \in {"off", "partly"} /\ main = "returned" => pool = "freed" /\ registered = {}

\* The guard of eal.rs: whatever the threads that call Eal::init, one at most is
\* between its rte_eal_init and the end of its rte_eal_cleanup, and
\* is_initialized() never denies an EAL that nobody has begun to clean up.
EalGuarded ==
    /\ \A c, d \in Callers : InEal(c) /\ InEal(d) => c = d
    /\ eal = "on" => flag

\* Once the workers are spawned, every entry of the redirection table names a
\* queue some worker polls (or polled until it panicked or was cancelled).
FlowsHaveWorkers ==
    main = "serve" => \A i \in DOMAIN reta : reta[i] \in Queues /\ work[reta[i]] # "none"

\* After Ctrl-C the process ends, and its clean-up with it, whatever connections
\* are open and whichever workers panicked.  The exception is a kimojio core that
\* waits in accept(): it looks at the flag only after its next connection.
ShutdownCompletes ==
    cancel ~> (main = "exited" \/ \E q \in Queues : work[q] = "accept")
=============================================================================
