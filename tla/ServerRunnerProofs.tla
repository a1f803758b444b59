------------------------- MODULE ServerRunnerProofs -------------------------
(***************************************************************************)
(* Proofs about ServerRunner for every machine, any number of queues and   *)
(* any set of threads that call Eal::init: first the guard of eal.rs, then *)
(* what holds of the pool, the port and the workers around it.             *)
(***************************************************************************)
EXTENDS ServerRunner, FiniteSetTheorems, TLAPS

EalStates == {"idle", "failed", "panicked", "init", "clear", "held", "drop", "cleanup", "dropped"}

\* EalGuarded and what makes it inductive: who is inside has set the flag, and the
\* EAL is up exactly while a caller holds it.
EalInv ==
    /\ flag \in BOOLEAN /\ epc \in [Callers -> EalStates]
    /\ \A c, d \in Callers : InEal(c) /\ InEal(d) => c = d
    /\ \A c \in Callers : InEal(c) => flag
    /\ eal = "on" <=> \E c \in Callers : epc[c] \in {"held", "drop"}

\* Before anyone calls Eal::init the invariant holds.
LEMMA EalInit_Inv == Init => EalInv
BY DEF Init, EalInv, InEal, EalStates

\* A step of Eal::init or of the guard's drop keeps the invariant.
LEMMA EalStepInv ==
    ASSUME EalInv, NEW c \in Callers,
           EalSwap(c) \/ EalInit(c) \/ EalClear(c) \/ EalDrop(c) \/ EalCleanup(c) \/ EalDropped(c)
    PROVE  EalInv'
<1>1. CASE EalSwap(c)
  BY <1>1 DEF EalInv, EalStates, InEal, EalSwap, EalStep
<1>2. CASE EalInit(c)
  BY <1>2 DEF EalInv, EalStates, InEal, EalInit, EalStep
<1>3. CASE EalClear(c)
  BY <1>3 DEF EalInv, EalStates, InEal, EalClear, EalStep
<1>4. CASE EalDrop(c)
  BY <1>4 DEF EalInv, EalStates, InEal, EalDrop, EalStep
<1>5. CASE EalCleanup(c)
  BY <1>5 DEF EalInv, EalStates, InEal, EalCleanup, EalStep
<1>6. CASE EalDropped(c)
  BY <1>6 DEF EalInv, EalStates, InEal, EalDropped, EalStep
<1> QED BY <1>1, <1>2, <1>3, <1>4, <1>5, <1>6

\* Nothing but Eal::init and the guard's drop touches the flag or the EAL.
LEMMA EalUntouched ==
    ASSUME MainThread \/ CtrlC \/ (\E q \in Queues : Worker(q))
    PROVE  UNCHANGED ealVars
BY DEF MainThread, Setup, Spawn, ServeQueue0, Join, Cleanup, Unwind, Exit, CtrlC, Worker

\* Every step of the server and of the other callers keeps the invariant.
LEMMA EalNext == EalInv /\ [Next]_vars => EalInv'
<1> SUFFICES ASSUME EalInv, [Next]_vars PROVE EalInv'
  OBVIOUS
<1>1. ASSUME NEW c \in Callers, Eal(c) PROVE EalInv'
  BY <1>1, EalStepInv DEF Eal
<1>2. CASE UNCHANGED ealVars
  BY <1>2 DEF EalInv, InEal, ealVars
<1>3. CASE MainThread \/ CtrlC \/ (\E q \in Queues : Worker(q))
  BY <1>2, <1>3, EalUntouched
<1>4. CASE UNCHANGED vars
  BY <1>2, <1>4 DEF vars
<1> QED BY <1>1, <1>3, <1>4 DEF Next

\* eal.rs lets one caller at most between rte_eal_init and the end of
\* rte_eal_cleanup, and is_initialized() denies no EAL that nobody has begun to clean up,
\* whatever the number of threads that call Eal::init and drop their guards.
THEOREM EalIsGuarded == Spec => []EalGuarded
<1>1. EalInv => EalGuarded
  BY DEF EalInv, EalGuarded, InEal
<1> QED BY <1>1, EalInit_Inv, EalNext, PTL DEF Spec
-----------------------------------------------------------------------------
(* The resources of a DPDK server *)

MainStates == {"eal", "configure", "rxqueues", "start", "handler", "spawn", "serve",
               "stop", "close", "drop", "returned", "unwind", "unwound", "exited"}

\* Where run() owns the pool: from its creation to the end of cleanup.
Owning == {"configure", "rxqueues", "start", "handler", "spawn", "serve",
           "stop", "close", "drop"}

WorkStates == Running \cup {"none", "dropped", "ended", "dead"}

\* Where a worker owns its Arc, and where it is registered with the EAL.
Holding == {"spawned", "registered", "serve", "returned", "stopped"}

Enrolled == {"registered", "serve", "returned", "stopped", "dropped"}

Types ==
    /\ config \in Configs
    /\ work \in [Queues -> WorkStates]
    /\ arcs \subseteq {MainArc} \cup Queues
    /\ registered \subseteq Queues

\* A server over kernel sockets uses none of them.
NoDpdk ==
    /\ arcs = {} /\ pool = "none" /\ registered = {} /\ reta = <<>> /\ eal = "never"
    /\ main \in {"handler", "spawn", "serve", "returned", "unwind", "unwound", "exited"}
    /\ \A q \in Queues : work[q] \in {"none", "spawned", "serve", "check", "accept", "ended", "dead"}

\* Who owns an Arc, who is registered, and that an owned pool is alive.
Ownership ==
    /\ arcs # {} => pool = "live"
    /\ \A q \in Queues :
        /\ work[q] \in Holding => q \in arcs
        /\ work[q] \in Enrolled => q \in registered
        /\ q \in arcs /\ main # "exited" => work[q] \in Holding
        /\ q \in registered /\ main # "exited" => work[q] \in Enrolled

\* How far the main thread has come with the set-up of the port ...
Port ==
    /\ main \in MainStates
    /\ main \in Owning => MainArc \in arcs /\ epc[Main] = "held" /\ Queues # {}
    /\ main = "eal" => pool = "none"
    /\ main \in {"eal", "configure"} => nextq = 0 /\ rxqs = {}
    /\ main = "rxqueues" => nextq \in 0..num_queues(config) /\ rxqs = 0..(nextq - 1)
    /\ main \in {"start", "handler", "spawn", "serve"} => rxqs = Queues
    /\ main \in {"handler", "spawn", "serve"} => port = "started"
    /\ main = "returned" => pool = "freed"
    /\ \A i \in DOMAIN reta : reta[i] \in Queues

\* ... and with its workers.
Workers ==
    /\ main \in {"eal", "configure", "rxqueues", "start", "handler"} =>
          \A q \in Queues : work[q] = "none"
    /\ main \in {"start", "handler"} => nextq = 1
    /\ main = "spawn" =>
          /\ nextq \in 1..num_queues(config)
          /\ \A q \in Queues : work[q] = "none" <=> (q = 0 \/ q >= nextq)
    /\ main = "serve" => \A q \in Queues : work[q] # "none"
    /\ main \in {"stop", "close", "drop", "returned"} =>
          \A q \in Queues : work[q] \in {"ended", "dead"}

RunInv == Types /\ (~Dpdk => NoDpdk) /\ (Dpdk => Ownership /\ Port /\ Workers)

\* The number of queues is a number, and a DPDK server has one worker for each.
LEMMA QueueNumbers ==
    ASSUME config \in Configs
    PROVE  /\ num_queues(config) \in Nat
           /\ NumWorkers \in Nat
           /\ Dpdk => Queues = 0..(num_queues(config) - 1) /\ FirstSpawned = 1
           /\ MainArc \notin Queues
BY RunnerAssumption DEF num_queues, NumWorkers, Queues, Dpdk, MainArc, FirstSpawned

\* The machine does not change, nor what is derived from it.
LEMMA SameMachine ==
    ASSUME UNCHANGED config
    PROVE  /\ Queues' = Queues /\ Dpdk' = Dpdk /\ FirstSpawned' = FirstSpawned
           /\ num_queues(config)' = num_queues(config)
BY DEF Queues, NumWorkers, num_queues, Dpdk, FirstSpawned

\* Before the first step nothing is owned.
LEMMA RunInit == Init => RunInv
<1> SUFFICES ASSUME Init PROVE RunInv
  OBVIOUS
<1>1. Types
  BY DEF Init, Types, WorkStates
<1>2. ~Dpdk => NoDpdk
  BY DEF Init, NoDpdk
<1>3. Dpdk => Ownership
  BY DEF Init, Ownership, Holding, Enrolled
<1>4. Dpdk => Port
  BY DEF Init, Port, MainStates, Owning
<1>5. Dpdk => Workers
  BY DEF Init, Workers
<1> QED BY <1>1, <1>2, <1>3, <1>4, <1>5 DEF RunInv

\* Eal::init and the drop of a guard: main's own guard is held while run() owns
\* the pool, so only the guards of other threads can come and go.
LEMMA EalKeepsRunInv ==
    ASSUME RunInv, EalInv, NEW c \in Callers, Dpdk, Eal(c)
    PROVE  RunInv'
<1> USE SameMachine, RunnerAssumption
<1>1. UNCHANGED <<config, main, nextq, port, rxqs, reta, pool, arcs, work, registered>>
  BY DEF Eal, portVars
<1>2. main \in Owning => epc'[Main] = "held"
  <2> HAVE main \in Owning
  <2>1. epc[Main] = "held" /\ main \notin {"returned", "unwound"}
    BY DEF RunInv, Port, Owning
  <2> QED
    BY <2>1 DEF Eal, EalInv, EalSwap, EalInit, EalClear, EalCleanup, EalDropped, EalDrop, EalStep
<1>3. Types' /\ Dpdk' /\ Ownership' /\ Workers'
  BY <1>1 DEF RunInv, Types, Ownership, HasDevice, Workers
<1>4. Port'
  BY <1>1, <1>2 DEF RunInv, Port
<1> QED BY <1>3, <1>4 DEF RunInv

\* The set-up of pool and port, an expect() that fails included.
LEMMA SetupKeepsRunInv ==
    ASSUME RunInv, Dpdk, Setup
    PROVE  RunInv'
<1> DEFINE n == num_queues(config)
<1>0. config \in Configs
  BY DEF RunInv, Types
<1>1. /\ n \in Nat /\ Queues = 0..(n - 1) /\ FirstSpawned = 1 /\ MainArc \notin Queues
      /\ n' = n /\ Queues' = Queues /\ Dpdk'
      /\ UNCHANGED <<config, ealVars, work, registered>>
  BY <1>0, QueueNumbers, SameMachine DEF Setup
<1> HIDE DEF n
<1> USE <1>1 DEF RunInv, Types, HasDevice, ealVars, MainStates, Owning, Panic, portVars
<1>2. CASE CreatePool
  BY <1>2 DEF CreatePool, Ownership, Port, Workers, Holding, n
<1>3. CASE Configure
  BY <1>3 DEF Configure, Ownership, Port, Workers, n
<1>4. CASE SetupQueue
  <2>1. nextq \in 0..(n - 1) /\ rxqs = 0..(nextq - 1)
    BY <1>4 DEF SetupQueue, Port
  <2>2. nextq + 1 \in 0..n /\ rxqs \cup {nextq} = 0..((nextq + 1) - 1)
    BY <2>1
  <2>3. CASE Panic /\ UNCHANGED <<nextq, rxqs>>
    BY <1>4, <2>3 DEF SetupQueue, Ownership, Port, Workers, n
  <2>4. CASE rxqs' = rxqs \cup {nextq} /\ nextq' = nextq + 1 /\ UNCHANGED main
    BY <1>4, <2>2, <2>4 DEF SetupQueue, Ownership, Port, Workers, n
  <2> QED BY <1>4, <2>3, <2>4 DEF SetupQueue
<1>5. CASE ConfigureReta
  <2>1. rxqs = Queues /\ n > 0
    BY <1>5 DEF ConfigureReta, Port, n
  <2>2. \A i \in DOMAIN reta' : reta'[i] \in Queues
    <3>1. Cardinality(rxqs) = n
      BY <2>1, FS_Interval
    <3>2. config.reta_size \in Nat
      BY <1>0, RunnerAssumption
    <3>3. \A i \in 1..config.reta_size : reta_entry(i - 1, n) \in Queues
      BY <2>1, <3>2 DEF reta_entry
    <3>4. CASE reta' = [i \in 1..config.reta_size |-> reta_entry(i - 1, n)]
      BY <3>3, <3>4
    <3>5. ASSUME NEW q \in rxqs, reta' = [i \in 1..config.reta_size |-> q]
          PROVE  \A i \in DOMAIN reta' : reta'[i] \in Queues
      BY <2>1, <3>5
    <3>6. CASE UNCHANGED reta
      BY <3>6 DEF Port
    <3> QED
      BY <1>5, <3>1, <3>4, <3>5, <3>6 DEF ConfigureReta
  <2> QED
    BY <1>5, <2>1, <2>2 DEF ConfigureReta, Ownership, Port, Workers, n
<1>6. CASE Start
  BY <1>6 DEF Start, Ownership, Port, Workers, n
<1>7. CASE InstallHandler
  <2>1. n >= 1 /\ nextq = 1
    BY <1>7 DEF InstallHandler, Port, Workers
  <2>2. Ownership' /\ Port'
    BY <1>7, <2>1 DEF InstallHandler, Ownership, Port, Workers, n
  <2>3. \A q \in Queues : work[q] = "none" /\ (q = 0 \/ q >= nextq)
    BY <1>7, <2>1 DEF InstallHandler, Workers
  <2>4. Workers'
    BY <1>7, <2>1, <2>3 DEF InstallHandler, Workers, n
  <2> QED
    BY <1>7, <2>2, <2>4 DEF InstallHandler
<1> QED BY <1>2, <1>3, <1>4, <1>5, <1>6, <1>7 DEF Setup

\* The workers are started one after the other, queue 0 on the main thread.
LEMMA SpawnKeepsRunInv ==
    ASSUME RunInv, Dpdk, Spawn \/ ServeQueue0
    PROVE  RunInv'
<1> DEFINE n == num_queues(config)
<1>0. config \in Configs
  BY DEF RunInv, Types
<1>1. /\ n \in Nat /\ Queues = 0..(n - 1) /\ FirstSpawned = 1 /\ MainArc \notin Queues
      /\ n' = n /\ Queues' = Queues /\ Dpdk'
      /\ UNCHANGED <<config, ealVars, portVars, registered>>
  BY <1>0, QueueNumbers, SameMachine DEF Spawn, ServeQueue0
<1> HIDE DEF n
<1> USE <1>1 DEF RunInv, Types, HasDevice, ealVars, MainStates, Owning, Panic, portVars,
                 WorkStates, Running, Holding, Enrolled
<1>2. CASE Spawn
  BY <1>2, SMTT(30) DEF Spawn, Ownership, Port, Workers, n
<1>3. CASE ServeQueue0
  BY <1>3 DEF ServeQueue0, Ownership, Port, Workers, n
<1> QED BY <1>2, <1>3

\* After join no worker owns anything any more; cleanup, the unwinding of a panic
\* and the end of the process.
LEMMA EndKeepsRunInv ==
    ASSUME RunInv, Dpdk, Join \/ Cleanup \/ Unwind \/ Exit
    PROVE  RunInv'
<1>0. config \in Configs
  BY DEF RunInv, Types
<1>1. /\ FirstSpawned = 1 /\ MainArc \notin Queues
      /\ Queues' = Queues /\ Dpdk' /\ num_queues(config)' = num_queues(config)
      /\ UNCHANGED <<config, ealVars, rxqs, reta, nextq, registered>>
  BY <1>0, QueueNumbers, SameMachine DEF Join, Cleanup, Unwind, Exit, portVars
<1> USE <1>1 DEF RunInv, Types, HasDevice, ealVars, MainStates, Owning, portVars,
                 WorkStates, Running, Holding, Enrolled
<1>2. CASE Join
  BY <1>2 DEF Join, Joined, Ownership, Port, Workers
<1>3. CASE Cleanup
  <2>1. CASE Stop
    BY <1>3, <2>1 DEF Cleanup, Stop, MainStep, Ownership, Port, Workers
  <2>2. CASE Close
    BY <1>3, <2>2 DEF Cleanup, Close, MainStep, Ownership, Port, Workers
  <2>3. CASE DropPool
    BY <1>3, <2>3 DEF Cleanup, DropPool, Release, MainStep, Ownership, Port, Workers
  <2> QED BY <1>3, <2>1, <2>2, <2>3 DEF Cleanup
<1>4. CASE Unwind
  BY <1>4 DEF Unwind, Release, Ownership, Port, Workers
<1>5. CASE Exit
  BY <1>5 DEF Exit, Ownership, Port, Workers
<1> QED BY <1>2, <1>3, <1>4, <1>5

\* A worker gives up its Arc when it drops its device, its registration after that.
LEMMA WorkerKeepsRunInv ==
    ASSUME RunInv, Dpdk, NEW q \in Queues, main # "exited", Worker(q)
    PROVE  RunInv'
<1>0. config \in Configs
  BY DEF RunInv, Types
<1>1. /\ FirstSpawned = 1 /\ MainArc \notin Queues
      /\ Queues' = Queues /\ Dpdk' /\ num_queues(config)' = num_queues(config)
      /\ UNCHANGED <<config, ealVars, main, nextq, port, rxqs, reta>>
  BY <1>0, QueueNumbers, SameMachine DEF Worker
<1>2. work[q] \in Running \cup {"dropped"}
      => main \in {"spawn", "serve", "unwind", "unwound"}
  BY DEF RunInv, Port, Workers, MainStates, Running
<1> USE <1>1, <1>2 DEF RunInv, Types, HasDevice, ealVars, MainStates, Owning,
                 WorkStates, Running, Holding, Enrolled, WorkStep
<1>3. ASSUME work[q] \in Running, Die(q)
      PROVE  RunInv'
  <2>1. Types' /\ Ownership'
    BY <1>3 DEF Die, Release, Ownership
  <2>2. Port'
    BY <1>3 DEF Die, Release, Ownership, Port
  <2>3. Workers'
    BY <1>3 DEF Die, Workers
  <2> QED BY <2>1, <2>2, <2>3
<1>4. CASE Register(q)
  BY <1>3, <1>4 DEF Register, Ownership, Port, Workers
<1>5. CASE Bind(q)
  BY <1>3, <1>5 DEF Bind, Ownership, Port, Workers
<1>6. CASE AcceptLoop(q) \/ ConnectionEnds(q)
  BY <1>6 DEF AcceptLoop, Accept, LeaveLoop, ConnectionEnds, Ownership, Port, Workers
<1>7. CASE StopReactor(q)
  BY <1>7 DEF StopReactor, Ownership, Port, Workers
<1>8. CASE DropLocalSet(q)
  BY <1>8 DEF DropLocalSet, Release, Ownership, Port, Workers
<1>9. CASE Unregister(q)
  BY <1>9 DEF Unregister, Ownership, Port, Workers
<1>10. CASE Listen(q) \/ create_server_socket_reuseport(q)
  BY <1>10 DEF Listen, create_server_socket_reuseport, Dpdk
<1>11. CASE BlockingLoop(q)
  BY <1>11 DEF BlockingLoop, CheckShutdown, AcceptBlocking, Ownership, Port, Workers
<1> QED
  BY <1>4, <1>5, <1>6, <1>7, <1>8, <1>9, <1>10, <1>11 DEF Worker

\* A server over kernel sockets never touches what DPDK owns.
LEMMA KernelKeepsRunInv ==
    ASSUME RunInv, ~Dpdk, MainThread \/ (\E q \in Queues : Worker(q))
    PROVE  RunInv'
<1>1. UNCHANGED <<config, ealVars>>
  BY DEF MainThread, Setup, Spawn, ServeQueue0, Join, Cleanup, Unwind, Exit, Worker
<1>2. Queues' = Queues /\ ~Dpdk'
  BY <1>1, SameMachine
<1> USE <1>1, <1>2 DEF RunInv, Types, NoDpdk, ealVars, portVars, WorkStates, Running
<1>3. CASE Setup
  BY <1>3 DEF Setup, CreatePool, Configure, SetupQueue, ConfigureReta, Start, InstallHandler, Panic
<1>4. CASE Spawn \/ ServeQueue0
  BY <1>4 DEF Spawn, ServeQueue0, Panic
<1>5. CASE Join \/ Cleanup \/ Unwind \/ Exit
  BY <1>5 DEF Join, Cleanup, Stop, Close, DropPool, MainStep, Unwind, Release, Exit
<1>6. ASSUME NEW q \in Queues, Worker(q) PROVE RunInv'
  <2>1. CASE Die(q) /\ UNCHANGED <<main, reta>>
    BY <2>1 DEF Die, Release
  <2>2. CASE Listen(q) \/ create_server_socket_reuseport(q)
    BY <1>6, <2>1, <2>2 DEF Worker, Listen, create_server_socket_reuseport, WorkStep
  <2>3. CASE AcceptLoop(q) \/ ConnectionEnds(q)
    BY <1>6, <2>3 DEF Worker, AcceptLoop, Accept, LeaveLoop, ConnectionEnds, WorkStep
  <2>4. CASE BlockingLoop(q)
    BY <1>6, <2>4 DEF Worker, BlockingLoop, CheckShutdown, AcceptBlocking, WorkStep
  <2>5. ~(Register(q) \/ Bind(q) \/ StopReactor(q) \/ DropLocalSet(q) \/ Unregister(q))
    BY DEF Register, Bind, StopReactor, DropLocalSet, Unregister, WorkStep
  <2> QED BY <1>6, <2>2, <2>3, <2>4, <2>5 DEF Worker
<1> QED BY <1>3, <1>4, <1>5, <1>6 DEF MainThread

\* Every step of the server keeps the invariant.
LEMMA RunNext == RunInv /\ EalInv /\ [Next]_vars => RunInv'
<1> SUFFICES ASSUME RunInv, EalInv, [Next]_vars PROVE RunInv'
  OBVIOUS
<1>1. ASSUME UNCHANGED <<config, epc, eal, main, nextq, portVars, arcs, work, registered>>
      PROVE  RunInv'
  BY <1>1, SameMachine DEF RunInv, Types, NoDpdk, Ownership, Port, Workers, portVars
<1>2. CASE CtrlC \/ UNCHANGED vars
  BY <1>1, <1>2 DEF CtrlC, vars, ealVars
<1>3. ASSUME NEW c \in Callers, Dpdk, Eal(c) PROVE RunInv'
  BY <1>3, EalKeepsRunInv
<1>4. CASE MainThread
  BY <1>4, SetupKeepsRunInv, SpawnKeepsRunInv, EndKeepsRunInv, KernelKeepsRunInv DEF MainThread
<1>5. ASSUME NEW q \in Queues, main # "exited", Worker(q) PROVE RunInv'
  BY <1>5, WorkerKeepsRunInv, KernelKeepsRunInv
<1> QED BY <1>2, <1>3, <1>4, <1>5 DEF Next

\* What holds in every state of the server.
LEMMA RunAlways == Spec => [](RunInv /\ EalInv)
BY RunInit, RunNext, EalInit_Inv, EalNext, PTL DEF Spec

\* Unless run() itself panics, every worker of a DPDK server that holds a device has
\* the EAL up, the port started, its queue set up, the pool alive and its thread
\* registered, however many queues there are and whichever workers have panicked.
THEOREM DevicesKeepTheirResources == Spec => []ResourcesOutliveWorkers
<1>1. RunInv /\ EalInv => ResourcesOutliveWorkers
  <2> SUFFICES ASSUME RunInv, EalInv, ~Panicked, NEW q \in Queues, HasDevice(q)
               PROVE  /\ eal = "on" /\ port = "started" /\ q \in rxqs
                      /\ pool = "live" /\ q \in registered
    BY DEF ResourcesOutliveWorkers
  <2>1. main \in {"spawn", "serve"}
    BY DEF RunInv, Port, Workers, MainStates, HasDevice, Panicked
  <2>2. epc[Main] = "held" /\ port = "started" /\ rxqs = Queues
    BY <2>1 DEF RunInv, Port, HasDevice, Owning
  <2>3. eal = "on"
    BY <2>2, RunnerAssumption DEF EalInv
  <2>4. q \in arcs /\ q \in registered /\ pool = "live"
    BY DEF RunInv, Ownership, HasDevice, Holding, Enrolled
  <2> QED BY <2>2, <2>3, <2>4
<1> QED BY <1>1, RunAlways, PTL

\* The pool is freed under no worker however run() ends; run() frees it only when every
\* worker has ended; and when run() has returned, the EAL is cleaned up last.  All
\* this whether or not the port could be stopped and closed.
THEOREM PoolOutlivesItsUsers == Spec => []PoolFreedLast
<1>1. RunInv /\ EalInv => PoolFreedLast
  <2> SUFFICES ASSUME RunInv, EalInv PROVE PoolFreedLast
    OBVIOUS
  <2>1. CASE ~Dpdk
    BY <2>1 DEF RunInv, NoDpdk, PoolFreedLast, HasDevice
  <2>2. CASE Dpdk
    <3>1. pool = "freed" => \A q \in Queues : ~HasDevice(q)
      BY <2>2 DEF RunInv, Ownership, HasDevice, Holding
    <3>2. pool = "freed" /\ ~Panicked => \A q \in Queues : Joined(q)
      <4>1. pool = "freed" /\ ~Panicked => main = "returned"
        BY <2>2 DEF RunInv, Ownership, Port, MainStates, Owning, Panicked
      <4> QED BY <2>2, <4>1 DEF RunInv, Workers, Joined
    <3>3. main = "returned" => pool = "freed" /\ registered = {}
      BY <2>2 DEF RunInv, Types, Ownership, Port, Workers, Enrolled
    <3> QED BY <3>1, <3>2, <3>3 DEF PoolFreedLast
  <2> QED BY <2>1, <2>2
<1> QED BY <1>1, RunAlways, PTL

\* Whatever the size of the redirection table, the number of queues and the driver's
\* answer, once the workers are spawned no entry names a queue without a worker.
THEOREM FlowsAreServed == Spec => []FlowsHaveWorkers
<1>1. RunInv => FlowsHaveWorkers
  BY DEF RunInv, NoDpdk, Port, Workers, FlowsHaveWorkers
<1> QED BY <1>1, RunAlways, PTL
=============================================================================
