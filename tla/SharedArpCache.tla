--------------------------- MODULE SharedArpCache ---------------------------
(***************************************************************************)
(* The lock-free single-producer multi-consumer ARP cache of               *)
(* dpdk-net/src/device/arp_cache.rs, together with the way its two kinds   *)
(* of client use it (dpdk-net/src/device/dpdk_device.rs).                  *)
(*                                                                         *)
(*  - Queue 0's thread is the only writer.  insert() stores a new map and  *)
(*    THEN bumps the version counter: two shared-memory accesses, between  *)
(*    which every other thread may run.                                    *)
(*  - The thread of every other queue runs inject_from_shared_cache() from *)
(*    receive(): it loads the version, THEN the map, pushes one ARP frame  *)
(*    per entry into its own rx_batch and remembers the version it loaded  *)
(*    only if every entry was pushed.                                      *)
(*                                                                         *)
(* Every action makes at most one access to shared memory.  The atomics    *)
(* are modelled as sequentially consistent: the build targets x86-64,      *)
(* where loads are not reordered with loads nor stores with stores, and    *)
(* fetch_add is a locked instruction.                                      *)
(*                                                                         *)
(* Here a push either succeeds or fails for an unspecified reason; module  *)
(* DpdkDevice has the batch, the mempool and the order of the frames, and  *)
(* implements this specification.                                          *)
(***************************************************************************)
EXTENDS Naturals

CONSTANTS Ips,         \* IPv4 addresses that ARP replies announce
          Macs,        \* MAC addresses
          NoMac,       \* "no entry" in the HashMap
          Consumers,   \* the devices with queue_id # 0
          MaxVersion   \* bound: number of insert() calls

ASSUME ConstantsAssumption ==
  /\ NoMac \notin Macs
  /\ MaxVersion \in Nat

VARIABLES
  inner,               \* the published HashMap<Ipv4Addr, MacAddress>
  version,             \* the AtomicUsize
  writer,              \* "stored": insert() is between store and fetch_add
  pc,                  \* where each consumer is in inject_from_shared_cache
  current_version,     \* local of inject_from_shared_cache
  cache_snapshot,      \* local: the map the guard keeps alive
  todo,                \* local: entries the for loop has not reached yet
  last_cache_version,  \* field of DpdkDevice
  rx_injected          \* the MAC of the newest frame pushed for each IP

producer_vars == <<inner, version, writer>>
consumer_vars == <<pc, current_version, cache_snapshot, todo,
                   last_cache_version, rx_injected>>
vars == <<producer_vars, consumer_vars>>

Map == [Ips -> Macs \cup {NoMac}]
EmptyMap == [ip \in Ips |-> NoMac]
Entries(map) == {ip \in Ips : map[ip] # NoMac}
-----------------------------------------------------------------------------
(* SharedArpCache::new and the initial value of last_cache_version.        *)
Init ==
  /\ inner = EmptyMap
  /\ version = 0
  /\ writer = "idle"
  /\ pc = [c \in Consumers |-> "idle"]
  /\ current_version = [c \in Consumers |-> 0]
  /\ cache_snapshot = [c \in Consumers |-> EmptyMap]
  /\ todo = [c \in Consumers |-> {}]
  /\ last_cache_version = [c \in Consumers |-> 0]
  /\ rx_injected = [c \in Consumers |-> EmptyMap]
-----------------------------------------------------------------------------
(* inject_from_shared_cache returns: its locals go out of scope.           *)
Return(c) ==
  /\ pc' = [pc EXCEPT ![c] = "idle"]
  /\ current_version' = [current_version EXCEPT ![c] = 0]
  /\ cache_snapshot' = [cache_snapshot EXCEPT ![c] = EmptyMap]
  /\ todo' = [todo EXCEPT ![c] = {}]
-----------------------------------------------------------------------------
(* Plausible mistakes in this code; each replaces the definition named in  *)
(* its comment when the properties are tested for their strength.          *)

\* InsertBump: insert() bumps the version only on the refresh path
BumpForgotten ==
  /\ writer = "stored"
  /\ writer' = "idle"
  /\ UNCHANGED <<inner, version, consumer_vars>>

\* LoadSnapshot: inject only IPs never injected before, missing MAC updates
LoadUnknownEntries(c) ==
  /\ pc[c] = "snapshot"
  /\ cache_snapshot' = [cache_snapshot EXCEPT ![c] = inner]
  /\ todo' = [todo EXCEPT ![c] =
                {ip \in Entries(inner) : rx_injected[c][ip] = NoMac}]
  /\ pc' = [pc EXCEPT ![c] = "loop"]
  /\ UNCHANGED <<producer_vars, current_version, last_cache_version,
                 rx_injected>>

\* PushFails: the version is remembered although an entry was not pushed
FailureMovesVersion(c) ==
  /\ pc[c] = "loop"
  /\ todo[c] # {}
  /\ last_cache_version' =
       [last_cache_version EXCEPT ![c] = current_version[c]]
  /\ Return(c)
  /\ UNCHANGED <<producer_vars, rx_injected>>
-----------------------------------------------------------------------------
(* insert(ip, mac) when the entry is already there with this MAC: only the *)
(* version is bumped, so that consumers inject again.                      *)
InsertRefresh(ip, mac) ==
  /\ writer = "idle"
  /\ version < MaxVersion
  /\ inner[ip] = mac
  /\ version' = version + 1
  /\ UNCHANGED <<inner, writer, consumer_vars>>

(* insert(ip, mac) otherwise, up to and including inner.store(new_map).    *)
InsertStore(ip, mac) ==
  /\ writer = "idle"
  /\ version < MaxVersion
  /\ inner[ip] # mac
  /\ inner' = [inner EXCEPT ![ip] = mac]
  /\ writer' = "stored"
  /\ UNCHANGED <<version, consumer_vars>>

(* The fetch_add that ends insert().                                       *)
InsertBump ==
  /\ writer = "stored"
  /\ version' = version + 1
  /\ writer' = "idle"
  /\ UNCHANGED <<inner, consumer_vars>>
-----------------------------------------------------------------------------
(* cache.version(), and the early return when it is the one last injected. *)
(* The early return changes nothing, so only the other outcome is a step.  *)
LoadVersion(c) ==
  /\ pc[c] = "idle"
  /\ version # last_cache_version[c]
  /\ current_version' = [current_version EXCEPT ![c] = version]
  /\ pc' = [pc EXCEPT ![c] = "snapshot"]
  /\ UNCHANGED <<producer_vars, cache_snapshot, todo, last_cache_version,
                 rx_injected>>

(* cache.snapshot(): the for loop will run over exactly these entries.     *)
LoadSnapshot(c) ==
  /\ pc[c] = "snapshot"
  /\ cache_snapshot' = [cache_snapshot EXCEPT ![c] = inner]
  /\ todo' = [todo EXCEPT ![c] = Entries(inner)]
  /\ pc' = [pc EXCEPT ![c] = "loop"]
  /\ UNCHANGED <<producer_vars, current_version, last_cache_version,
                 rx_injected>>

(* One iteration of the loop that pushes its frame; a HashMap is iterated  *)
(* in no particular order.                                                 *)
PushEntry(c, ip) ==
  /\ pc[c] = "loop"
  /\ ip \in todo[c]
  /\ rx_injected' = [rx_injected EXCEPT ![c][ip] = cache_snapshot[c][ip]]
  /\ todo' = [todo EXCEPT ![c] = @ \ {ip}]
  /\ UNCHANGED <<producer_vars, pc, current_version, cache_snapshot,
                 last_cache_version>>

(* An iteration that cannot push (batch full, no mbuf): return at once,    *)
(* keeping last_cache_version so that the next receive() tries again.      *)
PushFails(c) ==
  /\ pc[c] = "loop"
  /\ todo[c] # {}
  /\ Return(c)
  /\ UNCHANGED <<producer_vars, last_cache_version, rx_injected>>

(* The loop ended: the version loaded before the map is remembered.        *)
InjectionDone(c) ==
  /\ pc[c] = "loop"
  /\ todo[c] = {}
  /\ last_cache_version' =
       [last_cache_version EXCEPT ![c] = current_version[c]]
  /\ Return(c)
  /\ UNCHANGED <<producer_vars, rx_injected>>
-----------------------------------------------------------------------------
insert(ip, mac) == InsertRefresh(ip, mac) \/ InsertStore(ip, mac)

inject_from_shared_cache(c) ==
  \/ LoadVersion(c)
  \/ LoadSnapshot(c)
  \/ \E ip \in Ips : PushEntry(c, ip)
  \/ PushFails(c)
  \/ InjectionDone(c)

Next ==
  \/ \E ip \in Ips, mac \in Macs : insert(ip, mac)
  \/ InsertBump
  \/ \E c \in Consumers : inject_from_shared_cache(c)

Spec == Init /\ [][Next]_vars

(* A thread that has begun insert() finishes it, and the reactor of every  *)
(* consumer keeps calling receive().  Nothing makes ARP replies arrive.    *)
FairSpec ==
  /\ Spec
  /\ WF_vars(InsertBump)
  /\ \A c \in Consumers : WF_vars(inject_from_shared_cache(c))
-----------------------------------------------------------------------------
TypeOK ==
  /\ inner \in Map
  /\ version \in Nat
  /\ writer \in {"idle", "stored"}
  /\ pc \in [Consumers -> {"idle", "snapshot", "loop"}]
  /\ current_version \in [Consumers -> Nat]
  /\ cache_snapshot \in [Consumers -> Map]
  /\ todo \in [Consumers -> SUBSET Ips]
  /\ last_cache_version \in [Consumers -> Nat]
  /\ rx_injected \in [Consumers -> Map]

(* A consumer takes the fast path of inject_from_shared_cache ("skip if    *)
(* cache version unchanged") only when it has pushed every entry the cache *)
(* holds, with its current MAC: no interleaving of insert's store and bump *)
(* with the consumer's two loads makes it skip an entry it never saw.      *)
FastPathIsSafe ==
  \A c \in Consumers :
    (writer = "idle" /\ last_cache_version[c] = version)
      => \A ip \in Entries(inner) : rx_injected[c][ip] = inner[ip]

(* A consumer never remembers a version that insert has not published yet, *)
(* so a later bump can never be mistaken for one already handled.          *)
VersionNeverAhead ==
  \A c \in Consumers :
    /\ last_cache_version[c] <= version
    /\ pc[c] # "idle" => /\ last_cache_version[c] < current_version[c]
                         /\ current_version[c] <= version

(* The strengthening that makes FastPathIsSafe inductive: if the version a *)
(* consumer loaded is still the newest and no insert is half done, then    *)
(* the map it loaded afterwards is still the published one, and what the   *)
(* loop has passed has been pushed.                                        *)
LoopCoversSnapshot ==
  \A c \in Consumers :
    pc[c] = "loop" =>
      /\ todo[c] \subseteq Entries(cache_snapshot[c])
      /\ \A ip \in Entries(cache_snapshot[c]) \ todo[c] :
           rx_injected[c][ip] = cache_snapshot[c][ip]
      /\ (writer = "idle" /\ current_version[c] = version)
           => cache_snapshot[c] = inner

IInv == TypeOK /\ VersionNeverAhead /\ LoopCoversSnapshot /\ FastPathIsSafe

(* last_cache_version only grows, and it moves only to the version loaded  *)
(* by the injection that is ending: a failed injection never moves it.     *)
VersionMovesOnSuccess ==
  [][\A c \in Consumers :
       last_cache_version'[c] # last_cache_version[c] =>
         /\ last_cache_version'[c] > last_cache_version[c]
         /\ \A ip \in Entries(cache_snapshot[c]) :
              rx_injected[c][ip] = cache_snapshot[c][ip]]_vars

(* When no more ARP replies arrive and injections stop failing, every      *)
(* queue ends up having pushed the whole cache and stays there ("This      *)
(* allows other queues to learn MACs that queue 0 discovered").            *)
ConsumersConverge ==
  (<>[][\A c \in Consumers : ~PushFails(c)]_vars)
    => \A c \in Consumers :
         <>[](\A ip \in Entries(inner) : rx_injected[c][ip] = inner[ip])
=============================================================================
