------------------------ MODULE SharedArpCacheProofs ------------------------
(***************************************************************************)
(* Proofs about SharedArpCache for every number of queues, addresses and   *)
(* inserts.  IInv is proved inductive, one action at a time; the           *)
(* properties of the runs follow from it.                                  *)
(***************************************************************************)
EXTENDS SharedArpCache, TLAPS

(* Type correctness of SharedArpCache and of the locals and fields that    *)
(* inject_from_shared_cache works on.                                      *)
THEOREM TypeCorrect == Spec => []TypeOK
<1>1. Init => TypeOK
  BY ConstantsAssumption DEF Init, TypeOK, Map, EmptyMap
<1>2. TypeOK /\ [Next]_vars => TypeOK'
  <2> SUFFICES ASSUME TypeOK, [Next]_vars
               PROVE  TypeOK'
    OBVIOUS
  <2> USE ConstantsAssumption DEF TypeOK, Map, Entries, producer_vars,
                                  consumer_vars, EmptyMap
  <2>1. ASSUME NEW ip \in Ips, NEW mac \in Macs, insert(ip, mac)
        PROVE  TypeOK'
    BY <2>1 DEF insert, InsertRefresh, InsertStore
  <2>2. CASE InsertBump
    BY <2>2 DEF InsertBump
  <2>3. ASSUME NEW c \in Consumers, inject_from_shared_cache(c)
        PROVE  TypeOK'
    <3>1. CASE LoadVersion(c)
      BY <3>1 DEF LoadVersion
    <3>2. CASE LoadSnapshot(c)
      BY <3>2 DEF LoadSnapshot
    <3>3. ASSUME NEW ip \in Ips, PushEntry(c, ip)
          PROVE  TypeOK'
      BY <3>3 DEF PushEntry
    <3>4. CASE PushFails(c)
      BY <3>4 DEF PushFails, Return
    <3>5. CASE InjectionDone(c)
      BY <3>5 DEF InjectionDone, Return
    <3> QED
      BY <2>3, <3>1, <3>2, <3>3, <3>4, <3>5 DEF inject_from_shared_cache
  <2>4. CASE UNCHANGED vars
    BY <2>4 DEF vars
  <2> QED
    BY <2>1, <2>2, <2>3, <2>4 DEF Next
<1> QED
  BY <1>1, <1>2, PTL DEF Spec

(* The initial cache is empty and every consumer has seen version 0.       *)
LEMMA InitIInv == Init => IInv
<1> SUFFICES ASSUME Init PROVE IInv
  OBVIOUS
<1>1. TypeOK
  BY ConstantsAssumption DEF Init, TypeOK, Map, EmptyMap
<1>2. VersionNeverAhead /\ LoopCoversSnapshot /\ FastPathIsSafe
  BY DEF Init, VersionNeverAhead, LoopCoversSnapshot, FastPathIsSafe,
         Entries, EmptyMap
<1> QED
  BY <1>1, <1>2 DEF IInv

(* insert() keeps the invariant: a store alone raises writer, which voids  *)
(* every claim about the published map until the bump; the bump makes the  *)
(* version larger than any a consumer has loaded.                          *)
LEMMA ProducerKeepsIInv ==
  ASSUME IInv, TypeOK',
         \/ \E ip \in Ips, mac \in Macs : insert(ip, mac)
         \/ InsertBump
  PROVE  IInv'
<1> USE DEF IInv, TypeOK, consumer_vars
<1>1. CASE InsertBump
  <2>1. VersionNeverAhead'
    BY <1>1 DEF InsertBump, VersionNeverAhead
  <2>2. \A c \in Consumers : /\ last_cache_version[c] # version'
                             /\ pc[c] = "loop" => current_version[c] # version'
    BY <1>1 DEF InsertBump, VersionNeverAhead
  <2>3. LoopCoversSnapshot' /\ FastPathIsSafe'
    BY <1>1, <2>2 DEF InsertBump, LoopCoversSnapshot, FastPathIsSafe, Entries
  <2> QED
    BY <2>1, <2>3
<1>2. ASSUME NEW ip \in Ips, NEW mac \in Macs, InsertStore(ip, mac)
      PROVE  IInv'
  <2>1. writer' # "idle"
    BY <1>2 DEF InsertStore
  <2> QED
    BY <1>2, <2>1 DEF InsertStore, VersionNeverAhead, LoopCoversSnapshot,
                      FastPathIsSafe, Entries
<1>3. ASSUME NEW ip \in Ips, NEW mac \in Macs, InsertRefresh(ip, mac)
      PROVE  IInv'
  <2>1. VersionNeverAhead'
    BY <1>3 DEF InsertRefresh, VersionNeverAhead
  <2>2. \A c \in Consumers : /\ last_cache_version[c] # version'
                             /\ pc[c] = "loop" => current_version[c] # version'
    BY <1>3 DEF InsertRefresh, VersionNeverAhead
  <2>3. LoopCoversSnapshot' /\ FastPathIsSafe'
    BY <1>3, <2>2 DEF InsertRefresh, LoopCoversSnapshot, FastPathIsSafe, Entries
  <2> QED
    BY <2>1, <2>3
<1> QED
  BY <1>1, <1>2, <1>3 DEF insert

(* inject_from_shared_cache() keeps the invariant, step by step.  The map  *)
(* is loaded after the version, so LoadSnapshot establishes its last part; *)
(* InjectionDone turns LoopCoversSnapshot into FastPathIsSafe.             *)
LEMMA ConsumerKeepsIInv ==
  ASSUME IInv, TypeOK',
         NEW c \in Consumers, inject_from_shared_cache(c)
  PROVE  IInv'
<1> USE DEF IInv, TypeOK, producer_vars
<1>1. CASE LoadVersion(c)
  BY <1>1 DEF LoadVersion, VersionNeverAhead, LoopCoversSnapshot,
              FastPathIsSafe, Entries
<1>2. CASE LoadSnapshot(c)
  <2>1. VersionNeverAhead' /\ FastPathIsSafe'
    BY <1>2 DEF LoadSnapshot, VersionNeverAhead, FastPathIsSafe, Entries
  <2>2. LoopCoversSnapshot'
    BY <1>2 DEF LoadSnapshot, LoopCoversSnapshot, Entries
  <2> QED
    BY <2>1, <2>2
<1>3. ASSUME NEW ip \in Ips, PushEntry(c, ip)
      PROVE  IInv'
  <2>1. VersionNeverAhead'
    BY <1>3 DEF PushEntry, VersionNeverAhead
  <2>2. LoopCoversSnapshot'
    BY <1>3 DEF PushEntry, LoopCoversSnapshot, Entries, Map
  <2>3. last_cache_version[c] # version
    BY <1>3 DEF PushEntry, VersionNeverAhead
  <2>4. FastPathIsSafe'
    BY <1>3, <2>3 DEF PushEntry, FastPathIsSafe, Entries, Map
  <2> QED
    BY <2>1, <2>2, <2>4
<1>4. CASE PushFails(c)
  BY <1>4 DEF PushFails, Return, VersionNeverAhead, LoopCoversSnapshot,
              FastPathIsSafe, Entries
<1>5. CASE InjectionDone(c)
  <2>1. VersionNeverAhead'
    BY <1>5 DEF InjectionDone, Return, VersionNeverAhead
  <2>2. LoopCoversSnapshot'
    BY <1>5 DEF InjectionDone, Return, LoopCoversSnapshot, Entries
  <2>3. FastPathIsSafe'
    BY <1>5 DEF InjectionDone, Return, LoopCoversSnapshot, FastPathIsSafe, Entries
  <2> QED
    BY <2>1, <2>2, <2>3
<1> QED
  BY <1>1, <1>2, <1>3, <1>4, <1>5 DEF inject_from_shared_cache

(* The inductive invariant holds in every behaviour.                       *)
THEOREM Invariance == Spec => []IInv
<1>1. TypeOK /\ TypeOK' /\ IInv /\ [Next]_vars => IInv'
  <2> SUFFICES ASSUME TypeOK', IInv, [Next]_vars
               PROVE  IInv'
    OBVIOUS
  <2>1. CASE UNCHANGED vars
    BY <2>1 DEF vars, producer_vars, consumer_vars, IInv, TypeOK,
                VersionNeverAhead, LoopCoversSnapshot, FastPathIsSafe, Entries
  <2>2. CASE Next
    BY <2>2, ProducerKeepsIInv, ConsumerKeepsIInv DEF Next
  <2> QED
    BY <2>1, <2>2
<1> QED
  BY <1>1, InitIInv, TypeCorrect, PTL DEF Spec

(* No consumer ever skips an injection it still owes: for any number of    *)
(* queues, addresses and inserts, the fast path of                         *)
(* inject_from_shared_cache is taken only when nothing is missing.         *)
THEOREM FastPathSafe == Spec => []FastPathIsSafe
<1>1. IInv => FastPathIsSafe
  BY DEF IInv
<1> QED
  BY <1>1, Invariance, PTL

(* last_cache_version moves forward only, and only when the whole snapshot *)
(* has been pushed.                                                        *)
THEOREM VersionMovesOnlyOnSuccess == Spec => VersionMovesOnSuccess
<1> DEFINE Step ==
      \A c \in Consumers :
        last_cache_version'[c] # last_cache_version[c] =>
          /\ last_cache_version'[c] > last_cache_version[c]
          /\ \A ip \in Entries(cache_snapshot[c]) :
               rx_injected[c][ip] = cache_snapshot[c][ip]
<1>1. IInv /\ Next => Step
  <2> SUFFICES ASSUME IInv, Next, NEW c \in Consumers,
                      last_cache_version'[c] # last_cache_version[c]
               PROVE  /\ last_cache_version'[c] > last_cache_version[c]
                      /\ \A ip \in Entries(cache_snapshot[c]) :
                           rx_injected[c][ip] = cache_snapshot[c][ip]
    OBVIOUS
  <2>1. InjectionDone(c)
    BY DEF Next, insert, InsertRefresh, InsertStore, InsertBump,
           inject_from_shared_cache, LoadVersion, LoadSnapshot, PushEntry,
           PushFails, InjectionDone, consumer_vars, IInv, TypeOK
  <2> QED
    BY <2>1 DEF InjectionDone, Return, IInv, TypeOK, VersionNeverAhead,
                LoopCoversSnapshot
<1>2. IInv /\ [Next]_vars => [Step]_vars
  BY <1>1
<1>3. VersionMovesOnSuccess <=> [][Step]_vars
  BY DEF VersionMovesOnSuccess
<1> HIDE DEF Step
<1> QED
  BY <1>2, <1>3, Invariance, PTL DEF Spec
=============================================================================
