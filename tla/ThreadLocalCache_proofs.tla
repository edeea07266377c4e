------------------------ MODULE ThreadLocalCache_proofs ------------------------
(***************************************************************************)
(* Proofs about the caches of a thread for every set of plugins, vm_keys and *)
(* VMs, every size of a clean-up's chunk and every length of the queues.     *)
(* They hold for a host that makes no foreign call to a VM that has failed:   *)
(* a VM that fails a second time erases the cache entries of its successor.   *)
(*                                                                         *)
(* The second part is about the command line host (WasmManager.tla), for any  *)
(* number of threads, projects, names, VMs and packets.  It shares the lemmas *)
(* about what a loop has done after so many turns (CountUp, ConcatFacts).     *)
(***************************************************************************)
EXTENDS ThreadLocalCache, WasmManager, FiniteSetTheorems, WellFoundedInduction, TLAPS

Healthy(v) == vm[v] # Absent /\ ~vm[v].failed

(* The entry of a vm_key is a VM of that key that works, and every VM that      *)
(* works is the entry of its key.                                             *)
WorkingVmIsCached ==
    /\ \A k \in VmKeys : Live(localWasms[k]) =>
          Healthy(localWasms[k]) /\ vm[localWasms[k]].key = k
    /\ \A v \in Vms : Healthy(v) => localWasms[vm[v].key] = v

(* A VM lives as long as it has a handle. *)
VmsAreUsed == \A v \in Vms : vm[v] # Absent => InUse(v, handles)

(* Handles, and the callbacks that erase entries of plugins, are of plugins of   *)
(* the VM's key.                                                              *)
KeysMatch ==
    /\ \A p \in Plugins, v \in Vms : <<p, v>> \in handles => vm[v].key = VmKeyOf[p]
    /\ \A v \in Vms : vm[v] # Absent => \A p \in vm[v].onFail : VmKeyOf[p] = vm[v].key

(* The handles of a VM that works are the cached ones. *)
HandlesAreCached ==
    \A p \in Plugins, v \in Vms : (<<p, v>> \in handles /\ Healthy(v)) => localPlugins[p] = v

Inv == CachesOK /\ WorkingVmIsCached /\ VmsAreUsed /\ KeysMatch /\ HandlesAreCached

-----------------------------------------------------------------------------
Entries == Vms \cup {Absent, Expired}

(* The cache after has the live entries of the one before. *)
SameLive(after, before) ==
    \A key \in DOMAIN before, v \in Vms : after[key] = v <=> before[key] = v

(* A clean-up, after a look-up that missed, takes no live entry. *)
LEMMA CleanedSame ==
  ASSUME NEW K, NEW cache \in [K -> Entries], NEW key \in K, ~Live(cache[key]), NEW queue
  PROVE  /\ CacheAfterGc(Missed(cache, key), queue) \in [K -> Entries]
         /\ SameLive(CacheAfterGc(Missed(cache, key), queue), cache)
  <1> DEFINE missed == Missed(cache, key)
             clean == CacheAfterGc(missed, queue)
  <1>1. missed \in [K -> Entries] /\ SameLive(missed, cache)
    BY MarksAssumption DEF Missed, Entries, Live, SameLive
  <1> HIDE DEF missed
  <1>2. clean = [q \in K |-> IF q \in ToSet(Checked(queue)) /\ missed[q] = Expired
                               THEN Absent ELSE missed[q]]
    BY <1>1 DEF CacheAfterGc
  <1> HIDE DEF clean
  <1>3. clean \in [K -> Entries] /\ SameLive(clean, missed)
    BY <1>1, <1>2, MarksAssumption DEF Entries, SameLive
  <1> QED BY <1>1, <1>3 DEF SameLive, missed, clean

LEMMA InitInv == Init => Inv
  BY MarksAssumption DEF Init, Inv, CachesOK, WorkingVmIsCached, VmsAreUsed, KeysMatch,
                         HandlesAreCached, Healthy, Live

(* What only cleans the caches up keeps the invariant. *)
LEMMA CleanUpKeepsInv ==
  ASSUME Inv, UNCHANGED <<vm, handles>>, baseFailed' \in SUBSET VmKeys,
         localWasms' \in [VmKeys -> Entries], SameLive(localWasms', localWasms),
         localPlugins' \in [Plugins -> Entries], SameLive(localPlugins', localPlugins)
  PROVE  Inv'
  <1>1. CachesOK
    BY DEF Inv
  <1>2. /\ \A k \in VmKeys, v \in Vms : localWasms'[k] = v <=> localWasms[k] = v
        /\ \A p \in Plugins, v \in Vms : localPlugins'[p] = v <=> localPlugins[p] = v
    BY <1>1 DEF CachesOK, SameLive
  <1>3. CachesOK'
    BY <1>1, <1>2 DEF CachesOK, Entries
  <1>4. \A v \in Vms : Healthy(v) => vm[v].key \in VmKeys
    BY <1>1, MarksAssumption DEF CachesOK, VmState, Healthy
  <1>5. WorkingVmIsCached'
    BY <1>2, <1>4 DEF Inv, WorkingVmIsCached, Healthy, Live
  <1>6. VmsAreUsed' /\ KeysMatch'
    BY DEF Inv, VmsAreUsed, KeysMatch, InUse
  <1>7. HandlesAreCached'
    BY <1>2 DEF Inv, HandlesAreCached, Healthy
  <1> QED BY <1>3, <1>5, <1>6, <1>7 DEF Inv

LEMMA CloneFailsStep ==
  ASSUME Inv, NEW p \in Plugins, CloneFails(p)
  PROVE  Inv'
  <1>1. VmKeyOf[p] \in VmKeys /\ ~Live(localWasms[VmKeyOf[p]]) /\ ~Live(localPlugins[p])
    BY PluginsAssumption DEF CloneFails, CleanPlugins
  <1>2. localWasms \in [VmKeys -> Entries] /\ localPlugins \in [Plugins -> Entries]
    BY DEF Inv, CachesOK, Entries
  <1>3. localWasms' \in [VmKeys -> Entries] /\ SameLive(localWasms', localWasms)
    BY <1>1, <1>2, CleanedSame DEF CloneFails, CleanedWasms
  <1>4. localPlugins' \in [Plugins -> Entries] /\ SameLive(localPlugins', localPlugins)
    BY <1>1, <1>2, CleanedSame DEF CloneFails, CleanedPlugins
  <1>5. baseFailed' \in SUBSET VmKeys /\ UNCHANGED <<vm, handles>>
    BY <1>1 DEF CloneFails, Inv, CachesOK
  <1> QED BY <1>3, <1>4, <1>5, CleanUpKeepsInv

LEMMA MissStep ==
  ASSUME Inv, NEW k \in VmKeys, GetThreadLocalWasmMiss(k)
  PROVE  Inv'
  <1>1. localWasms \in [VmKeys -> Entries] /\ localPlugins \in [Plugins -> Entries]
    BY DEF Inv, CachesOK, Entries
  <1>2. localWasms' \in [VmKeys -> Entries] /\ SameLive(localWasms', localWasms)
    BY <1>1, CleanedSame DEF GetThreadLocalWasmMiss, CleanedWasms
  <1>3. localPlugins' \in [Plugins -> Entries] /\ SameLive(localPlugins', localPlugins)
    BY <1>1 DEF GetThreadLocalWasmMiss, SameLive
  <1>4. baseFailed' \in SUBSET VmKeys /\ UNCHANGED <<vm, handles>>
    BY DEF GetThreadLocalWasmMiss, Inv, CachesOK
  <1> QED BY <1>2, <1>3, <1>4, CleanUpKeepsInv

-----------------------------------------------------------------------------
(* The VM that works is the only one of its key that does. *)
LEMMA OnlyOneWorks ==
  ASSUME Inv, NEW v \in Vms, NEW w \in Vms, Healthy(v), Healthy(w), vm[v].key = vm[w].key
  PROVE  v = w
  BY DEF Inv, WorkingVmIsCached

(* All other actions change one VM v of key k, to s, and the entries that name it. *)
OneVmChanges(v, k, s) ==
    /\ vm' = [vm EXCEPT ![v] = s]
    /\ s # Absent => s \in VmState /\ s.key = k /\ \A p \in s.onFail : VmKeyOf[p] = k
    /\ localWasms' \in [VmKeys -> Entries]
    /\ \A key \in VmKeys, w \in Vms \ {v} : localWasms'[key] = w <=> localWasms[key] = w
    /\ \A key \in VmKeys : localWasms'[key] = v <=> (key = k /\ s # Absent /\ ~s.failed)

HandlesFollow(v, k, s) ==
    /\ handles' \in SUBSET (Plugins \X Vms)
    /\ \A p \in Plugins, w \in Vms \ {v} : <<p, w>> \in handles' <=> <<p, w>> \in handles
    /\ \A p \in Plugins : <<p, v>> \in handles' => VmKeyOf[p] = k
    /\ s # Absent <=> InUse(v, handles')

PluginsFollow(v, k, s) ==
    /\ localPlugins' \in [Plugins -> Entries]
    /\ \A p \in Plugins, w \in Vms \ {v} :
          /\ localPlugins'[p] = w => localPlugins[p] = w
          /\ <<p, w>> \in handles /\ Healthy(w) => localPlugins'[p] = w
    /\ \A p \in Plugins : localPlugins'[p] = v => <<p, v>> \in handles'
    /\ s # Absent /\ ~s.failed =>
          \A p \in Plugins : <<p, v>> \in handles' => localPlugins'[p] = v

LEMMA OneVmKeepsInv ==
  ASSUME Inv, NEW v \in Vms, NEW k \in VmKeys, NEW s,
         OneVmChanges(v, k, s), HandlesFollow(v, k, s), PluginsFollow(v, k, s),
         baseFailed' \in SUBSET VmKeys
  PROVE  Inv'
  <1>1. CachesOK
    BY DEF Inv
  <1>2. vm' \in [Vms -> VmState \cup {Absent}] /\ vm'[v] = s /\ \A w \in Vms \ {v} : vm'[w] = vm[w]
    BY <1>1 DEF CachesOK, OneVmChanges
  <1>3. CachesOK'
    <2>1. \A p \in Plugins, w \in Vms : <<p, w>> \in handles' => vm'[w] # Absent
      BY <1>1, <1>2 DEF CachesOK, HandlesFollow, InUse
    <2>2. \A key \in VmKeys : localWasms'[key] \in Vms => vm'[localWasms'[key]] # Absent
      <3> SUFFICES ASSUME NEW key \in VmKeys, NEW w \in Vms, localWasms'[key] = w
                   PROVE  vm'[w] # Absent
        OBVIOUS
      <3>1. CASE w = v
        BY <1>2, <3>1 DEF OneVmChanges
      <3>2. CASE w # v
        BY <1>1, <1>2, <3>2 DEF OneVmChanges, CachesOK
      <3> QED BY <3>1, <3>2
    <2>3. \A p \in Plugins, w \in Vms : localPlugins'[p] = w => <<p, w>> \in handles'
      BY <1>1 DEF CachesOK, PluginsFollow, HandlesFollow
    <2> QED BY <1>2, <2>1, <2>2, <2>3 DEF CachesOK, OneVmChanges, HandlesFollow, PluginsFollow, Entries
  <1>4. WorkingVmIsCached'
    <2>1. \A key \in VmKeys, w \in Vms : localWasms'[key] = w =>
             vm'[w] # Absent /\ ~vm'[w].failed /\ vm'[w].key = key
      <3> SUFFICES ASSUME NEW key \in VmKeys, NEW w \in Vms, localWasms'[key] = w
                   PROVE  vm'[w] # Absent /\ ~vm'[w].failed /\ vm'[w].key = key
        OBVIOUS
      <3>1. CASE w = v
        BY <1>2, <3>1 DEF OneVmChanges
      <3>2. CASE w # v
        BY <1>2, <3>2 DEF Inv, WorkingVmIsCached, Healthy, Live, OneVmChanges
      <3> QED BY <3>1, <3>2
    <2>2. \A w \in Vms : Healthy(w)' => localWasms'[vm'[w].key] = w
      <3> SUFFICES ASSUME NEW w \in Vms, Healthy(w)' PROVE localWasms'[vm'[w].key] = w
        OBVIOUS
      <3>1. CASE w = v
        BY <1>2, <3>1 DEF OneVmChanges, Healthy
      <3>2. CASE w # v
        <4>1. Healthy(w) /\ vm'[w] = vm[w]
          BY <1>2, <3>2 DEF Healthy
        <4>2. localWasms[vm[w].key] = w /\ vm[w].key \in VmKeys
          BY <1>1, <4>1, MarksAssumption DEF Inv, WorkingVmIsCached, CachesOK, Healthy, VmState
        <4> QED BY <3>2, <4>1, <4>2 DEF OneVmChanges
      <3> QED BY <3>1, <3>2
    <2> QED BY <2>1, <2>2 DEF WorkingVmIsCached, Healthy, Live
  <1>5. VmsAreUsed'
    BY <1>2 DEF Inv, VmsAreUsed, HandlesFollow, InUse
  <1>6. KeysMatch'
    <2>1. \A p \in Plugins, w \in Vms : <<p, w>> \in handles' => vm'[w].key = VmKeyOf[p]
      <3> SUFFICES ASSUME NEW p \in Plugins, NEW w \in Vms, <<p, w>> \in handles'
                   PROVE  vm'[w].key = VmKeyOf[p]
        OBVIOUS
      <3>1. CASE w = v
        BY <1>2, <3>1 DEF HandlesFollow, OneVmChanges, InUse
      <3>2. CASE w # v
        BY <1>2, <3>2 DEF Inv, KeysMatch, HandlesFollow
      <3> QED BY <3>1, <3>2
    <2>2. \A w \in Vms : vm'[w] # Absent => \A p \in vm'[w].onFail : VmKeyOf[p] = vm'[w].key
      BY <1>2 DEF Inv, KeysMatch, OneVmChanges
    <2> QED BY <2>1, <2>2 DEF KeysMatch
  <1>7. HandlesAreCached'
    <2> SUFFICES ASSUME NEW p \in Plugins, NEW w \in Vms, <<p, w>> \in handles', Healthy(w)'
                 PROVE  localPlugins'[p] = w
      BY DEF HandlesAreCached
    <2>1. CASE w = v
      BY <1>2, <2>1 DEF PluginsFollow, Healthy
    <2>2. CASE w # v
      <3>1. <<p, w>> \in handles /\ Healthy(w)
        BY <1>2, <2>2 DEF HandlesFollow, Healthy
      <3> QED BY <2>2, <3>1 DEF PluginsFollow
    <2> QED BY <2>1, <2>2
  <1> QED BY <1>3, <1>4, <1>5, <1>6, <1>7 DEF Inv

LEMMA VmFacts ==
  ASSUME Inv, NEW v \in Vms, vm[v] # Absent
  PROVE  /\ vm[v] \in VmState /\ vm[v].key \in VmKeys
         /\ \A p \in vm[v].onFail : VmKeyOf[p] = vm[v].key
         /\ \A key \in VmKeys : localWasms[key] = v <=> (~vm[v].failed /\ key = vm[v].key)
         /\ ~vm[v].failed => \A w \in Vms \ {v} : Healthy(w) => vm[w].key # vm[v].key
  <1>1. vm[v] \in VmState /\ vm[v].key \in VmKeys
    BY DEF Inv, CachesOK, VmState
  <1>2. \A p \in vm[v].onFail : VmKeyOf[p] = vm[v].key
    BY DEF Inv, KeysMatch
  <1>3. \A key \in VmKeys : localWasms[key] = v <=> (~vm[v].failed /\ key = vm[v].key)
    BY DEF Inv, WorkingVmIsCached, Healthy, Live
  <1> QED BY <1>1, <1>2, <1>3, OnlyOneWorks DEF Healthy

(* A trap takes away the entry of the VM and those of its plugins. *)
LEMMA TrapStep ==
  ASSUME ~ForeignCalls, Inv, NEW v \in Vms, Trap(v)
  PROVE  Inv'
  <1> DEFINE s == [vm[v] EXCEPT !.failed = TRUE]
             k == vm[v].key
  <1>1. Healthy(v) /\ UNCHANGED <<handles, baseFailed>>
    BY DEF Trap, Healthy
  <1>2. /\ vm[v] \in VmState /\ k \in VmKeys
        /\ \A p \in vm[v].onFail : VmKeyOf[p] = k
        /\ \A key \in VmKeys : localWasms[key] = v <=> key = k
        /\ \A w \in Vms \ {v} : Healthy(w) => vm[w].key # k
    BY <1>1, VmFacts DEF Healthy
  <1>3. s \in VmState /\ s.failed /\ s # Absent /\ s.key = k /\ s.onFail = vm[v].onFail
    BY <1>2, MarksAssumption DEF VmState
  <1> HIDE DEF s
  <1>4. OneVmChanges(v, k, s)
    BY <1>2, <1>3, MarksAssumption DEF Inv, CachesOK, OneVmChanges, Trap, EraseWasmOnFail, Entries, s
  <1>5. HandlesFollow(v, k, s)
    BY <1>1, <1>3 DEF Inv, CachesOK, KeysMatch, VmsAreUsed, HandlesFollow, InUse, Healthy
  <1>6. PluginsFollow(v, k, s)
    <2>1. localPlugins \in [Plugins -> Entries]
      BY DEF Inv, CachesOK, Entries
    <2>2. localPlugins' = [p \in Plugins |-> IF p \in vm[v].onFail THEN Absent ELSE localPlugins[p]]
      BY DEF Trap, ErasePluginsOnFail
    <2>3. ASSUME NEW p \in Plugins, NEW w \in Vms \ {v}, <<p, w>> \in handles, Healthy(w)
          PROVE  localPlugins'[p] = w
      BY <1>2, <2>2, <2>3 DEF Inv, HandlesAreCached, KeysMatch
    <2>4. \A p \in Plugins : localPlugins'[p] = v => <<p, v>> \in handles'
      BY <1>1, <2>2, MarksAssumption DEF Inv, CachesOK
    <2> QED BY <1>3, <2>1, <2>2, <2>3, <2>4, MarksAssumption DEF PluginsFollow, Entries
  <1>7. baseFailed' \in SUBSET VmKeys
    BY <1>1 DEF Inv, CachesOK
  <1> QED BY <1>1, <1>2, <1>4, <1>5, <1>6, <1>7, OneVmKeepsInv

(* With a handle its entry goes, and with the last one the VM and its entry. *)
LEMMA ReleaseStep ==
  ASSUME Inv, NEW p \in Plugins, NEW v \in Vms, NEW trap \in BOOLEAN, ReleasePlugin(p, v, trap)
  PROVE  Inv'
  <1> DEFINE hs == handles \ {<<p, v>>}
             s0 == [vm[v] EXCEPT !.roots = @ \ {p}, !.failed = @ \/ trap]
             s == KeepIfUsed(v, hs, s0)
             k == vm[v].key
             wasms == IF trap THEN EraseWasmOnFail(localWasms, v) ELSE localWasms
             plugins == IF localPlugins[p] = v THEN [localPlugins EXCEPT ![p] = Expired]
                                               ELSE localPlugins
  <1>1. /\ <<p, v>> \in handles
        /\ trap => ~vm[v].failed
        /\ handles' = hs
        /\ vm' = [vm EXCEPT ![v] = s]
        /\ localPlugins' = IF trap THEN ErasePluginsOnFail(plugins, v) ELSE plugins
        /\ localWasms' = IF InUse(v, hs) THEN wasms ELSE Expire(wasms, v)
        /\ UNCHANGED baseFailed
    BY DEF ReleasePlugin
  <1>2. CachesOK /\ vm[v] # Absent
    BY <1>1 DEF Inv, CachesOK
  <1>3. /\ vm[v] \in VmState /\ k \in VmKeys
        /\ \A q \in vm[v].onFail : VmKeyOf[q] = k
        /\ \A key \in VmKeys : localWasms[key] = v <=> (~vm[v].failed /\ key = k)
        /\ ~vm[v].failed => \A w \in Vms \ {v} : Healthy(w) => vm[w].key # k
    BY <1>2, VmFacts
  <1>4. /\ s0 \in VmState /\ s0 # Absent /\ s0.key = k /\ s0.onFail = vm[v].onFail
        /\ s0.failed <=> (vm[v].failed \/ trap)
    BY <1>3, MarksAssumption, ZenonT(40) DEF VmState
  <1>5. s = IF InUse(v, hs) THEN s0 ELSE Absent
    BY DEF KeepIfUsed
  <1> HIDE DEF s0, s
  <1>6. OneVmChanges(v, k, s)
    <2>1. s # Absent => s \in VmState /\ s.key = k /\ \A q \in s.onFail : VmKeyOf[q] = k
      BY <1>3, <1>4, <1>5
    <2>2. wasms \in [VmKeys -> Entries]
      BY <1>2, <1>3 DEF CachesOK, EraseWasmOnFail, Entries
    <2>3. \A key \in VmKeys, w \in Vms \ {v} : wasms[key] = w <=> localWasms[key] = w
      BY <1>1, <1>2, <1>3, MarksAssumption DEF CachesOK, EraseWasmOnFail
    <2>4. \A key \in VmKeys : wasms[key] = v <=> (key = k /\ ~s0.failed)
      BY <1>1, <1>2, <1>3, <1>4, MarksAssumption DEF CachesOK, EraseWasmOnFail
    <2> HIDE DEF wasms
    <2>5. localWasms' \in [VmKeys -> Entries]
      BY <1>1, <2>2 DEF Expire, Entries
    <2>6. \A key \in VmKeys, w \in Vms \ {v} : localWasms'[key] = w <=> localWasms[key] = w
      BY <1>1, <2>2, <2>3, MarksAssumption DEF Expire
    <2>7. \A key \in VmKeys : localWasms'[key] = v <=> (key = k /\ s # Absent /\ ~s.failed)
      BY <1>1, <1>4, <1>5, <2>2, <2>4, MarksAssumption DEF Expire
    <2> QED BY <1>1, <2>1, <2>5, <2>6, <2>7 DEF OneVmChanges
  <1>7. HandlesFollow(v, k, s)
    BY <1>1, <1>2, <1>4, <1>5 DEF Inv, CachesOK, KeysMatch, HandlesFollow
  <1>8. PluginsFollow(v, k, s)
    <2>1. plugins \in [Plugins -> Entries]
      BY <1>2 DEF CachesOK, Entries
    <2>2. \A q \in Plugins, w \in Vms \ {v} : plugins[q] = w <=> localPlugins[q] = w
      BY <1>2, MarksAssumption DEF CachesOK
    <2>3. \A q \in Plugins : plugins[q] = v <=> (localPlugins[q] = v /\ q # p)
      BY <1>2, MarksAssumption DEF CachesOK
    <2> HIDE DEF plugins
    <2>4. localPlugins' \in [Plugins -> Entries]
      BY <1>1, <2>1 DEF ErasePluginsOnFail, Entries
    <2>5. \A q \in Plugins : localPlugins'[q] = IF trap /\ q \in vm[v].onFail THEN Absent ELSE plugins[q]
      BY <1>1 DEF ErasePluginsOnFail
    <2>6. \A q \in Plugins, w \in Vms \ {v} : localPlugins'[q] = w => localPlugins[q] = w
      BY <2>2, <2>5, MarksAssumption
    <2>7. ASSUME NEW q \in Plugins, NEW w \in Vms \ {v}, <<q, w>> \in handles, Healthy(w)
          PROVE  localPlugins'[q] = w
      <3>1. localPlugins[q] = w /\ vm[w].key = VmKeyOf[q]
        BY <2>7 DEF Inv, HandlesAreCached, KeysMatch
      <3>2. ~(trap /\ q \in vm[v].onFail)
        BY <1>1, <1>3, <2>7, <3>1
      <3> QED BY <2>2, <2>5, <3>1, <3>2
    <2>8. \A q \in Plugins : localPlugins'[q] = v => <<q, v>> \in handles'
      BY <1>1, <1>2, <2>3, <2>5, MarksAssumption DEF CachesOK
    <2>9. ASSUME s # Absent, ~s.failed, NEW q \in Plugins, <<q, v>> \in handles'
          PROVE  localPlugins'[q] = v
      <3>1. ~trap /\ Healthy(v) /\ <<q, v>> \in handles /\ q # p
        BY <1>1, <1>2, <1>4, <1>5, <2>9 DEF Healthy
      <3> QED BY <2>3, <2>5, <3>1 DEF Inv, HandlesAreCached
    <2> QED BY <2>4, <2>6, <2>7, <2>8, <2>9 DEF PluginsFollow
  <1>9. baseFailed' \in SUBSET VmKeys
    BY <1>1, <1>2 DEF CachesOK
  <1> QED BY <1>3, <1>6, <1>7, <1>8, <1>9, OneVmKeepsInv

(* A plugin is created on VM v, which is in state s and, in wasms, the entry of   *)
(* the plugin's key, when no other VM of the key works.                         *)
LEMMA CreateStep ==
  ASSUME Inv, NEW p \in Plugins, NEW v \in Vms, NEW s \in VmState, NEW wasms \in [VmKeys -> Entries],
         ~s.failed, s.key = VmKeyOf[p], \A q \in s.onFail : VmKeyOf[q] = s.key,
         vm[v] \in {s, Absent},
         \A w \in Vms \ {v} : Healthy(w) => vm[w].key # s.key,
         \A key \in VmKeys, w \in Vms \ {v} : wasms[key] = w <=> localWasms[key] = w,
         \A key \in VmKeys : wasms[key] = v <=> key = s.key,
         ~Live(localPlugins[p]),
         NEW a1 \in StartAnswers, NEW a2 \in ConfigureAnswers,
         CreatePluginOn(v, s, wasms, p, a1, a2)
  PROVE  Inv'
  <1> DEFINE k == VmKeyOf[p]
             s1 == AfterStart(s, p, a1)
             s2 == AfterConfigure(s1, a2)
             ok1 == StartSucceeds(s, p, a1)
             ok == ok1 /\ ConfigureSucceeds(s1, a2)
             end == IF ok1 THEN s2 ELSE s1
             hs == IF ok THEN handles \cup {<<p, v>>} ELSE handles
             trapped == end.failed /\ ~s.failed
             wasms1 == IF trapped THEN [wasms EXCEPT ![k] = Absent] ELSE wasms
             plugins == IF trapped
                          THEN [q \in Plugins |-> IF q \in s.onFail THEN Absent ELSE CleanedPlugins(p)[q]]
                          ELSE CleanedPlugins(p)
             after == IF ok THEN [end EXCEPT !.onFail = @ \cup {p}] ELSE end
             new == KeepIfUsed(v, hs, after)
  <1>1. /\ handles' = hs
        /\ vm' = [vm EXCEPT ![v] = new]
        /\ localWasms' = IF InUse(v, hs) THEN wasms1 ELSE Expire(wasms1, v)
        /\ localPlugins' = IF ok THEN [plugins EXCEPT ![p] = v] ELSE plugins
        /\ baseFailed' = IF ok THEN baseFailed ELSE baseFailed \cup {k}
    BY DEF CreatePluginOn
  <1>2. CachesOK /\ k \in VmKeys
    BY PluginsAssumption DEF Inv
  <1>3. end \in VmState /\ end.key = k /\ end.onFail = s.onFail
    <2>1. s1 \in VmState /\ s1.key = k /\ s1.onFail = s.onFail
      BY DEF AfterStart, VmState, StartAnswers
    <2> HIDE DEF s1
    <2>2. s2 \in VmState /\ s2.key = k /\ s2.onFail = s.onFail
      BY <2>1 DEF AfterConfigure, VmState, StartAnswers, ConfigureAnswers
    <2> QED BY <2>1, <2>2
  <1> HIDE DEF ok, end
  <1>4. /\ after \in VmState /\ after # Absent /\ after.key = k /\ after.failed = end.failed
        /\ \A q \in after.onFail : VmKeyOf[q] = k
    BY <1>3, MarksAssumption DEF VmState
  <1>5. new = IF InUse(v, hs) THEN after ELSE Absent
    BY DEF KeepIfUsed
  <1> HIDE DEF after, new
  <1>6. OneVmChanges(v, k, new)
    <2>1. wasms1 \in [VmKeys -> Entries]
      BY <1>2 DEF Entries
    <2>2. \A key \in VmKeys, w \in Vms \ {v} : wasms1[key] = w <=> localWasms[key] = w
      BY <1>2, MarksAssumption
    <2>3. \A key \in VmKeys : wasms1[key] = v <=> (key = k /\ ~end.failed)
      BY <1>2, MarksAssumption
    <2> HIDE DEF wasms1
    <2>4. localWasms' \in [VmKeys -> Entries]
      BY <1>1, <2>1 DEF Expire, Entries
    <2>5. \A key \in VmKeys, w \in Vms \ {v} : localWasms'[key] = w <=> localWasms[key] = w
      BY <1>1, <2>1, <2>2, MarksAssumption DEF Expire
    <2>6. \A key \in VmKeys : localWasms'[key] = v <=> (key = k /\ new # Absent /\ ~new.failed)
      BY <1>1, <1>4, <1>5, <2>1, <2>3, MarksAssumption DEF Expire
    <2> QED BY <1>1, <1>4, <1>5, <2>4, <2>5, <2>6 DEF OneVmChanges
  <1>7. \A q \in Plugins : <<q, v>> \in handles => vm[v] = s /\ VmKeyOf[q] = k /\ localPlugins[q] = v
    <2>1. \A q \in Plugins : <<q, v>> \in handles => vm[v] = s /\ s # Absent
      BY <1>2 DEF CachesOK
    <2> QED BY <2>1 DEF Inv, KeysMatch, HandlesAreCached, Healthy
  <1>8. HandlesFollow(v, k, new)
    BY <1>1, <1>2, <1>4, <1>5, <1>7 DEF CachesOK, HandlesFollow
  <1>9. PluginsFollow(v, k, new)
    <2>1. /\ CleanedPlugins(p) \in [Plugins -> Entries]
          /\ SameLive(CleanedPlugins(p), localPlugins)
      BY <1>2, CleanedSame DEF CachesOK, CleanedPlugins, Entries
    <2>2. \A q \in Plugins, w \in Vms : CleanedPlugins(p)[q] = w <=> localPlugins[q] = w
      BY <1>2, <2>1 DEF SameLive, CachesOK
    <2>3. /\ plugins \in [Plugins -> Entries]
          /\ \A q \in Plugins :
                plugins[q] = IF trapped /\ q \in s.onFail THEN Absent ELSE CleanedPlugins(p)[q]
      BY <2>1 DEF Entries
    <2>4. trapped <=> end.failed
      OBVIOUS
    <2> HIDE DEF plugins, trapped
    <2>5. /\ localPlugins' \in [Plugins -> Entries]
          /\ \A q \in Plugins : localPlugins'[q] = IF ok /\ q = p THEN v ELSE plugins[q]
      BY <1>1, <2>3 DEF Entries
    <2>6. \A q \in Plugins, w \in Vms \ {v} : localPlugins'[q] = w => localPlugins[q] = w
      BY <2>2, <2>3, <2>5, MarksAssumption
    <2>7. ASSUME NEW q \in Plugins, NEW w \in Vms \ {v}, <<q, w>> \in handles, Healthy(w)
          PROVE  localPlugins'[q] = w
      <3>1. localPlugins[q] = w /\ vm[w].key = VmKeyOf[q] /\ VmKeyOf[q] # k
        BY <2>7 DEF Inv, HandlesAreCached, KeysMatch
      <3> QED BY <2>2, <2>3, <2>5, <3>1
    <2>8. \A q \in Plugins : localPlugins'[q] = v => <<q, v>> \in handles'
      BY <1>1, <1>2, <2>2, <2>3, <2>5, MarksAssumption DEF CachesOK
    <2>9. ASSUME new # Absent, ~new.failed, NEW q \in Plugins, <<q, v>> \in handles'
          PROVE  localPlugins'[q] = v
      <3>1. ~trapped /\ (<<q, v>> \in handles \/ (ok /\ q = p))
        BY <1>1, <1>4, <1>5, <2>4, <2>9
      <3> QED BY <1>7, <2>2, <2>3, <2>5, <3>1
    <2> QED BY <2>5, <2>6, <2>7, <2>8, <2>9 DEF PluginsFollow
  <1>10. baseFailed' \in SUBSET VmKeys
    BY <1>1, <1>2 DEF CachesOK
  <1> QED BY <1>2, <1>6, <1>8, <1>9, <1>10, OneVmKeepsInv

LEMMA CachedVmStep ==
  ASSUME Inv, NEW p \in Plugins, CreatePluginOnCachedVm(p)
  PROVE  Inv'
  <1> DEFINE k == VmKeyOf[p]
             v == localWasms[k]
  <1>1. v \in Vms /\ ~Live(localPlugins[p]) /\ k \in VmKeys
    BY PluginsAssumption DEF CreatePluginOnCachedVm, Live
  <1>2. vm[v] # Absent /\ ~vm[v].failed /\ vm[v].key = k
    BY <1>1 DEF Inv, WorkingVmIsCached, Healthy, Live
  <1>3. /\ vm[v] \in VmState
        /\ \A q \in vm[v].onFail : VmKeyOf[q] = vm[v].key
        /\ \A key \in VmKeys : localWasms[key] = v <=> (~vm[v].failed /\ key = vm[v].key)
        /\ ~vm[v].failed => \A w \in Vms \ {v} : Healthy(w) => vm[w].key # vm[v].key
    BY <1>1, <1>2, VmFacts
  <1>4. localWasms \in [VmKeys -> Entries]
    BY DEF Inv, CachesOK, Entries
  <1>5. PICK a1 \in StartAnswers, a2 \in ConfigureAnswers :
           CreatePluginOn(v, vm[v], localWasms, p, a1, a2)
    BY DEF CreatePluginOnCachedVm
  <1> HIDE DEF v
  <1> QED BY <1>1, <1>2, <1>3, <1>4, <1>5, CreateStep

LEMMA NewVmStep ==
  ASSUME Inv, NEW p \in Plugins, CreatePluginOnNewVm(p)
  PROVE  Inv'
  <1> DEFINE k == VmKeyOf[p]
             new == [key |-> k, failed |-> FALSE, roots |-> {}, onFail |-> {}]
  <1>1. ~Live(localWasms[k]) /\ ~Live(localPlugins[p]) /\ k \in VmKeys
    BY PluginsAssumption DEF CreatePluginOnNewVm
  <1>2. localWasms \in [VmKeys -> Entries]
    BY DEF Inv, CachesOK, Entries
  <1>3. CleanedWasms(k) \in [VmKeys -> Entries] /\ SameLive(CleanedWasms(k), localWasms)
    BY <1>1, <1>2, CleanedSame DEF CleanedWasms
  <1>4. PICK v \in Vms :
           /\ vm[v] = Absent
           /\ \E a1 \in StartAnswers, a2 \in ConfigureAnswers :
                 CreatePluginOn(v, new, [CleanedWasms(k) EXCEPT ![k] = v], p, a1, a2)
    BY DEF CreatePluginOnNewVm
  <1> DEFINE wasms == [CleanedWasms(k) EXCEPT ![k] = v]
  <1>5. \A key \in VmKeys, w \in Vms : CleanedWasms(k)[key] = w <=> localWasms[key] = w
    BY <1>2, <1>3 DEF SameLive
  <1>6. \A key \in VmKeys : localWasms[key] # v
    BY <1>4 DEF Inv, WorkingVmIsCached, Healthy, Live
  <1>7. /\ wasms \in [VmKeys -> Entries]
        /\ \A key \in VmKeys, w \in Vms \ {v} : wasms[key] = w <=> localWasms[key] = w
        /\ \A key \in VmKeys : wasms[key] = v <=> key = k
    BY <1>1, <1>3, <1>5, <1>6 DEF Entries, Live
  <1>8. \A w \in Vms \ {v} : Healthy(w) => vm[w].key # k
    BY <1>1 DEF Inv, WorkingVmIsCached, Live
  <1>9. new \in VmState /\ new.key = k /\ ~new.failed /\ new.onFail = {}
    BY <1>1 DEF VmState
  <1>10. PICK a1 \in StartAnswers, a2 \in ConfigureAnswers : CreatePluginOn(v, new, wasms, p, a1, a2)
    BY <1>4
  <1> HIDE DEF new, wasms
  <1> QED BY <1>1, <1>4, <1>7, <1>8, <1>9, <1>10, CreateStep

-----------------------------------------------------------------------------
LEMMA CountUp ==
  ASSUME NEW G \in SUBSET Nat, 0 \in G, \A n \in G : n + 1 \in G
  PROVE  G = Nat
  <1> DEFINE R == {ss \in Nat \X Nat : ss[1] < ss[2]}
             B == Nat \ G
  <1>1. R = OpToRel(<, Nat)
    BY DEF OpToRel
  <1>2. IsWellFoundedOn(R, Nat)
    BY <1>1, NatLessThanWellFounded
  <1>3. ASSUME B # {} PROVE FALSE
    <2>1. PICK m \in B : \A k \in B : <<k, m>> \notin R
      <3> HIDE DEF R
      <3> QED BY <1>2, <1>3, WFMin
    <2>2. m \in Nat /\ m # 0 /\ m - 1 \in Nat /\ m - 1 < m /\ m - 1 + 1 = m
      OBVIOUS
    <2>3. m - 1 \notin B
      BY <2>1, <2>2
    <2> QED BY <2>1, <2>2, <2>3
  <1> QED BY <1>3

(* What is kept after so many turns of the loop of a clean-up. *)
IsKept(cache, queue, last, f) ==
    f = [n \in 0 .. last |->
            IF n = 0 THEN <<>>
            ELSE IF Live(cache[queue[n]]) THEN Append(f[n - 1], queue[n])
            ELSE f[n - 1]]
Kept(cache, queue) == CHOOSE f : IsKept(cache, queue, Len(queue), f)

LEMMA KeptExists ==
  ASSUME NEW cache, NEW queue, NEW last \in Nat
  PROVE  \E f : IsKept(cache, queue, last, f)
  <1> DEFINE G == {m \in Nat : \E f : IsKept(cache, queue, m, f)}
  <1>1. 0 \in G
    <2> DEFINE f == [n \in 0 .. 0 |-> <<>>]
    <2>1. IsKept(cache, queue, 0, f)
      BY DEF IsKept
    <2> QED BY <2>1
  <1>2. ASSUME NEW m \in G PROVE m + 1 \in G
    <2>1. PICK f : IsKept(cache, queue, m, f)
      OBVIOUS
    <2>2. /\ f[0] = <<>>
          /\ \A n \in 1 .. m : f[n] = IF Live(cache[queue[n]]) THEN Append(f[n - 1], queue[n])
                                      ELSE f[n - 1]
      <3>1. \A n \in 0 .. m : f[n] = IF n = 0 THEN <<>>
                            ELSE IF Live(cache[queue[n]]) THEN Append(f[n - 1], queue[n])
                            ELSE f[n - 1]
        BY <2>1 DEF IsKept
      <3> QED BY <3>1
    <2> DEFINE new == IF Live(cache[queue[m + 1]]) THEN Append(f[m], queue[m + 1]) ELSE f[m]
               g == [n \in 0 .. m + 1 |-> IF n = m + 1 THEN new ELSE f[n]]
    <2>3. IsKept(cache, queue, m + 1, g)
      <3> SUFFICES ASSUME NEW n \in 0 .. m + 1
                   PROVE  g[n] = IF n = 0 THEN <<>>
                                 ELSE IF Live(cache[queue[n]]) THEN Append(g[n - 1], queue[n])
                                 ELSE g[n - 1]
        BY DEF IsKept
      <3>1. CASE n = 0
        BY <2>2, <3>1
      <3>2. CASE n = m + 1
        <4>1. g[n] = new /\ n - 1 = m /\ n # 0 /\ m \in 0 .. m + 1 /\ m # m + 1
          BY <3>2
        <4>2. g[n - 1] = f[m]
          BY <4>1
        <4> QED BY <3>2, <4>1, <4>2
      <3>3. CASE n \in 1 .. m
        <4>1. g[n] = f[n] /\ g[n - 1] = f[n - 1] /\ n # 0
          BY <3>3
        <4> HIDE DEF g
        <4> QED BY <2>2, <3>3, <4>1
      <3> QED BY <3>1, <3>2, <3>3
    <2> QED BY <2>3
  <1>3. G = Nat
    <2> HIDE DEF G
    <2>1. G \in SUBSET Nat
      BY DEF G
    <2> QED BY <1>1, <1>2, <2>1, CountUp
  <1> QED BY <1>3

LEMMA KeptTurns ==
  ASSUME NEW cache, NEW queue, Len(queue) \in Nat
  PROVE  /\ KeptKeys(cache, queue) = Kept(cache, queue)[Len(queue)]
         /\ Kept(cache, queue)[0] = <<>>
         /\ \A n \in 1 .. Len(queue) :
               Kept(cache, queue)[n] = IF Live(cache[queue[n]])
                                         THEN Append(Kept(cache, queue)[n - 1], queue[n])
                                         ELSE Kept(cache, queue)[n - 1]
  <1>1. KeptKeys(cache, queue) = Kept(cache, queue)[Len(queue)]
    BY DEF KeptKeys, Kept, IsKept
  <1>2. IsKept(cache, queue, Len(queue), Kept(cache, queue))
    <2>1. \E f : IsKept(cache, queue, Len(queue), f)
      BY KeptExists
    <2> QED BY <2>1 DEF Kept
  <1> DEFINE f == Kept(cache, queue)
  <1> HIDE DEF f
  <1>3. \A n \in 0 .. Len(queue) : f[n] = IF n = 0 THEN <<>>
                            ELSE IF Live(cache[queue[n]]) THEN Append(f[n - 1], queue[n])
                            ELSE f[n - 1]
    BY <1>2 DEF IsKept, f
  <1>4. f[0] = <<>> /\ \A n \in 1 .. Len(queue) : f[n] =
                            IF Live(cache[queue[n]]) THEN Append(f[n - 1], queue[n])
                            ELSE f[n - 1]
    BY <1>3
  <1> QED BY <1>1, <1>4 DEF f

LEMMA AppendFacts ==
  ASSUME NEW K, NEW s \in Seq(K), NEW x \in K
  PROVE  /\ Append(s, x) \in Seq(K)
         /\ \A k : k \in ToSet(Append(s, x)) <=> k \in ToSet(s) \/ k = x
         /\ IsInjective(s) /\ x \notin ToSet(s) => IsInjective(Append(s, x))
  <1> DEFINE t == Append(s, x)
  <1>1. /\ t \in Seq(K) /\ Len(t) = Len(s) + 1 /\ Len(s) \in Nat
        /\ DOMAIN t = 1 .. Len(s) + 1 /\ DOMAIN s = 1 .. Len(s)
        /\ \A i \in 1 .. Len(s) : t[i] = s[i]
        /\ t[Len(s) + 1] = x
    OBVIOUS
  <1> HIDE DEF t
  <1>2. \A i \in DOMAIN t : (i \in DOMAIN s /\ t[i] = s[i]) \/ (i = Len(s) + 1 /\ t[i] = x)
    BY <1>1
  <1>3. \A k : k \in ToSet(t) <=> k \in ToSet(s) \/ k = x
    BY <1>1, <1>2 DEF ToSet
  <1>4. ASSUME IsInjective(s), x \notin ToSet(s) PROVE IsInjective(t)
    <2>1. \A i \in DOMAIN s : s[i] # x
      BY <1>4 DEF ToSet
    <2> QED BY <1>2, <1>4, <2>1 DEF IsInjective
  <1> QED BY <1>1, <1>3, <1>4 DEF t

(* A clean-up keeps the keys of live entries, each as often as it was there. *)
LEMMA KeptFacts ==
  ASSUME NEW K, NEW cache, NEW queue \in Seq(K)
  PROVE  /\ KeptKeys(cache, queue) \in Seq(K)
         /\ \A k \in K : k \in ToSet(KeptKeys(cache, queue))
                            <=> k \in ToSet(queue) /\ Live(cache[k])
         /\ IsInjective(queue) => IsInjective(KeptKeys(cache, queue))
  <1> DEFINE f == Kept(cache, queue)
             Has(n, k) == (\E i \in 1 .. n : queue[i] = k) /\ Live(cache[k])
             Good(n) == /\ f[n] \in Seq(K)
                        /\ \A k \in K : k \in ToSet(f[n]) <=> Has(n, k)
                        /\ IsInjective(queue) => IsInjective(f[n])
             G == {n \in Nat : n <= Len(queue) => Good(n)}
  <1>1. Len(queue) \in Nat /\ DOMAIN queue = 1 .. Len(queue) /\ \A i \in 1 .. Len(queue) : queue[i] \in K
    OBVIOUS
  <1>2. /\ KeptKeys(cache, queue) = f[Len(queue)]
        /\ f[0] = <<>>
        /\ \A n \in 1 .. Len(queue) :
              f[n] = IF Live(cache[queue[n]]) THEN Append(f[n - 1], queue[n]) ELSE f[n - 1]
    BY <1>1, KeptTurns
  <1> HIDE DEF f
  <1>3. 0 \in G
    <2>1. f[0] \in Seq(K) /\ DOMAIN f[0] = {}
      BY <1>2
    <2>2. \A k \in K : ~Has(0, k)
      OBVIOUS
    <2> QED BY <2>1, <2>2 DEF ToSet, IsInjective
  <1>4. ASSUME NEW n \in G PROVE n + 1 \in G
    <2> SUFFICES ASSUME n + 1 <= Len(queue) PROVE Good(n + 1)
      OBVIOUS
    <2> DEFINE x == queue[n + 1]
    <2>1. /\ Good(n) /\ n + 1 \in 1 .. Len(queue) /\ n + 1 - 1 = n /\ x \in K
          /\ f[n + 1] = IF Live(cache[x]) THEN Append(f[n], x) ELSE f[n]
      BY <1>1, <1>2
    <2>2. \A k : Has(n + 1, k) <=> Has(n, k) \/ (k = x /\ Live(cache[x]))
      <3>1. \A i \in 1 .. n + 1 : i \in 1 .. n \/ i = n + 1
        OBVIOUS
      <3>2. \A i \in 1 .. n : i \in 1 .. n + 1
        OBVIOUS
      <3> QED BY <2>1, <3>1, <3>2
    <2>3. IsInjective(queue) => ~Has(n, x)
      BY <1>1, <2>1 DEF IsInjective
    <2> HIDE DEF x, Has
    <2>4. CASE Live(cache[x])
      <3>1. /\ Append(f[n], x) \in Seq(K)
            /\ \A k : k \in ToSet(Append(f[n], x)) <=> k \in ToSet(f[n]) \/ k = x
            /\ IsInjective(f[n]) /\ x \notin ToSet(f[n]) => IsInjective(Append(f[n], x))
        BY <2>1, AppendFacts
      <3> QED BY <2>1, <2>2, <2>3, <2>4, <3>1
    <2>5. CASE ~Live(cache[x])
      BY <2>1, <2>2, <2>5
    <2> QED BY <2>4, <2>5
  <1>5. Good(Len(queue))
    <2>1. G \in SUBSET Nat
      OBVIOUS
    <2> HIDE DEF G
    <2>2. G = Nat
      BY <1>3, <1>4, <2>1, CountUp
    <2> QED BY <1>1, <2>2 DEF G
  <1>6. \A k : k \in ToSet(queue) <=> \E i \in 1 .. Len(queue) : queue[i] = k
    BY <1>1 DEF ToSet
  <1> QED BY <1>2, <1>5, <1>6

LEMMA ConcatFacts ==
  ASSUME NEW K, NEW s \in Seq(K), NEW t \in Seq(K)
  PROVE  /\ s \o t \in Seq(K) /\ Len(s \o t) = Len(s) + Len(t)
         /\ DOMAIN (s \o t) = 1 .. Len(s) + Len(t)
         /\ \A i \in 1 .. Len(s) : (s \o t)[i] = s[i]
         /\ \A i \in 1 .. Len(t) : (s \o t)[Len(s) + i] = t[i]
  OBVIOUS

(* A clean-up puts the keys of the live entries among the first to the back. *)
LEMMA CleanedQueue ==
  ASSUME NEW K, NEW cache, NEW queue \in Seq(K)
  PROVE  /\ QueueAfterGc(cache, queue) \in Seq(K)
         /\ \A k \in ToSet(queue) :
               Live(cache[k]) \/ k \notin ToSet(Checked(queue)) => k \in ToSet(QueueAfterGc(cache, queue))
         /\ IsInjective(queue) => IsInjective(QueueAfterGc(cache, queue))
         /\ Len(queue) <= GcChunk => \A k \in ToSet(QueueAfterGc(cache, queue)) : k \in K /\ Live(cache[k])
  <1> DEFINE checked == Checked(queue)
             c == Len(checked)
             rest == SubSeq(queue, c + 1, Len(queue))
             kept == KeptKeys(cache, checked)
             clean == QueueAfterGc(cache, queue)
  <1>1. /\ checked \in Seq(K) /\ c = IF Len(queue) < GcChunk THEN Len(queue) ELSE GcChunk
        /\ \A i \in 1 .. c : checked[i] = queue[i]
    BY GcChunkAssumption DEF Checked
  <1>2. Len(queue) \in Nat /\ c \in Nat /\ c <= Len(queue)
    BY <1>1, GcChunkAssumption
  <1> HIDE DEF checked, c
  <1>3. /\ rest \in Seq(K) /\ Len(rest) = Len(queue) - c
        /\ \A i \in 1 .. Len(queue) - c : rest[i] = queue[c + i]
    BY <1>2
  <1>4. /\ kept \in Seq(K)
        /\ \A k \in K : k \in ToSet(kept) <=> k \in ToSet(checked) /\ Live(cache[k])
        /\ IsInjective(checked) => IsInjective(kept)
    BY <1>1, KeptFacts
  <1>5. clean = rest \o kept
    BY DEF QueueAfterGc, checked, c
  <1> HIDE DEF rest, kept, clean
  <1>6. /\ DOMAIN checked = 1 .. c /\ DOMAIN queue = 1 .. Len(queue)
        /\ DOMAIN rest = 1 .. Len(rest) /\ DOMAIN kept = 1 .. Len(kept) /\ Len(kept) \in Nat
        /\ Len(rest) \in Nat
    BY <1>1, <1>2, <1>3, <1>4 DEF c
  <1>7. /\ clean \in Seq(K) /\ Len(clean) = Len(rest) + Len(kept)
        /\ DOMAIN clean = 1 .. Len(rest) + Len(kept)
        /\ \A i \in 1 .. Len(rest) : clean[i] = rest[i]
        /\ \A i \in 1 .. Len(kept) : clean[Len(rest) + i] = kept[i]
    <2>1. rest \in Seq(K) /\ kept \in Seq(K)
      BY <1>3, <1>4
    <2> QED BY <1>5, <2>1, ConcatFacts
  <1>8. \A i \in DOMAIN clean : \/ i \in DOMAIN rest /\ clean[i] = rest[i]
                                \/ i - Len(rest) \in DOMAIN kept /\ clean[i] = kept[i - Len(rest)]
    <2> SUFFICES ASSUME NEW i \in DOMAIN clean, i \notin DOMAIN rest
                 PROVE  i - Len(rest) \in DOMAIN kept /\ clean[i] = kept[i - Len(rest)]
      BY <1>6, <1>7
    <2>1. i - Len(rest) \in 1 .. Len(kept) /\ Len(rest) + (i - Len(rest)) = i
      BY <1>6, <1>7
    <2> QED BY <1>6, <1>7, <2>1
  <1>9. \A i \in DOMAIN rest : c + i \in DOMAIN queue /\ rest[i] = queue[c + i] /\ c + i \notin DOMAIN checked
    BY <1>2, <1>3, <1>6
  <1>10. \A k : k \in ToSet(clean) <=> k \in ToSet(rest) \/ k \in ToSet(kept)
    <2>1. \A i \in DOMAIN rest : i \in DOMAIN clean /\ clean[i] = rest[i]
      BY <1>6, <1>7
    <2>2. \A i \in DOMAIN kept : Len(rest) + i \in DOMAIN clean /\ clean[Len(rest) + i] = kept[i]
      BY <1>6, <1>7
    <2> QED BY <1>8, <2>1, <2>2 DEF ToSet
  <1>11. ASSUME NEW k \in ToSet(queue), Live(cache[k]) \/ k \notin ToSet(checked)
         PROVE  k \in ToSet(clean)
    <2>1. PICK i \in DOMAIN queue : queue[i] = k
      BY DEF ToSet
    <2>2. k \in K
      BY <1>6, <2>1
    <2>3. CASE i <= c
      <3>1. k \in ToSet(checked)
        BY <1>1, <1>6, <2>1, <2>3 DEF ToSet
      <3> QED BY <1>4, <1>10, <1>11, <2>2, <3>1
    <2>4. CASE i > c
      <3>1. i - c \in DOMAIN rest /\ c + (i - c) = i
        BY <1>2, <1>3, <1>6, <2>4
      <3>2. rest[i - c] = k
        BY <1>9, <2>1, <3>1
      <3> QED BY <1>10, <3>1, <3>2 DEF ToSet
    <2> QED BY <1>2, <1>6, <2>3, <2>4
  <1>12. ASSUME IsInjective(queue) PROVE IsInjective(clean)
    <2>1. IsInjective(kept)
      <3>1. ASSUME NEW i \in DOMAIN checked PROVE i \in DOMAIN queue /\ checked[i] = queue[i]
        <4>1. i \in 1 .. c
          BY <1>6
        <4>2. checked[i] = queue[i]
          BY <1>1, <4>1, Zenon
        <4>3. i \in 1 .. Len(queue)
          BY <1>2, <4>1, SMT
        <4> QED BY <1>6, <4>2, <4>3, Zenon
      <3> QED BY <1>4, <1>12, <3>1 DEF IsInjective
    <2>2. IsInjective(rest)
      BY <1>2, <1>6, <1>9, <1>12 DEF IsInjective
    <2>3. \A i \in DOMAIN rest, j \in DOMAIN kept : rest[i] # kept[j]
      <3> SUFFICES ASSUME NEW i \in DOMAIN rest, NEW j \in DOMAIN kept, rest[i] = kept[j]
                   PROVE  FALSE
        OBVIOUS
      <3>1. kept[j] \in K /\ kept[j] \in ToSet(kept)
        BY <1>4, <1>6 DEF ToSet
      <3>2. PICK l \in DOMAIN checked : checked[l] = kept[j]
        BY <1>4, <3>1 DEF ToSet
      <3>3. l \in DOMAIN queue /\ queue[l] = queue[c + i]
        <4>1. l \in DOMAIN queue /\ checked[l] = queue[l]
          <5>1. l \in 1 .. c
            BY <1>6, <3>2
          <5>2. l \in 1 .. Len(queue)
            BY <1>2, <5>1
          <5> QED BY <1>1, <1>6, <5>1, <5>2
        <4> QED BY <1>9, <3>2, <4>1
      <3>4. l = c + i
        BY <1>9, <1>12, <3>3 DEF IsInjective
      <3> QED BY <1>9, <3>2, <3>4
    <2> SUFFICES ASSUME NEW i \in DOMAIN clean, NEW j \in DOMAIN clean, clean[i] = clean[j]
                 PROVE  i = j
      BY DEF IsInjective
    <2>4. i \in Nat /\ j \in Nat
      BY <1>6, <1>7
    <2>5. CASE i \in DOMAIN rest /\ clean[i] = rest[i]
      BY <1>8, <2>2, <2>3, <2>5 DEF IsInjective
    <2>6. CASE i - Len(rest) \in DOMAIN kept /\ clean[i] = kept[i - Len(rest)]
      <3>1. j - Len(rest) \in DOMAIN kept /\ clean[j] = kept[j - Len(rest)]
        BY <1>8, <2>3, <2>6
      <3>2. i - Len(rest) = j - Len(rest)
        BY <2>1, <2>6, <3>1 DEF IsInjective
      <3> QED BY <1>6, <2>4, <3>2
    <2> QED BY <1>8, <2>5, <2>6
  <1>13. ASSUME Len(queue) <= GcChunk, NEW k \in ToSet(clean) PROVE k \in K /\ Live(cache[k])
    <2>1. DOMAIN rest = {}
      <3>1. c = Len(queue)
        BY <1>1, <1>2, <1>13, GcChunkAssumption
      <3> QED BY <1>2, <1>3, <1>6, <3>1
    <2>2. k \in ToSet(kept)
      BY <1>10, <1>13, <2>1 DEF ToSet
    <2>3. k \in K
      BY <1>4, <1>6, <2>2 DEF ToSet
    <2> QED BY <1>4, <2>2, <2>3
  <1> QED BY <1>7, <1>11, <1>12, <1>13 DEF clean, checked

-----------------------------------------------------------------------------
(* A cache and its queue: every entry is queued, and no key twice as long as one    *)
(* clean-up looks at all keys.                                                *)
Covered(cache, queue, keys) ==
    /\ \A key \in keys : cache[key] # Absent => key \in ToSet(queue)
    /\ Cardinality(keys) <= GcChunk => IsInjective(queue)

KeysInv ==
    /\ wasmKeys \in Seq(VmKeys) /\ Covered(localWasms, wasmKeys, VmKeys)
    /\ pluginKeys \in Seq(Plugins) /\ Covered(localPlugins, pluginKeys, Plugins)

LEMMA NoLongerThan ==
  ASSUME NEW K, IsFiniteSet(K), NEW queue \in Seq(K), IsInjective(queue)
  PROVE  Len(queue) <= Cardinality(K)
  <1>1. Len(queue) \in Nat /\ DOMAIN queue = 1 .. Len(queue) /\ queue \in [1 .. Len(queue) -> K]
    OBVIOUS
  <1>2. IsFiniteSet(1 .. Len(queue)) /\ Cardinality(1 .. Len(queue)) = Len(queue)
    <2>1. /\ IsFiniteSet(1 .. Len(queue))
          /\ Cardinality(1 .. Len(queue)) = IF 1 > Len(queue) THEN 0 ELSE Len(queue) - 1 + 1
      BY <1>1, FS_Interval
    <2> QED BY <1>1, <2>1
  <1>3. Cardinality(K) \in Nat
    BY FS_CardinalityType
  <1>4. ASSUME Cardinality(K) < Len(queue) PROVE FALSE
    <2>1. \E x, y \in 1 .. Len(queue) : x # y /\ queue[x] = queue[y]
      BY <1>1, <1>2, <1>4, FS_PigeonHole
    <2> QED BY <1>1, <2>1 DEF IsInjective
  <1> QED BY <1>1, <1>3, <1>4

(* After a look-up that missed and the clean-up that follows, all that is cached     *)
(* is still queued, and the key that was looked up is not.                       *)
LEMMA CleanedCovers ==
  ASSUME NEW K, IsFiniteSet(K), NEW cache \in [K -> Entries], NEW key \in K,
         NEW queue \in Seq(K), Covered(cache, queue, K)
  PROVE  /\ QueueAfterGc(Missed(cache, key), queue) \in Seq(K)
         /\ Covered(CacheAfterGc(Missed(cache, key), queue), QueueAfterGc(Missed(cache, key), queue), K)
         /\ Cardinality(K) <= GcChunk => key \notin ToSet(QueueAfterGc(Missed(cache, key), queue))
  <1> DEFINE missed == Missed(cache, key)
             clean == QueueAfterGc(missed, queue)
  <1>1. /\ missed \in [K -> Entries] /\ missed[key] = Absent
        /\ \A k \in K : missed[k] # Absent => cache[k] # Absent
    BY DEF Missed, Entries
  <1> HIDE DEF missed
  <1>2. /\ clean \in Seq(K)
        /\ \A k \in ToSet(queue) :
              Live(missed[k]) \/ k \notin ToSet(Checked(queue)) => k \in ToSet(clean)
        /\ IsInjective(queue) => IsInjective(clean)
        /\ Len(queue) <= GcChunk => \A k \in ToSet(clean) : k \in K /\ Live(missed[k])
    BY CleanedQueue
  <1> HIDE DEF clean
  <1>3. ASSUME NEW k \in K, CacheAfterGc(missed, queue)[k] # Absent PROVE k \in ToSet(clean)
    <2>1. /\ missed[k] # Absent
          /\ k \notin ToSet(Checked(queue)) \/ missed[k] # Expired
      BY <1>1, <1>3 DEF CacheAfterGc
    <2>2. k \in ToSet(queue)
      BY <1>1, <2>1 DEF Covered
    <2>3. Live(missed[k]) \/ k \notin ToSet(Checked(queue))
      BY <1>1, <2>1 DEF Live, Entries
    <2> QED BY <1>2, <2>2, <2>3
  <1>4. ASSUME Cardinality(K) <= GcChunk PROVE key \notin ToSet(clean)
    <2>1. Len(queue) <= Cardinality(K)
      BY <1>4, NoLongerThan DEF Covered
    <2>2. Len(queue) <= GcChunk
      <3>1. Len(queue) \in Nat /\ Cardinality(K) \in Nat
        BY FS_CardinalityType
      <3> QED BY <1>4, <2>1, <3>1, GcChunkAssumption
    <2> QED BY <1>1, <1>2, <2>2, MarksAssumption DEF Live
  <1>5. Covered(CacheAfterGc(missed, queue), clean, K)
    BY <1>2, <1>3 DEF Covered
  <1> QED BY <1>2, <1>4, <1>5 DEF clean, missed

LEMMA FewerCovered ==
  ASSUME NEW keys, NEW before, NEW after, NEW queue, Covered(before, queue, keys),
         \A key \in keys : after[key] # Absent => before[key] # Absent
  PROVE  Covered(after, queue, keys)
  BY DEF Covered

(* A key is queued when it gets its entry. *)
LEMMA OneMoreCovered ==
  ASSUME NEW keys, NEW before, NEW after, NEW queue \in Seq(keys), NEW key \in keys,
         Covered(before, queue, keys), Cardinality(keys) <= GcChunk => key \notin ToSet(queue),
         \A k \in keys \ {key} : after[k] # Absent => before[k] # Absent
  PROVE  Append(queue, key) \in Seq(keys) /\ Covered(after, Append(queue, key), keys)
  BY AppendFacts DEF Covered

LEMMA InitKeysInv == Init => KeysInv
  BY DEF Init, KeysInv, Covered, IsInjective

(* What both ways to create a plugin have in common. *)
LEMMA CreateKeys ==
  ASSUME CachesOK, KeysInv, NEW p \in Plugins, NEW v \in Vms, NEW s, NEW a1, NEW a2,
         NEW wasms \in [VmKeys -> Entries], CreatePluginOn(v, s, wasms, p, a1, a2)
  PROVE  /\ \A key \in VmKeys : localWasms'[key] # Absent => wasms[key] # Absent
         /\ pluginKeys' \in Seq(Plugins) /\ Covered(localPlugins', pluginKeys', Plugins)
  <1> DEFINE k == VmKeyOf[p]
             s1 == AfterStart(s, p, a1)
             s2 == AfterConfigure(s1, a2)
             ok1 == StartSucceeds(s, p, a1)
             ok == ok1 /\ ConfigureSucceeds(s1, a2)
             end == IF ok1 THEN s2 ELSE s1
             hs == IF ok THEN handles \cup {<<p, v>>} ELSE handles
             trapped == end.failed /\ ~s.failed
             wasms1 == IF trapped THEN [wasms EXCEPT ![k] = Absent] ELSE wasms
             clean == CleanedPlugins(p)
             queue == QueueAfterGc(Missed(localPlugins, p), pluginKeys)
             plugins == IF trapped THEN [q \in Plugins |-> IF q \in s.onFail THEN Absent ELSE clean[q]]
                                   ELSE clean
  <1>1. /\ localWasms' = IF InUse(v, hs) THEN wasms1 ELSE Expire(wasms1, v)
        /\ localPlugins' = IF ok THEN [plugins EXCEPT ![p] = v] ELSE plugins
        /\ pluginKeys' = IF ok THEN Append(queue, p) ELSE queue
    BY DEF CreatePluginOn
  <1>2. localPlugins \in [Plugins -> Entries]
    BY DEF CachesOK, Entries
  <1>3. /\ queue \in Seq(Plugins) /\ Covered(clean, queue, Plugins)
        /\ Cardinality(Plugins) <= GcChunk => p \notin ToSet(queue)
    BY <1>2, FiniteAssumption, CleanedCovers DEF CleanedPlugins, KeysInv
  <1>4. DOMAIN clean = Plugins
    BY <1>2 DEF CleanedPlugins, CacheAfterGc, Missed
  <1> HIDE DEF clean, queue, ok, trapped, hs
  <1>5. /\ DOMAIN plugins = Plugins
        /\ \A q \in Plugins : plugins[q] # Absent => clean[q] # Absent
    BY <1>4
  <1>6. wasms1 \in [VmKeys -> Entries] /\ \A key \in VmKeys : wasms1[key] # Absent => wasms[key] # Absent
    BY DEF Entries
  <1> HIDE DEF plugins, wasms1
  <1>7. \A key \in VmKeys : localWasms'[key] # Absent => wasms[key] # Absent
    BY <1>1, <1>6, MarksAssumption DEF Expire
  <1>8. CASE ok
    <2>1. \A q \in Plugins \ {p} : localPlugins'[q] # Absent => clean[q] # Absent
      BY <1>1, <1>5, <1>8
    <2>2. pluginKeys' = Append(queue, p)
      BY <1>1, <1>8
    <2> QED BY <1>3, <1>7, <2>1, <2>2, OneMoreCovered
  <1>9. CASE ~ok
    <2>1. localPlugins' = plugins /\ pluginKeys' = queue
      BY <1>1, <1>9
    <2> QED BY <1>3, <1>5, <1>7, <2>1, FewerCovered
  <1> QED BY <1>8, <1>9

LEMMA NextKeysInv ==
  ASSUME CachesOK, KeysInv, [Next]_vars  PROVE KeysInv'
  <1>1. /\ localWasms \in [VmKeys -> Entries] /\ localPlugins \in [Plugins -> Entries]
    BY DEF CachesOK, Entries
  <1>2. ASSUME NEW k \in VmKeys
        PROVE  /\ CleanedWasmKeys(k) \in Seq(VmKeys) /\ Covered(CleanedWasms(k), CleanedWasmKeys(k), VmKeys)
               /\ Cardinality(VmKeys) <= GcChunk => k \notin ToSet(CleanedWasmKeys(k))
               /\ CleanedWasms(k) \in [VmKeys -> Entries]
    <2>1. CleanedWasms(k) \in [VmKeys -> Entries]
      BY <1>1 DEF CleanedWasms, CacheAfterGc, Missed, Entries
    <2> QED BY <1>1, <2>1, FiniteAssumption, CleanedCovers DEF KeysInv, CleanedWasms, CleanedWasmKeys
  <1>3. ASSUME NEW p \in Plugins, CloneFails(p) PROVE KeysInv'
    <2>1. VmKeyOf[p] \in VmKeys
      BY PluginsAssumption
    <2>2. wasmKeys' = CleanedWasmKeys(VmKeyOf[p]) /\ localWasms' = CleanedWasms(VmKeyOf[p])
      BY <1>3 DEF CloneFails
    <2>3. pluginKeys' \in Seq(Plugins) /\ Covered(localPlugins', pluginKeys', Plugins)
      BY <1>1, <1>3, FiniteAssumption, CleanedCovers DEF KeysInv, CloneFails, CleanPlugins, CleanedPlugins
    <2> QED BY <1>2, <2>1, <2>2, <2>3 DEF KeysInv
  <1>4. ASSUME NEW p \in Plugins, CreatePluginOnCachedVm(p) PROVE KeysInv'
    <2> DEFINE v == localWasms[VmKeyOf[p]]
    <2>1. PICK a1 \in StartAnswers, a2 \in ConfigureAnswers :
             v \in Vms /\ wasmKeys' = wasmKeys /\ CreatePluginOn(v, vm[v], localWasms, p, a1, a2)
      BY <1>4 DEF CreatePluginOnCachedVm, Live
    <2> HIDE DEF v
    <2>2. /\ \A key \in VmKeys : localWasms'[key] # Absent => localWasms[key] # Absent
          /\ pluginKeys' \in Seq(Plugins) /\ Covered(localPlugins', pluginKeys', Plugins)
      BY <1>1, <2>1, CreateKeys
    <2> QED BY <2>1, <2>2, FewerCovered DEF KeysInv
  <1>5. ASSUME NEW p \in Plugins, CreatePluginOnNewVm(p) PROVE KeysInv'
    <2> DEFINE k == VmKeyOf[p]
               new == [key |-> k, failed |-> FALSE, roots |-> {}, onFail |-> {}]
    <2>1. PICK v \in Vms, a1 \in StartAnswers, a2 \in ConfigureAnswers :
             /\ wasmKeys' = Append(CleanedWasmKeys(k), k)
             /\ CreatePluginOn(v, new, [CleanedWasms(k) EXCEPT ![k] = v], p, a1, a2)
      BY <1>5 DEF CreatePluginOnNewVm
    <2>2. k \in VmKeys
      BY PluginsAssumption
    <2> HIDE DEF k, new
    <2>3. [CleanedWasms(k) EXCEPT ![k] = v] \in [VmKeys -> Entries]
      BY <1>2, <2>2 DEF Entries
    <2>4. /\ \A key \in VmKeys : localWasms'[key] # Absent => [CleanedWasms(k) EXCEPT ![k] = v][key] # Absent
          /\ pluginKeys' \in Seq(Plugins) /\ Covered(localPlugins', pluginKeys', Plugins)
      BY <2>1, <2>3, CreateKeys
    <2>5. \A key \in VmKeys \ {k} : localWasms'[key] # Absent => CleanedWasms(k)[key] # Absent
      BY <1>2, <2>2, <2>4
    <2>6. wasmKeys' \in Seq(VmKeys) /\ Covered(localWasms', wasmKeys', VmKeys)
      BY <1>2, <2>1, <2>2, <2>5, OneMoreCovered
    <2> QED BY <2>4, <2>6 DEF KeysInv
  <1>6. ASSUME NEW p \in Plugins, NEW v \in Vms, NEW trap \in BOOLEAN, ReleasePlugin(p, v, trap)
        PROVE  KeysInv'
    <2>1. /\ \A q \in Plugins : localPlugins'[q] # Absent => localPlugins[q] # Absent
          /\ \A key \in VmKeys : localWasms'[key] # Absent => localWasms[key] # Absent
      BY <1>1, <1>6, MarksAssumption DEF ReleasePlugin, ErasePluginsOnFail, EraseWasmOnFail, Expire
    <2> QED BY <1>6, <2>1, FewerCovered DEF KeysInv, ReleasePlugin
  <1>7. ASSUME NEW k \in VmKeys, GetThreadLocalWasmMiss(k) PROVE KeysInv'
    BY <1>2, <1>7 DEF KeysInv, GetThreadLocalWasmMiss
  <1>8. ASSUME NEW v \in Vms, Trap(v) PROVE KeysInv'
    <2>1. /\ \A q \in Plugins : localPlugins'[q] # Absent => localPlugins[q] # Absent
          /\ \A key \in VmKeys : localWasms'[key] # Absent => localWasms[key] # Absent
      BY <1>1, <1>8 DEF Trap, ErasePluginsOnFail, EraseWasmOnFail
    <2> QED BY <1>8, <2>1, FewerCovered DEF KeysInv, Trap
  <1>9. CASE UNCHANGED vars
    BY <1>9 DEF vars, KeysInv, Covered
  <1> QED BY <1>3, <1>4, <1>5, <1>6, <1>7, <1>8, <1>9 DEF Next

-----------------------------------------------------------------------------
LEMMA NextInv == ~ForeignCalls /\ Inv /\ [Next]_vars => Inv'
  <1> SUFFICES ASSUME ~ForeignCalls, Inv, [Next]_vars PROVE Inv'
    OBVIOUS
  <1>1. CASE UNCHANGED vars
    <2>1. UNCHANGED <<localWasms, localPlugins, vm, handles, baseFailed>>
      BY <1>1 DEF vars
    <2>2. CachesOK' /\ VmsAreUsed'
      BY <2>1 DEF Inv, CachesOK, VmsAreUsed, InUse
    <2>3. WorkingVmIsCached'
      BY <2>1 DEF Inv, WorkingVmIsCached, Healthy, Live
    <2>4. KeysMatch' /\ HandlesAreCached'
      BY <2>1 DEF Inv, KeysMatch, HandlesAreCached, Healthy, Live
    <2> QED BY <2>2, <2>3, <2>4 DEF Inv
  <1>2. ASSUME NEW p \in Plugins, CloneFails(p) PROVE Inv'
    BY <1>2, CloneFailsStep
  <1>3. ASSUME NEW p \in Plugins, CreatePluginOnCachedVm(p) PROVE Inv'
    BY <1>3, CachedVmStep
  <1>4. ASSUME NEW p \in Plugins, CreatePluginOnNewVm(p) PROVE Inv'
    BY <1>4, NewVmStep
  <1>5. ASSUME NEW p \in Plugins, NEW v \in Vms, NEW trap \in BOOLEAN, ReleasePlugin(p, v, trap)
        PROVE  Inv'
    BY <1>5, ReleaseStep
  <1>6. ASSUME NEW k \in VmKeys, GetThreadLocalWasmMiss(k) PROVE Inv'
    BY <1>6, MissStep
  <1>7. ASSUME NEW v \in Vms, Trap(v) PROVE Inv'
    BY <1>7, TrapStep
  <1> QED BY <1>1, <1>2, <1>3, <1>4, <1>5, <1>6, <1>7 DEF Next

(* As long as a VM is the thread's cached one, its plugin handles are the cached  *)
(* ones (getOrCreateThreadLocalPlugin makes no second handle for a root context),  *)
(* if the host makes no foreign call to a failed VM.                            *)
THEOREM CachedHandles ==
  ASSUME ~ForeignCalls PROVE Spec => []CachesAgree
  <1>1. Inv => CachesAgree
    BY PluginsAssumption DEF Inv, CachesAgree, WorkingVmIsCached, HandlesAreCached, Healthy, Live
  <1>2. Inv /\ [Next]_vars => Inv'
    BY NextInv
  <1> QED BY InitInv, <1>1, <1>2, PTL DEF Spec

(* local_wasms names no VM that has failed: the fail callback and the destructor   *)
(* of the handle, between them, are always in time.                             *)
THEOREM OnlyWorkingVmsCached ==
  ASSUME ~ForeignCalls PROVE Spec => []NoFailedVmCached
  <1>1. Inv => NoFailedVmCached
    BY DEF Inv, NoFailedVmCached, WorkingVmIsCached, Healthy
  <1>2. Inv /\ [Next]_vars => Inv'
    BY NextInv
  <1> QED BY InitInv, <1>1, <1>2, PTL DEF Spec

(* However plugins are asked for and dropped and whichever guests trap, a thread   *)
(* never has two working VMs of one vm_key.                                     *)
THEOREM OneWorkingVm ==
  ASSUME ~ForeignCalls PROVE Spec => []OneHealthyVm
  <1>1. Inv => OneHealthyVm
    BY DEF Inv, OneHealthyVm, WorkingVmIsCached, Healthy
  <1>2. Inv /\ [Next]_vars => Inv'
    BY NextInv
  <1> QED BY InitInv, <1>1, <1>2, PTL DEF Spec

(* The caches do not grow with dead VMs: whatever is cached is queued to be looked at     *)
(* again; and the queues do not grow either, as long as one clean-up sees all keys.       *)
THEOREM CachesAreCovered ==
  ASSUME ~ForeignCalls PROVE Spec => []QueuesCoverCaches
  <1>1. Inv /\ KeysInv => QueuesCoverCaches
    BY DEF Inv, KeysInv, Covered, QueuesCoverCaches, TypeOK
  <1>2. Inv /\ KeysInv /\ [Next]_vars => Inv' /\ KeysInv'
    BY NextInv, NextKeysInv DEF Inv
  <1> QED BY InitInv, InitKeysInv, <1>1, <1>2, PTL DEF Spec

-----------------------------------------------------------------------------
(* The command line host.  First, what FilterVms and SendTraffic make of their sets *)
(* and sequences.                                                            *)
LEMMA SequenceOfSet ==
  ASSUME NEW S, IsFiniteSet(S)
  PROVE  /\ SetToSeq(S) \in Seq(S)
         /\ ToSet(SetToSeq(S)) \subseteq S
  <1>1. Cardinality(S) \in Nat /\ \E f \in [1 .. Cardinality(S) -> S] : IsInjective(f)
    <2>1. PICK f : f \in Bijection(1 .. Cardinality(S), S)
      BY FS_CardinalityType DEF ExistsBijection
    <2>2. f \in [1 .. Cardinality(S) -> S] /\ IsInjective(f)
      BY <2>1 DEF Bijection, Injection, IsInjective
    <2> QED BY <2>2, FS_CardinalityType
  <1>2. SetToSeq(S) \in [1 .. Cardinality(S) -> S]
    BY <1>1 DEF SetToSeq
  <1> QED BY <1>1, <1>2 DEF ToSet

(* The sequences joined so far. *)
IsJoined(seqs, last, f) ==
    f = [i \in 1 .. last |-> IF i = 1 THEN seqs[i] ELSE f[i - 1] \o seqs[i]]
Joined(seqs) == CHOOSE f : IsJoined(seqs, Len(seqs), f)

LEMMA JoinedExists ==
  ASSUME NEW seqs, NEW last \in Nat
  PROVE  \E f : IsJoined(seqs, last, f)
  <1> DEFINE G == {m \in Nat : \E f : IsJoined(seqs, m, f)}
  <1>1. 0 \in G
    <2> DEFINE f == [i \in 1 .. 0 |-> <<>>]
    <2>1. IsJoined(seqs, 0, f)
      BY DEF IsJoined
    <2> QED BY <2>1
  <1>2. ASSUME NEW m \in G PROVE m + 1 \in G
    <2>1. PICK f : IsJoined(seqs, m, f)
      OBVIOUS
    <2>2. \A i \in 1 .. m : f[i] = IF i = 1 THEN seqs[i] ELSE f[i - 1] \o seqs[i]
      BY <2>1 DEF IsJoined
    <2> DEFINE new == IF m = 0 THEN seqs[1] ELSE f[m] \o seqs[m + 1]
               g == [i \in 1 .. m + 1 |-> IF i = m + 1 THEN new ELSE f[i]]
    <2>3. IsJoined(seqs, m + 1, g)
      <3> SUFFICES ASSUME NEW i \in 1 .. m + 1
                   PROVE  g[i] = IF i = 1 THEN seqs[i] ELSE g[i - 1] \o seqs[i]
        BY DEF IsJoined
      <3>1. CASE i = m + 1
        <4>1. g[i] = new /\ i - 1 = m /\ (m # 0 => m \in 1 .. m + 1 /\ m # m + 1) /\ (i = 1 <=> m = 0)
          BY <3>1
        <4>2. m # 0 => g[i - 1] = f[m]
          BY <4>1
        <4> HIDE DEF g
        <4> QED BY <3>1, <4>1, <4>2
      <3>2. CASE i \in 1 .. m
        <4>1. g[i] = f[i] /\ (i # 1 => g[i - 1] = f[i - 1])
          BY <3>2
        <4> HIDE DEF g
        <4> QED BY <2>2, <3>2, <4>1
      <3> QED BY <3>1, <3>2
    <2> QED BY <2>3
  <1>3. G = Nat
    <2> HIDE DEF G
    <2>1. G \in SUBSET Nat
      BY DEF G
    <2> QED BY <1>1, <1>2, <2>1, CountUp
  <1> QED BY <1>3

LEMMA ConcatSet ==
  ASSUME NEW S, NEW s \in Seq(S), NEW t \in Seq(S)
  PROVE  /\ s \o t \in Seq(S)
         /\ \A x \in ToSet(s \o t) : x \in ToSet(s) \/ x \in ToSet(t)
         /\ Len(s \o t) = Len(s) + Len(t)
  <1>1. /\ s \o t \in Seq(S) /\ DOMAIN (s \o t) = 1 .. Len(s) + Len(t)
        /\ Len(s \o t) = Len(s) + Len(t) /\ Len(s) \in Nat /\ Len(t) \in Nat
        /\ DOMAIN s = 1 .. Len(s) /\ DOMAIN t = 1 .. Len(t)
        /\ \A i \in 1 .. Len(s) : (s \o t)[i] = s[i]
        /\ \A i \in 1 .. Len(t) : (s \o t)[Len(s) + i] = t[i]
    BY ConcatFacts
  <1>2. ASSUME NEW i \in DOMAIN (s \o t) PROVE (s \o t)[i] \in ToSet(s) \/ (s \o t)[i] \in ToSet(t)
    <2>1. CASE i \in 1 .. Len(s)
      BY <1>1, <2>1 DEF ToSet
    <2>2. CASE i \notin 1 .. Len(s)
      <3>1. i - Len(s) \in 1 .. Len(t) /\ Len(s) + (i - Len(s)) = i
        BY <1>1, <2>2
      <3> QED BY <1>1, <3>1 DEF ToSet
    <2> QED BY <2>1, <2>2
  <1> QED BY <1>1, <1>2 DEF ToSet

(* One sequence after the other, or the same several times, has the elements of      *)
(* the one, and has some if it has.                                            *)
LEMMA RepeatedSequence ==
  ASSUME NEW S, NEW q \in Seq(S), NEW n \in Nat \ {0}
  PROVE  LET flat == FlattenSeq([j \in 1 .. n |-> q])
         IN  /\ flat \in Seq(S)
             /\ \A i \in ToSet(flat) : i \in ToSet(q)
             /\ q # <<>> => flat # <<>>
  <1> DEFINE seqs == [j \in 1 .. n |-> q]
             f == Joined(seqs)
             flat == FlattenSeq(seqs)
  <1>1. Len(seqs) = n /\ \A i \in 1 .. n : seqs[i] = q
    OBVIOUS
  <1> HIDE DEF seqs
  <1>2. flat = f[n]
    BY <1>1 DEF FlattenSeq, Joined, IsJoined
  <1>3. IsJoined(seqs, n, f)
    <2>1. \E h : IsJoined(seqs, n, h)
      BY JoinedExists
    <2> QED BY <1>1, <2>1 DEF Joined
  <1> HIDE DEF f
  <1>4. \A i \in 1 .. n : f[i] = IF i = 1 THEN q ELSE f[i - 1] \o q
    BY <1>1, <1>3 DEF IsJoined
  <1> DEFINE Good(s) == /\ s \in Seq(S)
                        /\ \A i \in ToSet(s) : i \in ToSet(q)
                        /\ q # <<>> => Len(s) > 0
             G == {m \in Nat : m < n => Good(f[m + 1])}
  <1>5. 0 \in G
    <2>1. f[1] = q
      BY <1>4
    <2> QED BY <2>1
  <1>6. ASSUME NEW m \in G PROVE m + 1 \in G
    <2> SUFFICES ASSUME m + 1 < n PROVE Good(f[m + 2])
      OBVIOUS
    <2>1. m \in Nat /\ Good(f[m + 1])
      OBVIOUS
    <2>2. f[m + 2] = f[m + 1] \o q
      <3>1. \A i \in 1 .. n : i # 1 => f[i] = f[i - 1] \o q
        BY <1>4
      <3>2. m + 2 \in 1 .. n /\ m + 2 # 1 /\ (m + 2) - 1 = m + 1
        BY <2>1
      <3>3. f[m + 2] = f[(m + 2) - 1] \o q
        BY <3>1, <3>2
      <3> QED BY <3>2, <3>3
    <2>3. /\ f[m + 1] \o q \in Seq(S)
          /\ \A i \in ToSet(f[m + 1] \o q) : i \in ToSet(f[m + 1]) \/ i \in ToSet(q)
          /\ Len(f[m + 1] \o q) = Len(f[m + 1]) + Len(q)
      BY <2>1, ConcatSet
    <2>4. Len(f[m + 1]) \in Nat /\ Len(q) \in Nat
      BY <2>1
    <2> QED BY <2>1, <2>2, <2>3, <2>4
  <1>7. Good(f[n])
    <2>1. G \in SUBSET Nat
      OBVIOUS
    <2> HIDE DEF G
    <2>2. G = Nat
      BY <1>5, <1>6, <2>1, CountUp
    <2>3. n - 1 \in G /\ n - 1 < n /\ n - 1 + 1 = n
      BY <2>2
    <2> QED BY <2>3 DEF G
  <1>8. flat \in Seq(S) /\ (\A i \in ToSet(flat) : i \in ToSet(q)) /\ (q # <<>> => Len(flat) > 0)
    BY <1>2, <1>7
  <1> HIDE DEF flat
  <1>9. q # <<>> => flat # <<>>
    BY <1>8
  <1> QED BY <1>8, <1>9 DEF flat, seqs

-----------------------------------------------------------------------------
Info == [name : Names \cup {NoName}, ready : BOOLEAN, level : Levels, nextId : Nat, given : SUBSET Nat]
Key == Projects \X Names
Request == [doing : {"nothing", "launch", "register", "packet", "count", "call"},
            key : Key \cup {<<>>}, name : Names \cup {NoName}, level : Levels,
            todo : Seq(Nat), made : Nat, id : Nat]

(* What a request r has in its hands, of the VM infos in table. *)
Holds(r, table) ==
    /\ r.doing \in {"launch", "register"} => r.key \in Key
    /\ r.doing = "register" => r.made \in DOMAIN table
    /\ r.doing \in {"packet", "count", "call"} => r.todo # <<>>
    /\ r.doing = "count" => table[Head(r.todo)].ready
    /\ \A i \in ToSet(r.todo) :
          i \in DOMAIN table /\ (r.name # NoName => table[i].name = r.name)

(* A VM info has a name only if its VM is up. *)
InfosSound ==
    \A i \in DOMAIN infos :
        /\ infos[i].name # NoName => infos[i].ready
        /\ infos[i].given \cap {0, 1} = {}

MapSound == DOMAIN vms \subseteq Key /\ Range(vms) \subseteq DOMAIN infos

Launching == {t \in Threads : thread[t].doing = "launch"}
Room == Len(infos) + Cardinality(Launching) <= MaxInfos

ManagerInv ==
    /\ up \in BOOLEAN /\ infos \in Seq(Info) /\ thread \in [Threads -> Request]
    /\ MapSound /\ InfosSound /\ Room
    /\ \A t \in Threads : Holds(thread[t], infos)

LEMMA ManagerInitInv == ManagerInit => ManagerInv
  <1> SUFFICES ASSUME ManagerInit PROVE ManagerInv
    OBVIOUS
  <1>1. Idle \in Request /\ Idle.doing = "nothing" /\ Idle.todo = <<>>
    BY DEF Idle, Request, Levels
  <1>2. /\ infos = <<>> /\ infos \in Seq(Info) /\ DOMAIN infos = {} /\ Len(infos) = 0
        /\ vms = <<>> /\ DOMAIN vms = {}
        /\ thread \in [Threads -> Request] /\ \A t \in Threads : thread[t] = Idle
    BY <1>1 DEF ManagerInit
  <1>3. Launching = {}
    BY <1>1, <1>2 DEF Launching
  <1>4. Cardinality(Launching) = 0
    BY <1>3, FS_EmptySet
  <1>5. ToSet(<<>>) = {}
    BY DEF ToSet
  <1>6. MapSound /\ InfosSound /\ Room
    BY <1>2, <1>4, WasmManagerAssumption DEF MapSound, InfosSound, Room, Range
  <1>7. \A t \in Threads : Holds(thread[t], infos)
    BY <1>1, <1>2, <1>5 DEF Holds
  <1> QED BY <1>2, <1>6, <1>7 DEF ManagerInv, ManagerInit

(* The infos are never deleted, and once made their names and VMs stay. *)
Grows(before, after) ==
    /\ Len(before) <= Len(after)
    /\ \A i \in DOMAIN before : after[i].name = before[i].name /\ after[i].ready = before[i].ready

LEMMA HoldsOn ==
  ASSUME NEW before \in Seq(Info), NEW after \in Seq(Info), Grows(before, after),
         NEW r \in Request, Holds(r, before)
  PROVE  Holds(r, after)
  <1>1. \A i \in DOMAIN before : i \in DOMAIN after
    BY DEF Grows
  <1>2. r.doing = "count" => Head(r.todo) \in ToSet(r.todo)
    <2> SUFFICES ASSUME r.doing = "count" PROVE Head(r.todo) \in ToSet(r.todo)
      OBVIOUS
    <2>1. r.todo \in Seq(Nat) /\ r.todo # <<>>
      BY DEF Request, Holds
    <2>2. 1 \in DOMAIN r.todo /\ Head(r.todo) = r.todo[1]
      BY <2>1
    <2> QED BY <2>2 DEF ToSet
  <1>3. \A i \in ToSet(r.todo) :
          i \in DOMAIN after /\ (r.name # NoName => after[i].name = r.name)
    BY <1>1 DEF Holds, Grows
  <1>4. r.doing = "count" => after[Head(r.todo)].ready
    BY <1>2 DEF Holds, Grows
  <1> QED BY <1>1, <1>3, <1>4 DEF Holds

(* How many are launching after a thread has got a new request. *)
LEMMA LaunchersChange ==
  ASSUME ManagerInv, NEW t \in Threads, NEW r \in Request, Becomes(t, r)
  PROVE  /\ Cardinality(Launching) \in Nat /\ Cardinality(Launching') \in Nat
         /\ Cardinality(Launching') <= Cardinality(Launching) + 1
         /\ r.doing # "launch" => Cardinality(Launching') <= Cardinality(Launching)
         /\ r.doing # "launch" /\ thread[t].doing = "launch" =>
               Cardinality(Launching') + 1 <= Cardinality(Launching)
  <1> DEFINE L == Launching
             M == Launching'
  <1>1. /\ thread' \in [Threads -> Request] /\ thread'[t] = r
        /\ \A u \in Threads \ {t} : thread'[u] = thread[u]
    BY DEF ManagerInv, Becomes
  <1>2. /\ L \in SUBSET Threads /\ M \in SUBSET Threads
        /\ \A u \in Threads \ {t} : u \in M <=> u \in L
        /\ t \in M <=> r.doing = "launch"
        /\ t \in L <=> thread[t].doing = "launch"
    BY <1>1 DEF Launching
  <1> HIDE DEF L, M
  <1>3. IsFiniteSet(L) /\ IsFiniteSet(M)
    BY <1>2, WasmManagerAssumption, FS_Subset
  <1>4. Cardinality(L) \in Nat /\ Cardinality(M) \in Nat
    BY <1>3, FS_CardinalityType
  <1>5. M \subseteq L \cup {t}
    BY <1>2
  <1>6. /\ IsFiniteSet(L \cup {t})
        /\ Cardinality(L \cup {t}) = IF t \in L THEN Cardinality(L) ELSE Cardinality(L) + 1
    BY <1>3, FS_AddElement
  <1>7. Cardinality(M) <= Cardinality(L) + 1
    <2>1. Cardinality(M) <= Cardinality(L \cup {t})
      BY <1>5, <1>6, FS_Subset
    <2> QED BY <1>4, <1>6, <2>1
  <1>8. ASSUME r.doing # "launch" PROVE Cardinality(M) <= Cardinality(L)
    <2>1. M \subseteq L
      BY <1>2, <1>8
    <2> QED BY <1>3, <2>1, FS_Subset
  <1>9. ASSUME r.doing # "launch", thread[t].doing = "launch"
        PROVE  Cardinality(M) + 1 <= Cardinality(L)
    <2>1. M = L \ {t} /\ t \in L
      BY <1>2, <1>9
    <2>2. Cardinality(L \ {t}) = Cardinality(L) - 1
      BY <1>3, <2>1, FS_RemoveElement
    <2> QED BY <1>4, <2>1, <2>2
  <1> QED BY <1>4, <1>7, <1>8, <1>9 DEF L, M

(* A thread gets a new request; VM infos may be added and counted up. *)
LEMMA RequestStep ==
  ASSUME ManagerInv, NEW t \in Threads, NEW r \in Request, Becomes(t, r), UNCHANGED up,
         infos' \in Seq(Info), Grows(infos, infos'), InfosSound', MapSound', Room',
         Holds(r, infos')
  PROVE  ManagerInv'
  <1>1. /\ thread' \in [Threads -> Request] /\ thread'[t] = r
        /\ \A u \in Threads \ {t} : thread'[u] = thread[u]
    BY DEF ManagerInv, Becomes
  <1>2. ASSUME NEW u \in Threads \ {t} PROVE Holds(thread'[u], infos')
    <2>1. thread[u] \in Request /\ Holds(thread[u], infos) /\ infos \in Seq(Info)
      BY DEF ManagerInv
    <2> QED BY <1>1, <2>1, HoldsOn
  <1>3. \A u \in Threads : Holds(thread'[u], infos')
    BY <1>1, <1>2
  <1> QED BY <1>1, <1>3 DEF ManagerInv

(* The same, when the infos and the map are left alone. *)
LEMMA QuietStep ==
  ASSUME ManagerInv, NEW t \in Threads, NEW r \in Request, Becomes(t, r), UNCHANGED <<up, vms, infos>>,
         r.doing # "launch", Holds(r, infos)
  PROVE  ManagerInv'
  <1>1. Grows(infos, infos') /\ infos' \in Seq(Info)
    BY DEF Grows, ManagerInv
  <1>2. InfosSound' /\ MapSound'
    BY DEF ManagerInv, InfosSound, MapSound
  <1>3. Room'
    <2>1. /\ Cardinality(Launching) \in Nat /\ Cardinality(Launching') \in Nat
          /\ Cardinality(Launching') <= Cardinality(Launching)
      BY LaunchersChange
    <2>2. Len(infos) \in Nat /\ Len(infos') = Len(infos) /\ Len(infos) + Cardinality(Launching) <= MaxInfos
      BY DEF ManagerInv, Room
    <2> QED BY <2>1, <2>2, WasmManagerAssumption DEF Room
  <1> QED BY <1>1, <1>2, <1>3, RequestStep

LEMMA IdleFacts ==
  /\ Idle \in Request /\ Idle.doing = "nothing" /\ Idle.todo = <<>>
  /\ \A table : Holds(Idle, table)
  <1>1. Idle \in Request /\ Idle.doing = "nothing" /\ Idle.todo = <<>>
    BY DEF Idle, Request, Levels
  <1>2. ToSet(<<>>) = {}
    BY DEF ToSet
  <1> QED BY <1>1, <1>2 DEF Holds

LEMMA Registering ==
  ASSUME NEW q \in Request, NEW i \in Nat
  PROVE  LET r == [q EXCEPT !.doing = "register", !.made = i]
         IN  /\ r \in Request /\ r.doing = "register" /\ r.made = i
             /\ r.key = q.key /\ r.name = q.name /\ r.todo = q.todo
  BY DEF Request

LEMMA LaunchInstanceStep ==
  ASSUME ManagerInv, NEW t \in Threads, NEW project \in Projects, NEW name \in Names,
         NEW level \in Levels, LaunchInstance(t, project, name, level)
  PROVE  ManagerInv'
  <1> DEFINE r == [Idle EXCEPT !.doing = "launch", !.key = <<project, name>>,
                               !.level = IF level = "invalid" THEN "debug" ELSE level]
  <1>1. /\ Becomes(t, r) /\ UNCHANGED <<up, vms, infos>>
        /\ Len(infos) + Cardinality(Launching) < MaxInfos
    BY DEF LaunchInstance, Launching
  <1>2. r \in Request /\ r.doing = "launch" /\ r.key \in Key /\ r.todo = <<>>
    <2> DEFINE l == IF level = "invalid" THEN "debug" ELSE level
    <2>1. l \in Levels /\ <<project, name>> \in Key
      BY DEF Levels, Key
    <2> DEFINE k == <<project, name>>
               q == Idle
    <2>2. r = [q EXCEPT !.doing = "launch", !.key = k, !.level = l] /\ q \in Request /\ q.todo = <<>>
      BY IdleFacts
    <2> HIDE DEF r, l, k, q
    <2> QED BY <2>1, <2>2 DEF Request, k
  <1> HIDE DEF r
  <1>3. Holds(r, infos')
    <2>1. ToSet(<<>>) = {}
      BY DEF ToSet
    <2> QED BY <1>2, <2>1 DEF Holds
  <1>4. Grows(infos, infos') /\ infos' \in Seq(Info) /\ InfosSound' /\ MapSound'
    BY <1>1 DEF ManagerInv, Grows, InfosSound, MapSound
  <1>5. Room'
    <2>1. /\ Cardinality(Launching) \in Nat /\ Cardinality(Launching') \in Nat
          /\ Cardinality(Launching') <= Cardinality(Launching) + 1
      BY <1>1, <1>2, LaunchersChange
    <2>2. Len(infos) \in Nat /\ Len(infos') = Len(infos)
      BY <1>1 DEF ManagerInv
    <2> QED BY <1>1, <2>1, <2>2, WasmManagerAssumption DEF Room
  <1> QED BY <1>1, <1>2, <1>3, <1>4, <1>5, RequestStep

(* Every VM info that a launch makes is whole or has no name. *)
LEMMA LaunchesStep ==
  ASSUME ManagerInv, NEW t \in Threads, Launches(t)
  PROVE  ManagerInv'
  <1>1. CASE Crashes
    BY <1>1 DEF Crashes, ManagerInv, MapSound, InfosSound, Room, Launching
  <1>2. CASE ~Crashes
    <2> DEFINE q == thread[t]
               r == [q EXCEPT !.doing = "register", !.made = Len(infos) + 1]
    <2>1. PICK info \in LaunchVm(q.key[2], q.level) :
             infos' = Append(infos, info) /\ Becomes(t, r) /\ UNCHANGED <<up, vms>> /\ q.doing = "launch"
      BY <1>2 DEF Launches, Is
    <2>2. q \in Request /\ Holds(q, infos) /\ q.key \in Key
      BY <2>1 DEF ManagerInv, Holds
    <2> HIDE DEF q
    <2>3. /\ info \in Info /\ (info.name # NoName => info.ready) /\ info.given = {}
      <3>1. q.key[2] \in Names /\ q.level \in Levels
        BY <2>2 DEF Key, Request
      <3>2. ToWasmLogLevel(q.level) \in Levels /\ "debug" \in Levels
        BY DEF ToWasmLogLevel, Levels
      <3>3. CASE info = Empty
        BY <3>2, <3>3 DEF Empty, Info
      <3>4. CASE info = Filled(q.key[2], q.level)
        BY <3>1, <3>2, <3>4 DEF Filled, Info
      <3> QED BY <3>3, <3>4 DEF LaunchVm
    <2>4. /\ infos \in Seq(Info) /\ Len(infos) \in Nat /\ DOMAIN infos = 1 .. Len(infos)
          /\ infos' \in Seq(Info) /\ Len(infos') = Len(infos) + 1 /\ DOMAIN infos' = 1 .. Len(infos) + 1
          /\ \A i \in 1 .. Len(infos) : infos'[i] = infos[i]
          /\ infos'[Len(infos) + 1] = info
      BY <2>1, <2>3 DEF ManagerInv
    <2>5. Grows(infos, infos')
      BY <2>4 DEF Grows
    <2>6. InfosSound'
      <3>1. \A i \in DOMAIN infos' : i \in DOMAIN infos \/ infos'[i] = info
        BY <2>4
      <3> QED BY <2>3, <2>4, <3>1 DEF ManagerInv, InfosSound
    <2>7. MapSound'
      BY <2>1, <2>4 DEF ManagerInv, MapSound
    <2>8. /\ r \in Request /\ r.doing = "register" /\ r.made = Len(infos) + 1
          /\ r.key = q.key /\ r.name = q.name /\ r.todo = q.todo
      <3>1. Len(infos) + 1 \in Nat
        BY <2>4
      <3> QED BY <2>2, <3>1, Registering
    <2> HIDE DEF r
    <2>9. Holds(r, infos')
      <3>1. Holds(q, infos')
        BY <2>2, <2>4, <2>5, HoldsOn
      <3> QED BY <2>2, <2>4, <2>8, <3>1 DEF Holds
    <2>10. Room'
      <3>1. /\ Cardinality(Launching) \in Nat /\ Cardinality(Launching') \in Nat
            /\ Cardinality(Launching') + 1 <= Cardinality(Launching)
        BY <2>1, <2>8, LaunchersChange DEF q
      <3>2. Len(infos) + Cardinality(Launching) <= MaxInfos
        BY DEF ManagerInv, Room
      <3> QED BY <2>4, <3>1, <3>2, WasmManagerAssumption DEF Room
    <2> QED BY <2>1, <2>4, <2>5, <2>6, <2>7, <2>8, <2>9, <2>10, RequestStep
  <1> QED BY <1>1, <1>2

LEMMA RegistersStep ==
  ASSUME ManagerInv, NEW t \in Threads, Registers(t)
  PROVE  ManagerInv'
  <1> DEFINE q == thread[t]
  <1>1. /\ vms' = [key \in DOMAIN vms \cup {q.key} |-> IF key = q.key THEN q.made ELSE vms[key]]
        /\ Becomes(t, Idle) /\ UNCHANGED <<up, infos>> /\ q.doing = "register"
    BY DEF Registers, Is
  <1>2. q.key \in Key /\ q.made \in DOMAIN infos
    BY <1>1 DEF ManagerInv, Holds
  <1> HIDE DEF q
  <1>3. MapSound'
    BY <1>1, <1>2 DEF ManagerInv, MapSound, Range
  <1>4. Grows(infos, infos') /\ infos' \in Seq(Info) /\ InfosSound'
    BY <1>1 DEF ManagerInv, Grows, InfosSound
  <1>5. Room'
    <2>1. /\ Cardinality(Launching) \in Nat /\ Cardinality(Launching') \in Nat
          /\ Cardinality(Launching') <= Cardinality(Launching)
      BY <1>1, IdleFacts, LaunchersChange
    <2>2. Len(infos) \in Nat /\ Len(infos') = Len(infos) /\ Len(infos) + Cardinality(Launching) <= MaxInfos
      BY <1>1 DEF ManagerInv, Room
    <2> QED BY <2>1, <2>2, WasmManagerAssumption DEF Room
  <1> QED BY <1>1, <1>3, <1>4, <1>5, IdleFacts, RequestStep

LEMMA CrashStep ==
  ASSUME ManagerInv, Crashes PROVE ManagerInv'
  BY DEF Crashes, ManagerInv, MapSound, InfosSound, Room, Launching

(* What FilterVms finds are VM infos of that name. *)
LEMMA Filtered ==
  ASSUME ManagerInv, NEW name
  PROVE  /\ FilterVms(name) \in Seq(Nat)
         /\ \A i \in ToSet(FilterVms(name)) :
               i \in DOMAIN infos /\ (name # NoName => infos[i].name = name)
  <1> DEFINE S == {i \in Range(vms) : name \in {NoName, infos[i].name}}
  <1>1. /\ infos \in Seq(Info) /\ Range(vms) \subseteq DOMAIN infos
        /\ DOMAIN infos = 1 .. Len(infos) /\ Len(infos) \in Nat
    BY DEF ManagerInv, MapSound
  <1>2. IsFiniteSet(DOMAIN infos)
    BY <1>1, FS_Interval
  <1>3. S \subseteq DOMAIN infos /\ S \subseteq Nat /\ (\A i \in S : name # NoName => infos[i].name = name)
    BY <1>1
  <1>4. FilterVms(name) = SetToSeq(S)
    BY DEF FilterVms
  <1> HIDE DEF S
  <1>5. IsFiniteSet(S)
    BY <1>2, <1>3, FS_Subset
  <1>6. SetToSeq(S) \in Seq(S) /\ ToSet(SetToSeq(S)) \subseteq S
    BY <1>5, SequenceOfSet
  <1>7. SetToSeq(S) \in Seq(Nat)
    BY <1>3, <1>6
  <1> QED BY <1>3, <1>4, <1>6, <1>7

LEMMA WasmSettingsStep ==
  ASSUME ManagerInv, NEW t \in Threads, NEW name \in Names, NEW level \in Levels,
         WasmSettings(t, name, level)
  PROVE  ManagerInv'
  <1>1. CASE Crashes
    BY <1>1, CrashStep
  <1>2. CASE ~Crashes
    <2> DEFINE chosen == ToSet(FilterVms(name))
               lvl == ToWasmLogLevel(level)
    <2>1. /\ infos' = [i \in DOMAIN infos |-> IF i \in chosen THEN [infos[i] EXCEPT !.level = lvl]
                                              ELSE infos[i]]
          /\ UNCHANGED <<up, vms, thread>>
      BY <1>2 DEF WasmSettings
    <2>2. infos \in Seq(Info) /\ Len(infos) \in Nat /\ DOMAIN infos = 1 .. Len(infos)
      BY DEF ManagerInv
    <2>3. lvl \in Levels
      BY DEF ToWasmLogLevel, Levels
    <2> HIDE DEF chosen, lvl
    <2>4. ASSUME NEW i \in DOMAIN infos
          PROVE  /\ infos'[i] \in Info /\ infos'[i].name = infos[i].name
                 /\ infos'[i].ready = infos[i].ready /\ infos'[i].given = infos[i].given
      <3>1. infos[i] \in Info
        BY <2>2
      <3>2. infos'[i] = infos[i] \/ infos'[i] = [infos[i] EXCEPT !.level = lvl]
        BY <2>1
      <3> QED BY <2>3, <3>1, <3>2 DEF Info
    <2>5. DOMAIN infos' = 1 .. Len(infos) /\ infos' \in Seq(Info) /\ Len(infos') = Len(infos)
      <3>1. infos' \in [1 .. Len(infos) -> Info]
        BY <2>1, <2>2, <2>4
      <3> QED BY <2>2, <3>1
    <2>6. Grows(infos, infos')
      BY <2>2, <2>4, <2>5 DEF Grows
    <2>7. InfosSound' /\ MapSound' /\ Room'
      BY <2>1, <2>2, <2>4, <2>5 DEF ManagerInv, InfosSound, MapSound, Room, Launching
    <2>8. ASSUME NEW u \in Threads PROVE Holds(thread'[u], infos')
      <3>1. thread[u] \in Request /\ Holds(thread[u], infos)
        BY DEF ManagerInv
      <3> QED BY <2>1, <2>2, <2>5, <2>6, <3>1, HoldsOn
    <2> QED BY <2>1, <2>5, <2>7, <2>8 DEF ManagerInv
  <1> QED BY <1>1, <1>2

LEMMA SendTrafficStep ==
  ASSUME ManagerInv, NEW t \in Threads, NEW name \in Names, NEW packets \in 1 .. MaxPackets,
         SendTraffic(t, name, packets)
  PROVE  ManagerInv'
  <1> DEFINE q == FilterVms(name)
             todo == FlattenSeq([j \in 1 .. packets |-> q])
             r == [Idle EXCEPT !.doing = "packet", !.name = name, !.todo = todo]
  <1>1. q # <<>> /\ Becomes(t, r) /\ UNCHANGED <<up, vms, infos>>
    BY DEF SendTraffic
  <1>2. /\ q \in Seq(Nat)
        /\ \A i \in ToSet(q) : i \in DOMAIN infos /\ (name # NoName => infos[i].name = name)
    BY Filtered
  <1> HIDE DEF q
  <1>3. todo \in Seq(Nat) /\ (\A i \in ToSet(todo) : i \in ToSet(q)) /\ todo # <<>>
    <2>1. packets \in Nat \ {0}
      BY WasmManagerAssumption
    <2> QED BY <1>1, <1>2, <2>1, RepeatedSequence
  <1> HIDE DEF todo
  <1>4. r \in Request /\ r.doing = "packet" /\ r.name = name /\ r.todo = todo
    BY <1>3 DEF Idle, Request, Levels
  <1> HIDE DEF r
  <1>5. Holds(r, infos)
    BY <1>2, <1>3, <1>4 DEF Holds
  <1> QED BY <1>1, <1>4, <1>5, QuietStep

LEMMA ProcessedStep ==
  ASSUME ManagerInv, NEW t \in Threads, thread[t].doing \in {"packet", "call"},
         Processed(t), UNCHANGED <<up, vms, infos>>
  PROVE  ManagerInv'
  <1> DEFINE q == thread[t]
             todo == Tail(q.todo)
             r == IF todo = <<>> THEN Idle ELSE [q EXCEPT !.todo = todo, !.doing = "packet"]
  <1>1. Becomes(t, r)
    BY DEF Processed
  <1>2. q \in Request /\ Holds(q, infos) /\ q.todo # <<>>
    BY DEF ManagerInv, Holds
  <1> HIDE DEF q
  <1>3. /\ q.todo \in Seq(Nat) /\ todo \in Seq(Nat) /\ \A i \in ToSet(todo) : i \in ToSet(q.todo)
    <2>1. q.todo \in Seq(Nat)
      BY <1>2 DEF Request
    <2>2. /\ todo \in Seq(Nat) /\ Len(q.todo) \in Nat /\ Len(q.todo) > 0
          /\ DOMAIN todo = 1 .. Len(q.todo) - 1 /\ DOMAIN q.todo = 1 .. Len(q.todo)
          /\ \A i \in DOMAIN todo : todo[i] = q.todo[i + 1]
      BY <1>2, <2>1
    <2>3. \A i \in DOMAIN todo : i + 1 \in DOMAIN q.todo
      BY <2>2
    <2> HIDE DEF todo
    <2> QED BY <2>1, <2>2, <2>3 DEF ToSet
  <1> HIDE DEF todo
  <1>4. CASE todo = <<>>
    <2>1. r = Idle
      BY <1>4
    <2> QED BY <1>1, <2>1, IdleFacts, QuietStep
  <1>5. CASE todo # <<>>
    <2>1. r \in Request /\ r.doing = "packet" /\ r.name = q.name /\ r.todo = todo
      BY <1>2, <1>3, <1>5 DEF Request
    <2> HIDE DEF r
    <2>2. Holds(r, infos)
      BY <1>2, <1>3, <1>5, <2>1 DEF Holds
    <2> QED BY <1>1, <2>1, <2>2, QuietStep
  <1> QED BY <1>4, <1>5

LEMMA StartsPacketStep ==
  ASSUME ManagerInv, NEW t \in Threads, StartsPacket(t)
  PROVE  ManagerInv'
  <1> DEFINE q == thread[t]
             info == infos[Goal(t)]
             r == [q EXCEPT !.doing = "count", !.id = info.nextId]
  <1>1. q.doing = "packet"
    BY DEF StartsPacket, Is
  <1>2. CASE info.ready
    <2>1. Becomes(t, r) /\ UNCHANGED <<up, vms, infos>>
      BY <1>2 DEF StartsPacket
    <2>2. q \in Request /\ Holds(q, infos) /\ q.todo # <<>> /\ q.todo \in Seq(Nat)
      BY <1>1 DEF ManagerInv, Holds, Request
    <2>3. Goal(t) = Head(q.todo) /\ Head(q.todo) \in ToSet(q.todo)
      BY <2>2 DEF Goal, ToSet
    <2>4. infos[Head(q.todo)] \in Info
      BY <2>2, <2>3 DEF ManagerInv, Holds
    <2>5. info.nextId \in Nat /\ infos[Head(q.todo)].ready
      BY <1>2, <2>3, <2>4 DEF Info
    <2> HIDE DEF q, info
    <2>6. r \in Request /\ r.doing = "count" /\ r.name = q.name /\ r.todo = q.todo
      BY <2>2, <2>5 DEF Request
    <2> HIDE DEF r
    <2>7. Holds(r, infos)
      BY <2>2, <2>5, <2>6 DEF Holds
    <2> QED BY <2>1, <2>6, <2>7, QuietStep
  <1>3. CASE ~info.ready
    <2>1. Crashes
      BY <1>3 DEF StartsPacket
    <2> QED BY <2>1, CrashStep
  <1> QED BY <1>2, <1>3

(* A counted id is not that of the root or the VM context. *)
LEMMA CountsIdStep ==
  ASSUME ManagerInv, NEW t \in Threads, CountsId(t)
  PROVE  ManagerInv'
  <1> DEFINE q == thread[t]
             g == Goal(t)
             id == q.id
             after == (id + 1) % IdSpace
             r == IF id \in Registered(g) THEN [q EXCEPT !.doing = "packet"]
                                          ELSE [q EXCEPT !.doing = "call"]
  <1>1. /\ q.doing = "count" /\ UNCHANGED <<up, vms>> /\ Becomes(t, r)
        /\ infos' = IF id \in Registered(g) THEN [infos EXCEPT ![g].nextId = after]
                    ELSE [infos EXCEPT ![g].nextId = after, ![g].given = @ \cup {id}]
    BY DEF CountsId, Is
  <1>2. q \in Request /\ Holds(q, infos) /\ q.todo # <<>> /\ q.todo \in Seq(Nat) /\ id \in Nat
    BY <1>1 DEF ManagerInv, Holds, Request
  <1>3. g = Head(q.todo) /\ g \in ToSet(q.todo)
    BY <1>2 DEF Goal, ToSet
  <1>4. /\ infos \in Seq(Info) /\ Len(infos) \in Nat /\ DOMAIN infos = 1 .. Len(infos)
        /\ g \in DOMAIN infos /\ infos[g] \in Info /\ infos[g].ready
    BY <1>1, <1>2, <1>3 DEF ManagerInv, Holds
  <1>5. Registered(g) = {0, 1}
    BY <1>4 DEF Registered
  <1>6. after \in Nat
    BY <1>2, WasmManagerAssumption
  <1>7. /\ r \in Request /\ r.doing \in {"packet", "call"} /\ r.name = q.name /\ r.todo = q.todo
    BY <1>2 DEF Request
  <1> HIDE DEF q, g, id, after, r
  <1>8. /\ infos'[g] \in Info /\ infos'[g].name = infos[g].name /\ infos'[g].ready = infos[g].ready
        /\ infos'[g].given = infos[g].given \/ (infos'[g].given = infos[g].given \cup {id} /\ id \notin {0, 1})
    <2>1. CASE id \in Registered(g)
      <3>1. infos'[g] = [infos[g] EXCEPT !.nextId = after]
        BY <1>1, <1>4, <2>1
      <3> QED BY <1>4, <1>6, <3>1 DEF Info
    <2>2. CASE id \notin Registered(g)
      <3>1. infos'[g] = [infos[g] EXCEPT !.nextId = after, !.given = @ \cup {id}]
        BY <1>1, <1>4, <2>2
      <3>2. infos[g].given \in SUBSET Nat /\ infos[g].given \cup {id} \in SUBSET Nat
        BY <1>2, <1>4 DEF Info, id
      <3>3. infos'[g] = [infos[g] EXCEPT !.nextId = after, !.given = infos[g].given \cup {id}]
        BY <1>4, <3>1 DEF Info
      <3>4. /\ infos'[g] \in Info /\ infos'[g].name = infos[g].name
            /\ infos'[g].ready = infos[g].ready /\ infos'[g].given = infos[g].given \cup {id}
        <4> DEFINE info == infos[g]
                   new == infos'[g]
                   ids == infos[g].given \cup {id}
        <4>1. /\ info \in Info /\ after \in Nat /\ ids \in SUBSET Nat
              /\ new = [info EXCEPT !.nextId = after, !.given = ids]
          BY <1>4, <1>6, <3>2, <3>3
        <4> HIDE DEF info, new, ids
        <4>2. new \in Info /\ new.name = info.name /\ new.ready = info.ready /\ new.given = ids
          BY <4>1 DEF Info
        <4> QED BY <4>2 DEF info, new, ids
      <3>5. id \notin {0, 1}
        BY <1>5, <2>2
      <3> QED BY <3>4, <3>5
    <2> QED BY <2>1, <2>2
  <1>9. DOMAIN infos' = DOMAIN infos /\ \A i \in DOMAIN infos \ {g} : infos'[i] = infos[i]
    BY <1>1, <1>4
  <1>10. infos' \in Seq(Info) /\ Len(infos') = Len(infos)
    <2>1. \A i \in 1 .. Len(infos) : infos'[i] \in Info
      BY <1>4, <1>8, <1>9
    <2>2. infos' \in [1 .. Len(infos) -> Info]
      <3>1. infos' = [i \in DOMAIN infos |-> infos'[i]]
        BY <1>1
      <3> QED BY <1>4, <2>1, <3>1
    <2> QED BY <1>4, <2>2
  <1>11. Grows(infos, infos')
    <2>1. Len(infos) <= Len(infos')
      BY <1>4, <1>10
    <2>2. \A i \in DOMAIN infos : infos'[i].name = infos[i].name /\ infos'[i].ready = infos[i].ready
      BY <1>8, <1>9
    <2> QED BY <2>1, <2>2 DEF Grows
  <1>12. InfosSound' /\ MapSound'
    <2>1. infos'[g].given \cap {0, 1} = {}
      BY <1>4, <1>8 DEF ManagerInv, InfosSound
    <2>2. ASSUME NEW i \in DOMAIN infos
          PROVE  /\ infos'[i].name # NoName => infos'[i].ready
                 /\ infos'[i].given \cap {0, 1} = {}
      <3>1. /\ infos[i].name # NoName => infos[i].ready
            /\ infos[i].given \cap {0, 1} = {}
        BY DEF ManagerInv, InfosSound
      <3> QED BY <1>8, <1>9, <2>1, <3>1
    <2>3. InfosSound'
      BY <1>9, <2>2 DEF InfosSound
    <2> QED BY <1>1, <1>9, <2>3 DEF ManagerInv, MapSound
  <1>13. Holds(r, infos')
    <2>1. Holds(r, infos)
      BY <1>2, <1>7 DEF Holds
    <2> QED BY <1>4, <1>7, <1>10, <1>11, <2>1, HoldsOn
  <1>14. Room'
    <2>1. /\ Cardinality(Launching) \in Nat /\ Cardinality(Launching') \in Nat
          /\ Cardinality(Launching') <= Cardinality(Launching)
      BY <1>1, <1>7, LaunchersChange
    <2>2. Len(infos) + Cardinality(Launching) <= MaxInfos
      BY DEF ManagerInv, Room
    <2> QED BY <1>4, <1>10, <2>1, <2>2, WasmManagerAssumption DEF Room
  <1> QED BY <1>1, <1>7, <1>10, <1>11, <1>12, <1>13, <1>14, RequestStep

LEMMA RestartStep ==
  ASSUME ManagerInv, Restarts PROVE ManagerInv'
  <1>1. /\ infos' = <<>> /\ infos' \in Seq(Info) /\ DOMAIN infos' = {} /\ Len(infos') = 0
        /\ DOMAIN vms' = {} /\ up' = TRUE
        /\ thread' \in [Threads -> Request] /\ \A t \in Threads : thread'[t] = Idle
    BY IdleFacts DEF Restarts
  <1>2. Cardinality(Launching') = 0
    <2>1. Launching' = {}
      BY <1>1, IdleFacts DEF Launching
    <2> QED BY <2>1, FS_EmptySet
  <1>3. MapSound' /\ InfosSound' /\ Room'
    BY <1>1, <1>2, WasmManagerAssumption DEF MapSound, InfosSound, Room, Range
  <1> QED BY <1>1, <1>3, IdleFacts DEF ManagerInv

LEMMA ManagerNextInv == ManagerInv /\ [ManagerNext]_managerVars => ManagerInv'
  <1> SUFFICES ASSUME ManagerInv, [ManagerNext]_managerVars PROVE ManagerInv'
    OBVIOUS
  <1>1. CASE Restarts
    BY <1>1, RestartStep
  <1>2. ASSUME NEW t \in Threads, ListInstances(t) PROVE ManagerInv'
    BY <1>2, CrashStep DEF ListInstances
  <1>3. ASSUME NEW t \in Threads, CallsGuest(t) PROVE ManagerInv'
    BY <1>3, ProcessedStep DEF CallsGuest, Is
  <1>4. CASE UNCHANGED managerVars
    BY <1>4 DEF managerVars, ManagerInv, MapSound, InfosSound, Room, Launching
  <1> QED BY <1>1, <1>2, <1>3, <1>4, LaunchInstanceStep, LaunchesStep, RegistersStep,
             WasmSettingsStep, SendTrafficStep, StartsPacketStep, CountsIdStep DEF ManagerNext

(* A request by name sends its packets to VMs that have come up whole and bear that name,  *)
(* and no stream gets the id of a root or VM context: for any number of threads, projects,    *)
(* names, VMs and packets, and every width of the ids that has room for a stream.           *)
THEOREM NamedVms == ManagerSpec => []NamedVmsAreSound
  <1>1. ManagerInv => NamedVmsAreSound
    <2> SUFFICES ASSUME ManagerInv PROVE NamedVmsAreSound
      OBVIOUS
    <2>1. ManagerTypeOK
      <3>1. \A t \in Threads : thread[t] \in Request
        BY DEF ManagerInv
      <3>2. Len(infos) <= MaxInfos
        <4>1. Len(infos) \in Nat /\ Len(infos) + Cardinality(Launching) <= MaxInfos
          BY DEF ManagerInv, Room
        <4>2. Cardinality(Launching) \in Nat
          BY WasmManagerAssumption, FS_Subset, FS_CardinalityType DEF Launching
        <4> QED BY <4>1, <4>2, WasmManagerAssumption
      <3> QED BY <3>1, <3>2 DEF ManagerTypeOK, ManagerInv, MapSound, Request, Key
    <2>2. \A t \in Threads : thread[t].name # NoName =>
             \A i \in ToSet(thread[t].todo) : infos[i].ready /\ infos[i].name = thread[t].name
      BY DEF ManagerInv, Holds, InfosSound
    <2> QED BY <2>1, <2>2 DEF NamedVmsAreSound, ManagerInv, InfosSound
  <1> QED BY ManagerInitInv, ManagerNextInv, <1>1, PTL DEF ManagerSpec

=============================================================================
