--------------------------- MODULE ThreadLocalCache ---------------------------
(***************************************************************************)
(* The caches of one worker thread (src/wasm.cc: local_wasms,               *)
(* local_plugins and their key queues): getThreadLocalWasm,                 *)
(* getOrCreateThreadLocalWasm, getOrCreateThreadLocalPlugin, the callbacks   *)
(* they register with a VM, the destructors of the handles they give out,   *)
(* and as much of WasmBase::start and configure as they look at.            *)
(*                                                                         *)
(* The caches hold weak pointers.  A plugin handle keeps the handle of its   *)
(* VM alive and lives while the host holds it.  Nothing here is shared with  *)
(* another thread, and a call into the guest cannot come back to the caches  *)
(* except through getThreadLocalWasm, so each function is one action; what   *)
(* interleaves is the order in which the host asks for, uses and drops       *)
(* plugins and in which the guests trap.                                    *)
(*                                                                         *)
(* A cached VM or plugin handle is named by its VM: a VM has at most one     *)
(* handle a plugin (see CachesAgree).                                       *)
(***************************************************************************)
EXTENDS Integers, FiniteSets, Sequences, SequencesExt

CONSTANTS
    VmKeys,
    Plugins,
    VmKeyOf,        \* VmKeyOf[p]: vm_key of the base VM the host creates plugin p from
    Vms,            \* VMs of the thread that exist at one time: a bound
    GcChunk,        \* MAX_LOCAL_CACHE_GC_CHUNK_SIZE
    MaxQueue,       \* bound on the length of the key queues
    ForeignCalls,   \* whether the host calls onForeignFunction, which does not ask isFailed
    Absent, Expired \* no cache entry; an entry whose weak pointer has expired

ASSUME PluginsAssumption == VmKeyOf \in [Plugins -> VmKeys]
ASSUME GcChunkAssumption == GcChunk \in Nat \ {0}
ASSUME FiniteAssumption == IsFiniteSet(VmKeys) /\ IsFiniteSet(Plugins)

VARIABLES
    localWasms,     \* local_wasms: vm_key -> VM
    wasmKeys,       \* local_wasms_keys
    localPlugins,   \* local_plugins: plugin -> the VM of the plugin handle
    pluginKeys,     \* local_plugins_keys
    vm,             \* the state of each VM of the thread, Absent if it does not exist
    handles,        \* <<plugin, VM>>: the plugin handles that the host holds
    baseFailed      \* vm_keys whose base VM was marked failed

vars == <<localWasms, wasmKeys, localPlugins, pluginKeys, vm, handles, baseFailed>>

(* roots: keys of root_contexts_; onFail: the plugins whose fail callback the  *)
(* VM has (it has the one of its vm_key from the beginning).                 *)
VmState == [key : VmKeys, failed : BOOLEAN, roots : SUBSET Plugins, onFail : SUBSET Plugins]

ASSUME MarksAssumption ==
    /\ Absent \notin Vms /\ Expired \notin Vms /\ Absent # Expired
    /\ Absent \notin VmState

(* Types, and what a live weak pointer and a handle refer to exists. *)
CachesOK ==
    /\ localWasms \in [VmKeys -> Vms \cup {Absent, Expired}]
    /\ localPlugins \in [Plugins -> Vms \cup {Absent, Expired}]
    /\ vm \in [Vms -> VmState \cup {Absent}]
    /\ handles \in SUBSET (Plugins \X Vms)
    /\ baseFailed \in SUBSET VmKeys
    /\ \A p \in Plugins, v \in Vms : <<p, v>> \in handles => vm[v] # Absent
    /\ \A k \in VmKeys : localWasms[k] \in Vms => vm[localWasms[k]] # Absent
    /\ \A p \in Plugins : localPlugins[p] \in Vms => <<p, localPlugins[p]>> \in handles

TypeOK == CachesOK /\ wasmKeys \in Seq(VmKeys) /\ pluginKeys \in Seq(Plugins)

Init ==
    /\ localWasms = [k \in VmKeys |-> Absent]
    /\ wasmKeys = <<>>
    /\ localPlugins = [p \in Plugins |-> Absent]
    /\ pluginKeys = <<>>
    /\ vm = [v \in Vms |-> Absent]
    /\ handles = {}
    /\ baseFailed = {}

-----------------------------------------------------------------------------
Live(entry) == entry \in Vms

(* removeStaleLocalCacheEntries: of the first GcChunk keys of the queue, those *)
(* whose entry is alive go to the back; the others leave the queue, and their *)
(* entries, if there are any, the cache.                                     *)
Checked(queue) == SubSeq(queue, 1, IF Len(queue) < GcChunk THEN Len(queue) ELSE GcChunk)

KeptKeys(cache, queue) ==
    LET kept[n \in 0 .. Len(queue)] ==
            IF n = 0 THEN <<>>
            ELSE IF Live(cache[queue[n]]) THEN Append(kept[n - 1], queue[n])
            ELSE kept[n - 1]
    IN kept[Len(queue)]

BadQueueAfterGc(cache, queue) ==
    SubSeq(queue, Len(Checked(queue)) + 1, Len(queue))

QueueAfterGc(cache, queue) ==
    SubSeq(queue, Len(Checked(queue)) + 1, Len(queue)) \o KeptKeys(cache, Checked(queue))

BadCacheAfterGcEvicts(cache, queue) ==
    [key \in DOMAIN cache |-> IF key \in ToSet(Checked(queue)) THEN Absent ELSE cache[key]]

CacheAfterGc(cache, queue) ==
    [key \in DOMAIN cache |->
        IF key \in ToSet(Checked(queue)) /\ cache[key] = Expired THEN Absent ELSE cache[key]]

(* What the VM does when it fails: the entry of its vm_key and those of the   *)
(* plugins that have been created on it are erased, whatever they are by now. *)
BadEraseWasmOnFail(wasms, v) == wasms

EraseWasmOnFail(wasms, v) == [wasms EXCEPT ![vm[v].key] = Absent]
ErasePluginsOnFail(plugins, v) ==
    [p \in Plugins |-> IF p \in vm[v].onFail THEN Absent ELSE plugins[p]]

(* The guest's answers to start and configure: whether the VM traps in the    *)
(* call and what the call returns.  on_context_create may trap and            *)
(* on_vm_start, which is called all the same, still return true, or not       *)
(* exist; a trap in on_configure returns false.                              *)
StartAnswers == [trap : BOOLEAN, ok : BOOLEAN]
ConfigureAnswers == {a \in StartAnswers : a.trap => ~a.ok}

(* WasmBase::start(p) and configure(p) on VM state s.  A root context that is *)
(* there already is started again and its answer ignored; a failed VM counts  *)
(* as configured.                                                            *)
StartSucceeds(s, p, a) == p \in s.roots \/ a.ok
AfterStart(s, p, a) ==
    [s EXCEPT !.roots = @ \cup {p}, !.failed = @ \/ a.trap]
ConfigureSucceeds(s, a) == s.failed \/ a.ok
AfterConfigure(s, a) == IF s.failed THEN s ELSE [s EXCEPT !.failed = a.trap]

(* Without the last handle to it the VM goes away with all its root contexts. *)
InUse(v, hs) == \E p \in Plugins : <<p, v>> \in hs
KeepIfUsed(v, hs, s) == IF InUse(v, hs) THEN s ELSE Absent
Expire(cache, v) == [key \in DOMAIN cache |-> IF cache[key] = v THEN Expired ELSE cache[key]]

-----------------------------------------------------------------------------
(* getOrCreateThreadLocalPlugin returns a live handle from the cache and        *)
(* changes nothing.  When it misses, the cache of the plugins is cleaned, ...   *)
Missed(cache, key) == [cache EXCEPT ![key] = Absent]

CleanPlugins(p) ==
    /\ ~Live(localPlugins[p])
    /\ pluginKeys' = QueueAfterGc(Missed(localPlugins, p), pluginKeys)

CleanedPlugins(p) == CacheAfterGc(Missed(localPlugins, p), pluginKeys)
CleanedWasms(k) == CacheAfterGc(Missed(localWasms, k), wasmKeys)
CleanedWasmKeys(k) == QueueAfterGc(Missed(localWasms, k), wasmKeys)

(* ... and the VM cannot be cloned or initialized: the base VM is at fault.   *)
CloneFails(p) ==
    /\ CleanPlugins(p)
    /\ localPlugins' = CleanedPlugins(p)
    /\ LET k == VmKeyOf[p] IN
       /\ ~Live(localWasms[k])
       /\ localWasms' = CleanedWasms(k)
       /\ wasmKeys' = CleanedWasmKeys(k)
       /\ baseFailed' = baseFailed \cup {k}
    /\ UNCHANGED <<vm, handles>>

(* ... and the plugin is started and configured on VM v, which is in state s   *)
(* and under wasms in the cache.  If the VM traps its entry is erased at once; *)
(* the callback for the plugin's entry is only registered at the end.         *)
CreatePluginOn(v, s, wasms, p, a1, a2) ==
    LET k == VmKeyOf[p]
        s1 == AfterStart(s, p, a1)
        s2 == AfterConfigure(s1, a2)
        ok1 == StartSucceeds(s, p, a1)
        ok == ok1 /\ ConfigureSucceeds(s1, a2)
        end == IF ok1 THEN s2 ELSE s1
        hs == IF ok THEN handles \cup {<<p, v>>} ELSE handles
        trapped == end.failed /\ ~s.failed
        wasms1 == IF trapped THEN [wasms EXCEPT ![k] = Absent] ELSE wasms
        plugins == IF trapped
                     THEN [q \in Plugins |-> IF q \in s.onFail THEN Absent ELSE CleanedPlugins(p)[q]]
                     ELSE CleanedPlugins(p)
    IN
    /\ handles' = hs
    /\ vm' = [vm EXCEPT ![v] =
                KeepIfUsed(v, hs, IF ok THEN [end EXCEPT !.onFail = @ \cup {p}] ELSE end)]
    /\ localWasms' = IF InUse(v, hs) THEN wasms1 ELSE Expire(wasms1, v)
    /\ localPlugins' = IF ok THEN [plugins EXCEPT ![p] = v] ELSE plugins
    /\ pluginKeys' = IF ok THEN Append(QueueAfterGc(Missed(localPlugins, p), pluginKeys), p)
                           ELSE QueueAfterGc(Missed(localPlugins, p), pluginKeys)
    /\ baseFailed' = IF ok THEN baseFailed ELSE baseFailed \cup {k}

CreatePluginOnCachedVm(p) ==
    LET v == localWasms[VmKeyOf[p]] IN
    /\ ~Live(localPlugins[p])
    /\ Live(v)
    /\ Len(pluginKeys) < MaxQueue
    /\ \E a1 \in StartAnswers, a2 \in ConfigureAnswers :
          CreatePluginOn(v, vm[v], localWasms, p, a1, a2)
    /\ UNCHANGED wasmKeys

CreatePluginOnNewVm(p) ==
    LET k == VmKeyOf[p]
        new == [key |-> k, failed |-> FALSE, roots |-> {}, onFail |-> {}]
    IN
    /\ ~Live(localPlugins[p])
    /\ ~Live(localWasms[k])
    /\ Len(pluginKeys) < MaxQueue /\ Len(wasmKeys) < MaxQueue
    /\ wasmKeys' = Append(CleanedWasmKeys(k), k)
    /\ \E v \in Vms :
          /\ vm[v] = Absent
          /\ \E a1 \in StartAnswers, a2 \in ConfigureAnswers :
                CreatePluginOn(v, new, [CleanedWasms(k) EXCEPT ![k] = v], p, a1, a2)

(* getThreadLocalWasm, as a queue notification calls it, misses. *)
GetThreadLocalWasmMiss(k) ==
    /\ ~Live(localWasms[k])
    /\ localWasms' = CleanedWasms(k)
    /\ wasmKeys' = CleanedWasmKeys(k)
    /\ UNCHANGED <<localPlugins, pluginKeys, vm, handles, baseFailed>>

(* A call into the VM traps. *)
Trap(v) ==
    /\ vm[v] # Absent
    /\ vm[v].failed => ForeignCalls
    /\ vm' = [vm EXCEPT ![v].failed = TRUE]
    /\ localWasms' = EraseWasmOnFail(localWasms, v)
    /\ localPlugins' = ErasePluginsOnFail(localPlugins, v)
    /\ UNCHANGED <<wasmKeys, pluginKeys, handles, baseFailed>>

(* The host drops its plugin handle: ~PluginHandleBase shuts down the root     *)
(* context, in which the guest may trap, and ~WasmHandleBase, if this was the  *)
(* last handle, the VM.                                                      *)
ReleasePlugin(p, v, trap) ==
    LET hs == handles \ {<<p, v>>}
        s == [vm[v] EXCEPT !.roots = @ \ {p}, !.failed = @ \/ trap]
        plugins == IF localPlugins[p] = v THEN [localPlugins EXCEPT ![p] = Expired]
                                          ELSE localPlugins
        wasms == IF trap THEN EraseWasmOnFail(localWasms, v) ELSE localWasms
    IN
    /\ <<p, v>> \in handles
    /\ trap => ~vm[v].failed
    /\ handles' = hs
    /\ vm' = [vm EXCEPT ![v] = KeepIfUsed(v, hs, s)]
    /\ localPlugins' = IF trap THEN ErasePluginsOnFail(plugins, v) ELSE plugins
    /\ localWasms' = IF InUse(v, hs) THEN wasms ELSE Expire(wasms, v)
    /\ UNCHANGED <<wasmKeys, pluginKeys, baseFailed>>

Next ==
    \/ \E p \in Plugins :
          \/ CloneFails(p)
          \/ CreatePluginOnCachedVm(p)
          \/ CreatePluginOnNewVm(p)
          \/ \E v \in Vms, trap \in BOOLEAN : ReleasePlugin(p, v, trap)
    \/ \E k \in VmKeys : GetThreadLocalWasmMiss(k)
    \/ \E v \in Vms : Trap(v)

Spec == Init /\ [][Next]_vars

-----------------------------------------------------------------------------
(* Every cache entry has its key in the queue, so that it is looked at again   *)
(* and removed once it is stale: the caches do not grow with dead VMs.  While   *)
(* a clean-up looks at every key (up to 64 of them), none is queued twice, so   *)
(* that the queues do not grow either; with more keys than that they do.       *)
QueuesCoverCaches ==
    /\ TypeOK
    /\ \A k \in VmKeys : localWasms[k] # Absent => k \in ToSet(wasmKeys)
    /\ \A p \in Plugins : localPlugins[p] # Absent => p \in ToSet(pluginKeys)
    /\ Cardinality(VmKeys) <= GcChunk => IsInjective(wasmKeys)
    /\ Cardinality(Plugins) <= GcChunk => IsInjective(pluginKeys)

(* As long as a VM is the thread's cached one, its plugin handles are the       *)
(* cached ones: no second handle for the same root context can be made, whose  *)
(* destruction would shut it down under the first.  A live entry, of either      *)
(* cache, is of a VM that exists.                                             *)
CachesAgree ==
    /\ CachesOK
    /\ \A p \in Plugins, v \in Vms :
        (<<p, v>> \in handles /\ localWasms[VmKeyOf[p]] = v) => localPlugins[p] = v

(* The thread-local cache never names a VM that has failed. *)
NoFailedVmCached == \A k \in VmKeys : Live(localWasms[k]) => ~vm[localWasms[k]].failed

(* A thread has one working VM a vm_key; others are failed and go when the      *)
(* host lets go of their plugins.                                             *)
OneHealthyVm ==
    \A v, w \in Vms :
        (vm[v] # Absent /\ vm[w] # Absent /\ vm[v].key = vm[w].key
           /\ ~vm[v].failed /\ ~vm[w].failed) => v = w

=============================================================================
