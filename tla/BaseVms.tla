-------------------------------- MODULE BaseVms --------------------------------
(***************************************************************************)
(* The base VMs of the process (src/wasm.cc: base_wasms, createWasm,         *)
(* WasmHandleBase::canary).  A base VM is loaded and initialized once for a   *)
(* vm_key and handed to the host for each plugin whose configuration was      *)
(* accepted by a clone of it, the canary.                                    *)
(*                                                                         *)
(* base_wasms holds weak pointers and is guarded by base_wasms_mutex, under   *)
(* which a new base VM is also made; canary runs after the mutex was let go,  *)
(* and plugin_canary_cache_ has no lock: its look-up, the run and the store   *)
(* of the verdict are three steps between which another thread may come.      *)
(* (Two threads in the cache of one base VM at once is a data race; the       *)
(* model gives each access to it its ordinary outcome.)                      *)
(***************************************************************************)
EXTENDS FiniteSets

CONSTANTS
    Callers,    \* threads that call createWasm
    VmKeys,
    Plugins,
    VmKeyOf,    \* VmKeyOf[p]: the vm_key of plugin p
    Bases,      \* base VMs that exist at one time: a bound
    None, Expired

(* plugin_canary_cache_ has no entry, or what the canary of a plugin came to. *)
Verdicts == {"unknown", "accepted", "refused"}
Base == [key : VmKeys, failed : BOOLEAN, canary : [Plugins -> Verdicts]]

ASSUME PluginsAssumption == VmKeyOf \in [Plugins -> VmKeys]
ASSUME NoneAssumption == None \notin Base
ASSUME MarksAssumption == None \notin Bases \cup Plugins /\ Expired \notin Bases /\ None # Expired

VARIABLES
    baseWasms,  \* base_wasms: vm_key -> base VM, Expired once it is gone
    base,       \* base VM -> its vm_key, whether it was marked failed, and
                \* plugin_canary_cache_; None if it does not exist
    call,       \* the createWasm call of each thread after the locked part
    kept,       \* <<plugin, base VM>>: the handles that the host holds
    passed      \* ghost: <<plugin, base VM>> of which a canary has succeeded

vars == <<baseWasms, base, call, kept, passed>>

NoCall == [plugin |-> None, base |-> None, at |-> "idle"]

TypeOK ==
    /\ baseWasms \in [VmKeys -> Bases \cup {None, Expired}]
    /\ base \in [Bases -> Base \cup {None}]
    /\ call \in [Callers -> [plugin : Plugins, base : Bases, at : {"check", "run"}] \cup {NoCall}]
    /\ kept \in SUBSET (Plugins \X Bases)
    /\ passed \in SUBSET (Plugins \X Bases)
    /\ \A b \in Bases :
          (base[b] # None) <=> (\E t \in Callers : call[t].base = b)
                                  \/ (\E p \in Plugins : <<p, b>> \in kept)

Init ==
    /\ baseWasms = [k \in VmKeys |-> None]
    /\ base = [b \in Bases |-> None]
    /\ call = [t \in Callers |-> NoCall]
    /\ kept = {}
    /\ passed = {}

-----------------------------------------------------------------------------
Idle(t) == call[t].at = "idle"
NewBase(k) == [key |-> k, failed |-> FALSE, canary |-> [p \in Plugins |-> "unknown"]]
Canary(t) == base[call[t].base].canary[call[t].plugin]

(* What remains when the references calls and handles are left: a base VM      *)
(* without one goes, its weak pointer expires.                               *)
Used(b, calls, handles) ==
    (\E t \in Callers : calls[t].base = b) \/ (\E p \in Plugins : <<p, b>> \in handles)

Leave(calls, handles, bases) ==
    LET dead == {b \in Bases : base[b] # None /\ ~Used(b, calls, handles)} IN
    /\ call' = calls
    /\ kept' = handles
    /\ base' = [b \in Bases |-> IF b \in dead THEN None ELSE bases[b]]
    /\ baseWasms' = [k \in VmKeys |-> IF baseWasms[k] \in dead THEN Expired ELSE baseWasms[k]]

(* createWasm under the mutex: the base VM of the vm_key is there, or a new      *)
(* one is made, or making it fails and an expired entry is gone all the same.    *)
Found(k) == baseWasms[k] \in Bases
StartCanary(t, p, b) == call' = [call EXCEPT ![t] = [plugin |-> p, base |-> b, at |-> "check"]]

CreateWasmFound(t, p) ==
    /\ Idle(t)
    /\ Found(VmKeyOf[p])
    /\ StartCanary(t, p, baseWasms[VmKeyOf[p]])
    /\ UNCHANGED <<baseWasms, base, kept, passed>>

BadCreateWasmNew(t, p, b) ==
    /\ Idle(t)
    /\ base[b] = None
    /\ base' = [base EXCEPT ![b] = NewBase(VmKeyOf[p])]
    /\ baseWasms' = [baseWasms EXCEPT ![VmKeyOf[p]] = b]
    /\ StartCanary(t, p, b)
    /\ passed' = {pb \in passed : pb[2] # b}
    /\ UNCHANGED kept

CreateWasmNew(t, p, b) ==
    /\ Idle(t)
    /\ ~Found(VmKeyOf[p])
    /\ base[b] = None
    /\ base' = [base EXCEPT ![b] = NewBase(VmKeyOf[p])]
    /\ baseWasms' = [baseWasms EXCEPT ![VmKeyOf[p]] = b]
    /\ StartCanary(t, p, b)
    /\ passed' = {pb \in passed : pb[2] # b}
    /\ UNCHANGED kept

CreateWasmFails(t, p) ==
    /\ Idle(t)
    /\ ~Found(VmKeyOf[p])
    /\ baseWasms' = [baseWasms EXCEPT ![VmKeyOf[p]] = None]
    /\ UNCHANGED <<base, call, kept, passed>>

(* canary: the verdict is in the cache.  createWasm returns the handle or      *)
(* nullptr.                                                                  *)
BadCanaryCached(t) ==
    LET c == call[t] IN
    /\ c.at = "check"
    /\ base[c.base].canary # [p \in Plugins |-> "unknown"]
    /\ Leave([call EXCEPT ![t] = NoCall], kept \cup {<<c.plugin, c.base>>}, base)
    /\ UNCHANGED passed

CanaryCached(t) ==
    LET c == call[t] IN
    /\ c.at = "check"
    /\ Canary(t) # "unknown"
    /\ Leave([call EXCEPT ![t] = NoCall],
             IF Canary(t) = "accepted" THEN kept \cup {<<c.plugin, c.base>>} ELSE kept, base)
    /\ UNCHANGED passed

(* It is not, and a clone is made and run. *)
CanaryStarts(t) ==
    /\ call[t].at = "check"
    /\ Canary(t) = "unknown"
    /\ call' = [call EXCEPT ![t].at = "run"]
    /\ UNCHANGED <<baseWasms, base, kept, passed>>

(* The verdict: a clone that cannot be made marks the base VM as failed; one     *)
(* that cannot be initialized or started leaves no verdict; a configuration      *)
(* that is refused, or accepted, does.                                        *)
CanaryEnds(t, outcome) ==
    LET c == call[t]
        verdict == [accepted |-> "accepted", refused |-> "refused",
                    unstarted |-> Canary(t), uncloned |-> Canary(t)][outcome]
    IN
    /\ c.at = "run"
    /\ Leave([call EXCEPT ![t] = NoCall],
             IF outcome = "accepted" THEN kept \cup {<<c.plugin, c.base>>} ELSE kept,
             [base EXCEPT ![c.base].canary[c.plugin] = verdict,
                          ![c.base].failed = @ \/ outcome = "uncloned"])
    /\ passed' = IF outcome = "accepted" THEN passed \cup {<<c.plugin, c.base>>} ELSE passed

(* The host drops a handle. *)
BadRelease(p, b) ==
    /\ <<p, b>> \in kept
    /\ kept' = kept \ {<<p, b>>}
    /\ base' = [base EXCEPT ![b] = None]
    /\ baseWasms' = [baseWasms EXCEPT ![base[b].key] = Expired]
    /\ UNCHANGED <<call, passed>>

Release(p, b) ==
    /\ <<p, b>> \in kept
    /\ Leave(call, kept \ {<<p, b>>}, base)
    /\ UNCHANGED passed

Next ==
    \/ \E t \in Callers :
          \/ \E p \in Plugins :
                \/ CreateWasmFound(t, p)
                \/ \E b \in Bases : CreateWasmNew(t, p, b)
                \/ CreateWasmFails(t, p)
          \/ CanaryCached(t)
          \/ CanaryStarts(t)
          \/ \E outcome \in {"accepted", "refused", "unstarted", "uncloned"} :
                CanaryEnds(t, outcome)
    \/ \E p \in Plugins, b \in Bases : Release(p, b)

Spec == Init /\ [][Next]_vars

-----------------------------------------------------------------------------
(* createWasm never has two base VMs of one vm_key at a time, on whichever       *)
(* threads it runs, so that all plugins of a vm_key share one.  (Its test says  *)
(* "Wasm VM is unique for vm_key".)                                            *)
OneBasePerVmKey ==
    \A b1, b2 \in Bases :
        (base[b1] # None /\ base[b2] # None /\ base[b1].key = base[b2].key) => b1 = b2

(* The host has a handle for a plugin only if a canary of the plugin succeeded    *)
(* on this very base VM, be it in this call or an earlier one, of this thread or *)
(* another.                                                                    *)
HandedOutWereCanaried == kept \subseteq passed
=============================================================================
