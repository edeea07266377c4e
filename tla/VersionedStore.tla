---------------------------- MODULE VersionedStore ----------------------------
(***************************************************************************)
(* What the shared data promise a plugin (SharedDataInterface in            *)
(* include/proxy-wasm/context_interface.h): a store in which every write    *)
(* has a version of its own, in the order of the writes, and a conditional  *)
(* write or removal goes through only if there is an entry with the version *)
(* that its caller read (lines 619-620: "must match").  There are no        *)
(* compare-and-swap numbers at this level, and versions do not come back;   *)
(* that numbers do is left here as a caller who may be believed when        *)
(* Horizon writes have passed it by.                                        *)
(***************************************************************************)
EXTENDS Integers

CONSTANTS Clients, VmIds, VmIdOf, Keys, Values, Absent, Horizon

VARIABLES
    store,      \* vm_id -> key -> (value, version)
    now,        \* the version of the next write
    copy,       \* what each client has read of each key
    answer      \* the last write or removal: what was asked, on which copy, and
                \* what the caller was told

storeVars == <<store, now, copy, answer>>

StoreInit ==
    /\ store = [vm \in VmIds |-> [k \in Keys |-> Absent]]
    /\ now = 0
    /\ copy = [c \in Clients |-> [k \in Keys |-> Absent]]
    /\ answer = [call |-> "none", on |-> Absent, status |-> "Ok"]

(* on is Absent in an unconditional call. *)
Replaceable(on, met) ==
    \/ on = Absent
    \/ met # Absent /\ (met = on \/ met.version - on.version >= Horizon)

(* An entry that is gone is not the one the caller read. *)
Refusable(on, met) == on # Absent /\ met # on

Read(c, k) ==
    /\ store[VmIdOf[c]][k] # Absent
    /\ copy' = [copy EXCEPT ![c][k] = store[VmIdOf[c]][k]]
    /\ UNCHANGED <<store, now, answer>>

Put(c, k, v, on) ==
    /\ store' = [store EXCEPT ![VmIdOf[c]][k] = [value |-> v, version |-> now]]
    /\ now' = now + 1
    /\ answer' = [call |-> "set", on |-> on, status |-> "Ok"]
    /\ UNCHANGED copy

Write(c, k, v, on) == Replaceable(on, store[VmIdOf[c]][k]) /\ Put(c, k, v, on)

(* A removal may hand out what it removed. *)
Remove(c, k, on) ==
    LET met == store[VmIdOf[c]][k] IN
    /\ met # Absent /\ Replaceable(on, met)
    /\ store' = [store EXCEPT ![VmIdOf[c]][k] = Absent]
    /\ copy' \in {copy, [copy EXCEPT ![c][k] = met]}
    /\ answer' = [call |-> "remove", on |-> on, status |-> "Ok"]
    /\ UNCHANGED now

Refuse(c, k, call, on) ==
    /\ Refusable(on, store[VmIdOf[c]][k])
    /\ answer' = [call |-> call, on |-> on, status |-> "CasMismatch"]
    /\ UNCHANGED <<store, now, copy>>

Forget(vm) ==
    /\ store' = [store EXCEPT ![vm] = [k \in Keys |-> Absent]]
    /\ UNCHANGED <<now, copy, answer>>

ClientStep(c, k) ==
    \/ Read(c, k)
    \/ \E on \in {Absent, copy[c][k]} :
          \/ \E v \in Values : Write(c, k, v, on)
          \/ Remove(c, k, on)
          \/ \E call \in {"set", "remove"} : Refuse(c, k, call, on)

StoreNext ==
    \/ \E c \in Clients, k \in Keys : ClientStep(c, k)
    \/ \E vm \in VmIds : Forget(vm)

StoreSpec == StoreInit /\ [][StoreNext]_storeVars
=============================================================================
