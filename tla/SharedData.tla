------------------------------ MODULE SharedData ------------------------------
(***************************************************************************)
(* The key-value store that the VMs of one process share                   *)
(* (src/shared_data.cc, src/shared_data.h) and the host functions through   *)
(* which a VM reaches it (ContextBase::get/set/removeSharedData).           *)
(*                                                                         *)
(* Every operation of the class holds mutex_ from its first access to       *)
(* data_ to its return, so each is one action.  What interleaves are the    *)
(* clients: the wasm VMs of the worker threads, which read an entry with    *)
(* one call and use its compare-and-swap number in a later one.             *)
(*                                                                         *)
(* The two levels of data_ (a map per vm_id, created by the first set) are  *)
(* one function here: no operation tells an absent map from an empty one.   *)
(* getSharedDataKeys changes nothing and is the operator KeysOf.            *)
(***************************************************************************)
EXTENDS Integers, FiniteSets

CONSTANTS
    Clients,    \* VMs that call the host functions
    VmIds,      \* vm_id of a VM: the name space of its keys
    VmIdOf,     \* VmIdOf[c]: the vm_id of client c
    Keys,
    Values,
    NoEntry,    \* "not found"
    CasMod,     \* cas_ is a uint32_t: CasMod is 2^32 in the program
    MaxWrites   \* bound on the number of stores

ASSUME CasModAssumption == CasMod \in Nat /\ CasMod > 1
ASSUME ClientsAssumption == VmIdOf \in [Clients -> VmIds]
ASSUME NoEntryAssumption ==
    /\ NoEntry \notin [value : Values, cas : Nat, stamp : Nat]
    /\ NoEntry \notin [value : Values, version : Nat]    \* see WithVersion

VARIABLES
    data,       \* data_: vm_id -> key -> (value, cas)
    cas,        \* cas_: the number the next store gets
    writes,     \* ghost: how many stores there have been
    seen,       \* what each client's last successful read of each key returned
    last        \* ghost: the last store or removal: its caller, key, result, the
                \* entry it was conditional on and the entry it met

vars == <<data, cas, writes, seen, last>>

(* stamp is a ghost: the store that wrote the entry, counted from 0. *)
Entry == [value : Values, cas : 1..(CasMod - 1), stamp : Nat]
MaybeEntry == Entry \cup {NoEntry}

NoOp == [op |-> "none", status |-> "Ok", expected |-> NoEntry, met |-> NoEntry]

TypeOK ==
    /\ data \in [VmIds -> [Keys -> MaybeEntry]]
    /\ cas \in 1..(CasMod - 1)
    /\ writes \in Nat
    /\ seen \in [Clients -> [Keys -> MaybeEntry]]
    /\ last \in [op : {"none", "set", "remove"}, status : {"Ok", "CasMismatch"},
                 expected : MaybeEntry, met : MaybeEntry]

Init ==
    /\ data = [v \in VmIds |-> [k \in Keys |-> NoEntry]]
    /\ cas = 1
    /\ writes = 0
    /\ seen = [c \in Clients |-> [k \in Keys |-> NoEntry]]
    /\ last = NoOp

-----------------------------------------------------------------------------
(* SharedData::nextCas: the value cas_ has after one more call; 0 is        *)
(* skipped when the 32-bit counter wraps.                                   *)
NextCas == IF (cas + 1) % CasMod = 0 THEN 1 ELSE cas + 1

KeysOf(vm) == {k \in Keys : data[vm][k] # NoEntry}

(* Faulty variants (the operators named Bad...) stand before the definition  *)
(* they vary; no specification uses them.                                   *)
BadCasMatchesNewest(expected, met) == expected = NoEntry \/ NextCas = expected.cas + 1

(* A cas argument of 0 is "unconditional"; any other argument a client has   *)
(* is the number some read returned to it.                                  *)
CasMatches(expected, met) == expected = NoEntry \/ expected.cas = met.cas

BadStoreKeepsCas(vm, k, v) ==
    /\ data' = [data EXCEPT ![vm][k] =
                  [value |-> v, stamp |-> writes,
                   cas |-> IF data[vm][k] = NoEntry THEN cas ELSE data[vm][k].cas]]
    /\ cas' = IF data[vm][k] = NoEntry THEN NextCas ELSE cas
    /\ writes' = writes + 1

Store(vm, k, v) ==
    /\ data' = [data EXCEPT ![vm][k] = [value |-> v, cas |-> cas, stamp |-> writes]]
    /\ cas' = NextCas
    /\ writes' = writes + 1

GetSharedData(c, k) ==
    LET met == data[VmIdOf[c]][k] IN
    /\ met # NoEntry
    /\ seen' = [seen EXCEPT ![c][k] = met]
    /\ UNCHANGED <<data, cas, writes, last>>

BadSetComparesLate(c, k, v, expected) ==
    LET met == data[VmIdOf[c]][k] IN
    /\ writes < MaxWrites
    /\ Store(VmIdOf[c], k, v)
    /\ last' = [op |-> "set", expected |-> expected, met |-> met,
                status |-> IF met = NoEntry \/ CasMatches(expected, met)
                             THEN "Ok" ELSE "CasMismatch"]
    /\ UNCHANGED seen

(* SharedData::set.  A key that is absent is stored whatever cas says: the   *)
(* comparison is only made with an entry that is there.                     *)
SetSharedData(c, k, v, expected) ==
    LET met == data[VmIdOf[c]][k] IN
    /\ writes < MaxWrites
    /\ IF met = NoEntry \/ CasMatches(expected, met)
         THEN /\ Store(VmIdOf[c], k, v)
              /\ last' = [op |-> "set", status |-> "Ok", expected |-> expected, met |-> met]
         ELSE /\ last' = [op |-> "set", status |-> "CasMismatch",
                          expected |-> expected, met |-> met]
              /\ UNCHANGED <<data, cas, writes>>
    /\ UNCHANGED seen

(* SharedData::remove; a caller that passed a result pointer (wanted) gets   *)
(* the removed entry.  On an absent key it returns NotFound and changes     *)
(* nothing.                                                                 *)
RemoveSharedDataKey(c, k, expected, wanted) ==
    LET met == data[VmIdOf[c]][k] IN
    /\ met # NoEntry
    /\ IF CasMatches(expected, met)
         THEN /\ data' = [data EXCEPT ![VmIdOf[c]][k] = NoEntry]
              /\ seen' = IF wanted THEN [seen EXCEPT ![c][k] = met] ELSE seen
              /\ last' = [op |-> "remove", status |-> "Ok",
                          expected |-> expected, met |-> met]
         ELSE /\ last' = [op |-> "remove", status |-> "CasMismatch",
                          expected |-> expected, met |-> met]
              /\ UNCHANGED <<data, seen>>
    /\ UNCHANGED <<cas, writes>>

(* The callback of the last VmIdHandle of vm (see VmIdHandle.tla). *)
DeleteByVmId(vm) ==
    /\ data' = [data EXCEPT ![vm] = [k \in Keys |-> NoEntry]]
    /\ UNCHANGED <<cas, writes, seen, last>>

ClientNext(c) ==
    \E k \in Keys :
        \/ GetSharedData(c, k)
        \/ \E expected \in {NoEntry, seen[c][k]} :
              \/ \E v \in Values : SetSharedData(c, k, v, expected)
              \/ \E wanted \in BOOLEAN : RemoveSharedDataKey(c, k, expected, wanted)

Next ==
    \/ \E c \in Clients : ClientNext(c)
    \/ \E vm \in VmIds : DeleteByVmId(vm)

Spec == Init /\ [][Next]_vars

-----------------------------------------------------------------------------
(* A successful conditional store or removal met exactly the entry its      *)
(* caller had read, unless the 32-bit counter went all the way round in     *)
(* between: no update by another client is lost (CAS loops such as          *)
(* incrementData in test/shared_data_test.cc rely on it).  ABA needs a      *)
(* whole cycle of CasMod - 1 stores, to whichever keys, also across         *)
(* removals, re-creations and deleteByVmId.  No number is 0 (TypeOK): a call  *)
(* with 0 would not be conditional.  Nothing is said of a conditional store   *)
(* that met no entry: see ConditionalStoreMatched.                          *)
NoLostUpdate ==
    /\ TypeOK
    /\ (last.status = "Ok" /\ last.expected # NoEntry /\ last.met # NoEntry)
        => \/ last.met = last.expected
           \/ last.met.stamp - last.expected.stamp >= CasMod - 1

(* A conditional call fails only when the entry really changed since the    *)
(* caller read it: a single client's read-then-set cannot livelock.         *)
NoSpuriousMismatch ==
    last.status = "CasMismatch" => last.met.stamp > last.expected.stamp

(* A compare-and-swap number identifies its store: two entries, of whichever *)
(* keys and vm_ids, that have one number were written at least a whole cycle *)
(* of the counter apart, whatever was removed or deleted in between.         *)
CasIdentifiesStore ==
    \A vm1, vm2 \in VmIds : \A k1, k2 \in Keys :
        LET e == data[vm1][k1]
            f == data[vm2][k2]
        IN  (e # NoEntry /\ f # NoEntry /\ e.cas = f.cas)
              => \/ vm1 = vm2 /\ k1 = k2
                 \/ e.stamp - f.stamp >= CasMod - 1
                 \/ f.stamp - e.stamp >= CasMod - 1

(* "If it is zero it is ignored, otherwise it must match the cas associated   *)
(* with the value" (context_interface.h:619): a store that was conditional on *)
(* what its caller had read met an entry with that number.  The code breaks   *)
(* this where the key was removed after it was read.                         *)
ConditionalStoreMatched ==
    (last.op = "set" /\ last.status = "Ok" /\ last.expected # NoEntry)
        => last.met # NoEntry /\ last.met.cas = last.expected.cas

(* The shared data are a store with versions (VersionedStore.tla): the version *)
(* of an entry is the number of the write, and cas numbers, which come back,  *)
(* stand for versions as long as fewer than a cycle of writes have passed.    *)
(* Every step is one of that store, but a conditional store on an absent key, *)
(* which that store refuses and SharedData::set carries out (Revives).        *)
WithVersion(e) ==
    IF e = NoEntry THEN NoEntry ELSE [value |-> e.value, version |-> e.stamp]

Versions == INSTANCE VersionedStore WITH
    Absent <- NoEntry,
    Horizon <- CasMod - 1,
    store <- [vm \in VmIds |-> [k \in Keys |-> WithVersion(data[vm][k])]],
    now <- writes,
    copy <- [c \in Clients |-> [k \in Keys |-> WithVersion(seen[c][k])]],
    answer <- [call |-> last.op, on |-> WithVersion(last.expected), status |-> last.status]

Revives ==
    \E c \in Clients, k \in Keys, v \in Values :
        /\ seen[c][k] # NoEntry /\ data[VmIdOf[c]][k] = NoEntry
        /\ Versions!Put(c, k, v, WithVersion(seen[c][k]))

ImplementsStoreButRevives ==
    Versions!StoreInit /\ [][Versions!StoreNext \/ Revives]_(Versions!storeVars)

=============================================================================
