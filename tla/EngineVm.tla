------------------------------- MODULE EngineVm -------------------------------
(***************************************************************************)
(* What the engines behind the WasmVm interface (wasm_vm.h) do when they load,  *)
(* link and look up: src/v8, wamr, wasmtime, wasmedge, wavm and the null VM.    *)
(* The engines' own libraries are external; an operation gives the set of its   *)
(* outcomes, of which failures for want of memory are always among them.        *)
(***************************************************************************)
EXTENDS Integers, Sequences, SequencesExt

CONSTANT WordMax            \* the largest address of a 32-bit guest, UINT32_MAX
ASSUME WordMaxAssumption == WordMax \in Nat

(* A module, as far as the engines tell modules apart:                         *)
(*   valid        the engine's parser accepts it                               *)
(*   imports      a sequence of records of a kind, a name (of a function), and   *)
(*                whether its type is the one that the host's function has       *)
(*   exports      exported function -> "good" or "bad" signature                *)
Engines == {"v8", "wamr", "wasmtime", "wasmedge", "wavm", "null"}
FailStates == {"Ok", "UnableToCreateVm", "MissingFunction", "UnableToInitializeCode",
               "StartFailed", "RuntimeError"}

Cloneable(engine) ==
    CASE engine \in {"v8", "wamr", "wasmtime"} -> "CompiledBytecode"
      [] engine \in {"wavm", "null"}           -> "InstantiatedModule"
      [] engine = "wasmedge"                   -> "NotCloneable"

(* getPrecompiledSectionName; the other engines have none. *)
PrecompiledSectionName(engine) ==
    CASE engine = "v8"   -> "precompiled_v8"
      [] engine = "wavm" -> "wavm.precompiled_object"
      [] OTHER           -> ""

(* V8 alone asks isHostFunctionAllowed before it calls a host function. *)
EnforcesRestriction(engine) == engine = "v8"

-----------------------------------------------------------------------------
(* load: whether it succeeds.  compiled is the compiled code of the module, "none",   *)
(* "good" or "bad".                                                             *)
Maybe(good) == IF good THEN BOOLEAN ELSE {FALSE}

V8Load(m, compiled) ==
    Maybe(IF compiled # "none" THEN compiled = "good" ELSE m.valid)
WamrLoad(m) == Maybe(m.valid)
WasmtimeLoad(m) == Maybe(m.valid)
WasmEdgeLoad(m) == Maybe(m.valid)
WavmLoad(m, compiled) == Maybe(m.valid /\ compiled # "bad")
NullLoad(m) == {m.valid}       \* the plugin is registered or it is not

EngineLoad(engine, m, compiled) ==
    CASE engine = "v8"       -> V8Load(m, compiled)
      [] engine = "wamr"     -> WamrLoad(m)
      [] engine = "wasmtime" -> WasmtimeLoad(m)
      [] engine = "wasmedge" -> WasmEdgeLoad(m)
      [] engine = "wavm"     -> WavmLoad(m, compiled)
      [] engine = "null"     -> NullLoad(m)

-----------------------------------------------------------------------------
(* link: whether it succeeds, and with which state the VM was marked failed.     *)
(* A link may fail without marking the VM.                                      *)
Linked == [ok |-> TRUE, fail |-> "Ok"]
Unlinked == [ok |-> FALSE, fail |-> "Ok"]
LinkFailed(state) == [ok |-> FALSE, fail |-> state]

Provided(import, host) == import.kind = "func" /\ import.name \in host /\ import.typed

(* The engines with the Wasm C API go through the imports in order.  Functions     *)
(* must be known and have the type, globals are not supported, a memory or a       *)
(* table is made for the module; the first that cannot be had ends it.            *)
LinkInOrder(m, host) ==
    LET bad(i) == i.kind = "global" \/ (i.kind = "func" /\ ~Provided(i, host))
        first == SelectInSeq(m.imports, bad)
        before == IF first = 0 THEN m.imports ELSE SubSeq(m.imports, 1, first - 1)
        made == \E k \in DOMAIN before : before[k].kind \in {"memory", "table"}
    IN
    IF first = 0
    THEN {Linked, LinkFailed("UnableToInitializeCode"), Unlinked}
    ELSE {LinkFailed("UnableToInitializeCode")} \cup (IF made THEN {Unlinked} ELSE {})

V8Link(m, host) == LinkInOrder(m, host)
WamrLink(m, host) == LinkInOrder(m, host)
WasmtimeLink(m, host) == LinkInOrder(m, host)

AllProvided(m, host) == \A k \in DOMAIN m.imports : Provided(m.imports[k], host)

WasmEdgeLink(m, host) ==
    {LinkFailed("UnableToInitializeCode"), Unlinked}
        \cup (IF AllProvided(m, host) THEN {Linked} ELSE {})

(* The resolver marks the VM failed at each import it lacks, whatever its kind,    *)
(* and link once more.                                                          *)
WavmLink(m, host) ==
    IF AllProvided(m, host) THEN {Linked, Unlinked}
    ELSE {LinkFailed("MissingFunction"), Unlinked}

NullLink == {Linked}

EngineLink(engine, m, host) ==
    CASE engine = "v8"       -> V8Link(m, host)
      [] engine = "wamr"     -> WamrLink(m, host)
      [] engine = "wasmtime" -> WasmtimeLink(m, host)
      [] engine = "wasmedge" -> WasmEdgeLink(m, host)
      [] engine = "wavm"     -> WavmLink(m, host)
      [] engine = "null"     -> NullLink

-----------------------------------------------------------------------------
(* getFunction: the function is there with the right signature, or it is null;   *)
(* a wrong signature marks the VM as failed.  V8 and WAVM set the function to     *)
(* null then, the others leave it as it is, which was null.                      *)
Found(m, names) == {f \in names : f \in DOMAIN m.exports /\ m.exports[f] = "good"}
Mismatched(m, names) == {f \in names : f \in DOMAIN m.exports /\ m.exports[f] = "bad"}

V8GetFunctions(m, names) == [found |-> Found(m, names), failed |-> Mismatched(m, names) # {}]
WamrGetFunctions(m, names) == V8GetFunctions(m, names)
WasmtimeGetFunctions(m, names) == V8GetFunctions(m, names)
WasmEdgeGetFunctions(m, names) == V8GetFunctions(m, names)
WavmGetFunctions(m, names) == V8GetFunctions(m, names)
(* NullPlugin has every function that is asked for, but none that starts a module. *)
NullGetFunctions(m, names) ==
    [found |-> names \ {"_initialize", "_start", "main"}, failed |-> FALSE]

EngineGetFunctions(engine, m, names) ==
    CASE engine = "v8"       -> V8GetFunctions(m, names)
      [] engine = "wamr"     -> WamrGetFunctions(m, names)
      [] engine = "wasmtime" -> WasmtimeGetFunctions(m, names)
      [] engine = "wasmedge" -> WasmEdgeGetFunctions(m, names)
      [] engine = "wavm"     -> WavmGetFunctions(m, names)
      [] engine = "null"     -> NullGetFunctions(m, names)

-----------------------------------------------------------------------------
(* A VM: how far it has come, the module that it holds, its fail state, and the    *)
(* set of host functions to which it is restricted (AnyFunction: none).            *)
AnyFunction == {"*"}
NoCode == [name |-> "none", sections |-> <<>>, compiled |-> "none"]
NewVm == [phase |-> "new", code |-> NoCode, failed |-> "Ok", restricted |-> AnyFunction]
NoVm == [NewVm EXCEPT !.phase = "absent"]

(* clone: a new store that obtains the compiled module; or a copy of the            *)
(* compartment with all that is in it; NullVm loads the plugin anew.  Neither the    *)
(* fail state nor the fail callbacks are copied.                                   *)
V8Clone(vm) == {[NewVm EXCEPT !.phase = "loaded", !.code = vm.code], NoVm}
WamrClone(vm) == V8Clone(vm)
WasmtimeClone(vm) == V8Clone(vm)
WasmEdgeClone(vm) == {NoVm}
WavmClone(vm) == {[NewVm EXCEPT !.phase = vm.phase, !.code = vm.code], NoVm}
NullClone(vm) == {[NewVm EXCEPT !.phase = vm.phase, !.code = vm.code]}

EngineClone(engine, vm) ==
    CASE engine = "v8"       -> V8Clone(vm)
      [] engine = "wamr"     -> WamrClone(vm)
      [] engine = "wasmtime" -> WasmtimeClone(vm)
      [] engine = "wasmedge" -> WasmEdgeClone(vm)
      [] engine = "wavm"     -> WavmClone(vm)
      [] engine = "null"     -> NullClone(vm)

-----------------------------------------------------------------------------
(* registerHostFunction: what is run when the guest calls the host function, or          *)
(* nothing, and the call traps.                                                    *)
V8HostCall(vm, f) == vm.restricted = AnyFunction \/ f \in vm.restricted
WamrHostCall(vm, f) == TRUE
WasmtimeHostCall(vm, f) == TRUE
WasmEdgeHostCall(vm, f) == TRUE
WavmHostCall(vm, f) == TRUE

HostFunctionRuns(engine, vm, f) ==
    CASE engine = "v8"       -> V8HostCall(vm, f)
      [] engine = "wamr"     -> WamrHostCall(vm, f)
      [] engine = "wasmtime" -> WasmtimeHostCall(vm, f)
      [] engine = "wasmedge" -> WasmEdgeHostCall(vm, f)
      [] engine = "wavm"     -> WavmHostCall(vm, f)
      [] engine = "null"     -> TRUE

(* The function that getFunction gives: how a call of the guest may end.  The VM is       *)
(* marked as failed when the engine reports a trap or, of WAVM, an exception.           *)
V8Call == {"Ok", "RuntimeError"}
WamrCall == {"Ok", "RuntimeError"}
WasmtimeCall == {"Ok", "RuntimeError"}
WasmEdgeCall == {"Ok", "RuntimeError"}
WavmCall == {"Ok", "RuntimeError"}

EngineCall(engine) ==
    CASE engine = "v8"       -> V8Call
      [] engine = "wamr"     -> WamrCall
      [] engine = "wasmtime" -> WasmtimeCall
      [] engine = "wasmedge" -> WasmEdgeCall
      [] engine = "wavm"     -> WavmCall
      [] engine = "null"     -> {"Ok"}

-----------------------------------------------------------------------------
(* getMemory, setMemory, getWord, setWord: whether s bytes at p may be had, of a memory    *)
(* of so many bytes.  V8 does not reach the last byte of a full address space; to the       *)
(* null VM every pointer but null is good.                                          *)
V8InMemory(size, p, s) == p + s <= WordMax /\ p + s <= size
WamrInMemory(size, p, s) == p + s <= size
WasmtimeInMemory(size, p, s) == p + s <= size
WasmEdgeInMemory(size, p, s) == p + s <= size
WavmInMemory(size, p, s) == p + s <= size
NullInMemory(p, s) == p = 0 => s = 0

InMemory(engine, size, p, s) ==
    CASE engine = "v8"       -> V8InMemory(size, p, s)
      [] engine = "wamr"     -> WamrInMemory(size, p, s)
      [] engine = "wasmtime" -> WasmtimeInMemory(size, p, s)
      [] engine = "wasmedge" -> WasmEdgeInMemory(size, p, s)
      [] engine = "wavm"     -> WavmInMemory(size, p, s)
      [] engine = "null"     -> NullInMemory(p, s)
=============================================================================
