------------------------------- MODULE VmStart -------------------------------
(***************************************************************************)
(* How a VM comes up: WasmBase::load and initialize, registerCallbacks,           *)
(* getFunctions and startVm (wasm.cc), the restriction of host functions while    *)
(* a guest starts or allocates (wasm_vm.h, wasm.h), and the calls that nest in     *)
(* it, over the engines of EngineVm.  A base VM is created from code, the other     *)
(* VMs are clones of it, made by canary and by the threads.                      *)
(***************************************************************************)
EXTENDS EngineVm, Bytecode, FiniteSets

CONSTANTS
    Clones,         \* the clones of the base VM
    Codes,          \* name of a module -> what it is (see EngineVm, and below)
    MaxDepth        \* bound on the nesting of guest calls

(* A module is a record of what EngineVm tells of it, and of its file (Bytecode). *)
ASSUME VmStartAssumption == MaxDepth \in Nat \ {0} /\ "base" \notin Clones
ASSUME CodesAssumption == \A c \in DOMAIN Codes : IsFile(Codes[c].file)

Base == "base"
Vms == {Base} \cup Clones
Abis == {"Unknown", "0.1.0", "0.2.0", "0.2.1"}

VARIABLES
    engine,             \* the engine of this build
    config,             \* allow_precompiled, allowed_capabilities_ ({}: all), and
                        \* whether the build verifies signatures
    code,               \* the name of the module that is configured
    wasm,               \* VM -> what its WasmBase holds, with the WasmVm in it
    stack               \* VM -> the guest functions that run in it, innermost last

vars == <<engine, config, code, wasm, stack>>

-----------------------------------------------------------------------------
(* The host functions and the guest functions that are told apart. *)
CommonFunctions == {"proxy_log", "environ_get", "get_property", "call_foreign_function"}
Allocating == {"get_property"}
Reentrant == {"call_foreign_function"}

(* registerCallbacks: what is linked into a module of this ABI.  A capability that    *)
(* is not allowed gets a stub of the same type.                                    *)
HostFunctions(abi) ==
    CommonFunctions
        \cup (IF abi = "0.1.0" THEN {"continue_request"} ELSE {"continue_stream"})
        \cup (IF abi = "0.2.1" THEN {"get_log_level"} ELSE {})

CapabilityAllowed(f) == config.capabilities = {} \/ f \in config.capabilities

(* The lists of startVm and of allocMemory. *)
AllowedAtStart == {"proxy_log", "environ_get"}
AllowedInMalloc == {"proxy_log"}

StartFunctions == {"_initialize", "main", "_start"}
ModuleFunctions(abi) ==
    {f \in {"on_vm_start", "on_request_headers"} \cup
           (IF abi = "0.1.0" THEN {} ELSE {"on_foreign_function"}) : CapabilityAllowed(f)}

(* getFunctions: main is asked for in a reactor and _start in a command; a module     *)
(* has malloc or proxy_on_memory_allocate, or it fails.                           *)
GetFunctions(m, abi) ==
    LET get(names) == EngineGetFunctions(engine, m, names)
        reactor == get({"_initialize"}).found # {}
        start == {"_initialize", IF reactor THEN "main" ELSE "_start"}
        malloc == IF get({"malloc"}).found # {} THEN {"malloc"}
                  ELSE {"malloc", "proxy_on_memory_allocate"}
        first == get(start \cup malloc)
        rest == get(ModuleFunctions(abi))
    IN  [fns |-> (first.found \cap StartFunctions) \cup rest.found
                    \cup (IF first.found \cap malloc # {} THEN {"malloc"} ELSE {}),
         vmfailed |-> first.failed \/ rest.failed,
         failed |-> IF rest.failed THEN "UnableToInitializeCode"
                    ELSE IF first.found \cap malloc = {} THEN "MissingFunction"
                    ELSE IF first.failed THEN "UnableToInitializeCode" ELSE "Ok"]

(* What startVm calls: _initialize and main of a reactor, _start of a command. *)
StartPlan(fns) ==
    IF "_initialize" \in fns THEN <<"_initialize">> \o (IF "main" \in fns THEN <<"main">> ELSE <<>>)
    ELSE IF "_start" \in fns THEN <<"_start">> ELSE <<>>

-----------------------------------------------------------------------------
NoWasm == [at |-> "none", failed |-> "Ok", abi |-> "Unknown", fns |-> {}, host |-> {},
           stored |-> NoCode, plan |-> <<>>, starts |-> 0, vm |-> NoVm]

Init ==
    /\ engine \in Engines
    /\ code \in DOMAIN Codes
    /\ config \in [precompiled : BOOLEAN, verified : BOOLEAN,
                   capabilities : {{}, {"proxy_log", "on_vm_start"}}]
    /\ wasm = [v \in Vms |-> NoWasm]
    /\ stack = [v \in Vms |-> <<>>]

(* WasmVm::fail runs the callback that marks the WasmBase; WasmBase::fail marks       *)
(* itself alone.                                                                 *)
VmFails(w, state) == [w EXCEPT !.vm.failed = state, !.failed = state]
Fails(w, state) == [w EXCEPT !.failed = state]
Reject(w) == [Fails(w, "UnableToInitializeCode") EXCEPT !.at = "rejected"]

Set(v, w) == wasm' = [wasm EXCEPT ![v] = w] /\ UNCHANGED <<engine, config, code>>
Quiet == UNCHANGED stack

(* The WasmBase of the base VM; the factory of the embedder may have no VM. *)
CreateBase ==
    /\ wasm[Base].at = "none"
    /\ \E vm \in {NewVm, NoVm} :
           Set(Base, [NoWasm EXCEPT !.at = "created", !.vm = vm,
                                    !.failed = IF vm = NoVm THEN "UnableToCreateVm" ELSE "Ok"])
    /\ Quiet

(* WasmBase::load: the checks of the file, in the order of the code; then the engine    *)
(* loads what is left of it, which is kept for engines that cannot clone a VM.          *)
CompiledSection(file) ==
    IF config.precompiled /\ PrecompiledSectionName(engine) # ""
    THEN GetCustomSection(file, PrecompiledSectionName(engine)) ELSE 0

Accepted(file) ==
    /\ config.verified => VerifySignature(file)
    /\ GetAbiVersion(file).ok /\ GetAbiVersion(file).abi # "Unknown"
    /\ FunctionNamesReadable(file)
    /\ CompiledSection(file) # Unreadable
    /\ GetStrippedSource(file).ok

CodeOf(file) ==
    IF engine = "null" THEN [NoCode EXCEPT !.name = code]
    ELSE [name |-> code, sections |-> GetStrippedSource(file).sections,
          compiled |-> LET at == CompiledSection(file)
                       IN IF at = 0 THEN "none" ELSE file.sections[at].data]

Load ==
    LET m == Codes[code]
        w == wasm[Base]
        known == engine = "null" \/ Accepted(m.file)
        loaded == CodeOf(m.file)
    IN
    /\ w.at = "created"
    /\ \/ /\ ~(w.vm # NoVm /\ known)
          /\ Set(Base, Reject(w))
       \/ /\ w.vm # NoVm /\ known
          /\ \E ok \in EngineLoad(engine, m, loaded.compiled) :
                 Set(Base, IF ~ok THEN Reject(w)
                           ELSE [w EXCEPT !.at = "loaded", !.vm.phase = "loaded",
                                    !.vm.code = loaded,
                                    !.abi = IF engine = "null" THEN "0.2.1"
                                            ELSE GetAbiVersion(m.file).abi,
                                    !.stored = IF Cloneable(engine) = "NotCloneable"
                                               THEN loaded ELSE NoCode])
    /\ Quiet

(* The WasmBase of a clone: the VM is cloned, or made anew where the engine cannot. *)
CreateClone(v) ==
    /\ v \in Clones /\ wasm[v].at = "none" /\ wasm[Base].at = "ready"
    /\ \E vm \in IF Cloneable(engine) = "NotCloneable" THEN {NewVm, NoVm}
                 ELSE EngineClone(engine, wasm[Base].vm) :
           Set(v, [NoWasm EXCEPT !.at = "loaded", !.vm = vm,
                       !.failed = IF vm = NoVm THEN "UnableToCreateVm" ELSE "Ok",
                       !.starts = IF vm.phase = "linked" THEN wasm[Base].starts ELSE 0])
    /\ Quiet
-----------------------------------------------------------------------------
(* The steps of initialize, each on the WasmBase that the one before left. *)
LoadFromBase(v) ==
    IF v # Base /\ Cloneable(engine) = "NotCloneable"
    THEN {IF ok THEN [wasm[v] EXCEPT !.vm.phase = "loaded", !.vm.code = wasm[Base].stored]
          ELSE Reject(wasm[v]) :
             ok \in EngineLoad(engine, Codes[wasm[Base].stored.name], wasm[Base].stored.compiled)}
    ELSE {wasm[v]}

BadAbiOf(v, w) == w.abi
AbiOf(v, w) == IF v = Base THEN w.abi ELSE wasm[Base].abi

(* The start functions have run already in a clone of an instantiated module. *)
BadInstantiatesAlways(v) == TRUE
BadInstantiatesBase(v) == v = Base
Instantiates(v) == v = Base \/ Cloneable(engine) # "InstantiatedModule"

Link(v, w) ==
    IF ~Instantiates(v) THEN {w}
    ELSE LET host == HostFunctions(w.abi)
         IN {IF l.ok THEN [w EXCEPT !.host = host, !.vm.phase = "linked"]
             ELSE Reject(IF l.fail = "Ok" THEN w ELSE VmFails(w, l.fail)) :
             l \in EngineLink(engine, Codes[w.vm.code.name], host)}

Resolve(w) ==
    LET got == GetFunctions(Codes[w.vm.code.name], w.abi)
    IN [(IF got.vmfailed THEN VmFails(w, "UnableToInitializeCode") ELSE w) EXCEPT
           !.fns = got.fns,
           !.failed = IF got.failed = "Ok" THEN w.failed ELSE got.failed]

BadFinish(w) == IF w.failed = "Ok" THEN [w EXCEPT !.at = "ready"] ELSE Reject(w)
Finish(w) ==
    LET done == [w EXCEPT !.vm.restricted = AnyFunction]
    IN IF w.failed = "Ok" THEN [done EXCEPT !.at = "ready"] ELSE Reject(done)

(* startVm, up to the call of the first start function. *)
Start(w) ==
    LET plan == StartPlan(w.fns)
    IN IF plan = <<>> THEN Finish(w)
       ELSE [w EXCEPT !.at = "starting", !.plan = Tail(plan), !.starts = @ + 1,
                      !.vm.restricted = AllowedAtStart]

(* initialize, up to the first guest call. *)
Initialize(v) ==
    /\ wasm[v].at = "loaded"
    /\ IF wasm[v].vm = NoVm THEN Set(v, Reject(wasm[v])) /\ Quiet
       ELSE \E l \in LoadFromBase(v) :
            IF l.at = "rejected" THEN Set(v, l) /\ Quiet
            ELSE \E w \in Link(v, [l EXCEPT !.abi = AbiOf(v, l)]) :
                 LET r == Resolve(w)
                     begins == Instantiates(v) /\ StartPlan(r.fns) # <<>>
                 IN IF w.at = "rejected" THEN Set(v, w) /\ Quiet
                    ELSE /\ Set(v, IF begins THEN Start(r) ELSE Finish(r))
                         /\ stack' = IF begins
                                     THEN [stack EXCEPT ![v] = <<Head(StartPlan(r.fns))>>]
                                     ELSE stack
-----------------------------------------------------------------------------
(* What a guest does. *)
Top(v) == Last(stack[v])
Push(v, f) == stack' = [stack EXCEPT ![v] = Append(@, f)]

(* The innermost guest call ends, and the host goes on: allocMemory lifts the           *)
(* restriction, startVm calls what is left to call, whatever the outcome of the         *)
(* call before, and then initialize ends.                                          *)
Ends(v, w0) ==
    LET rest == Front(stack[v])
        w == IF Top(v) = "malloc" THEN [w0 EXCEPT !.vm.restricted = AnyFunction] ELSE w0
        next == w.at = "starting" /\ rest = <<>>
    IN /\ Set(v, IF ~next THEN w
                 ELSE IF w.plan # <<>> THEN [w EXCEPT !.plan = Tail(@)] ELSE Finish(w))
       /\ stack' = [stack EXCEPT ![v] = IF next /\ w.plan # <<>> THEN <<Head(w.plan)>> ELSE rest]

GuestEnds(v) ==
    /\ stack[v] # <<>>
    /\ \E state \in EngineCall(engine) :
           Ends(v, IF state = "Ok" THEN wasm[v] ELSE VmFails(wasm[v], state))

(* The guest calls a host function that it imports: one that is restricted traps, a    *)
(* stub returns, and some of the others call the guest again.                       *)
CallsHost(v, f) ==
    LET w == wasm[v]
        deep == Len(stack[v]) = MaxDepth
    IN
    /\ stack[v] # <<>> /\ [kind |-> "func", name |-> f, typed |-> TRUE] \in ToSet(Codes[w.vm.code.name].imports)
    /\ \/ /\ ~HostFunctionRuns(engine, w.vm, f)
          /\ Ends(v, VmFails(w, "RuntimeError"))
       \/ /\ HostFunctionRuns(engine, w.vm, f) /\ CapabilityAllowed(f)
          /\ f \in Allocating /\ "malloc" \in w.fns /\ ~deep
          /\ Set(v, [w EXCEPT !.vm.restricted = AllowedInMalloc])
          /\ Push(v, "malloc")
       \/ /\ HostFunctionRuns(engine, w.vm, f) /\ CapabilityAllowed(f)
          /\ f \in Reentrant /\ "on_foreign_function" \in w.fns /\ ~deep
          /\ Push(v, "on_foreign_function")
          /\ UNCHANGED <<engine, config, code, wasm>>

(* The host calls into a VM that came up; most callers look whether it failed. *)
HostCalls(v, f) ==
    /\ wasm[v].at = "ready" /\ v # Base /\ stack[v] = <<>>
    /\ f \in wasm[v].fns \ (StartFunctions \cup {"malloc"})
    /\ wasm[v].failed = "Ok" \/ f = "on_foreign_function"
    /\ Push(v, f)
    /\ UNCHANGED <<engine, config, code, wasm>>

Next ==
    \/ CreateBase \/ Load
    \/ \E v \in Clones : CreateClone(v)
    \/ \E v \in Vms :
        \/ Initialize(v) \/ GuestEnds(v)
        \/ \E f \in CommonFunctions : CallsHost(v, f)
        \/ \E f \in {"on_vm_start", "on_request_headers", "on_foreign_function"} : HostCalls(v, f)

Spec == Init /\ [][Next]_vars
-----------------------------------------------------------------------------
(* Every variable holds a value of the kind it is declared for. *)
TypeOK ==
    /\ engine \in Engines /\ code \in DOMAIN Codes
    /\ \A v \in Vms :
        /\ wasm[v].at \in {"none", "created", "loaded", "starting", "ready", "rejected"}
        /\ wasm[v].failed \in FailStates /\ wasm[v].abi \in Abis
        /\ wasm[v].vm.phase \in {"absent", "new", "loaded", "linked"}
        /\ Len(stack[v]) \in 0 .. MaxDepth

(* Where the engine enforces it, the restriction in force is always the one of the      *)
(* guest function that runs: that of startVm in a start function, that of allocMemory     *)
(* in malloc, none in any other.  setRestrictedCallback keeps no stack of them, so this     *)
(* rests on no function of the two lists allocating.                                *)
RestrictionFollowsStack ==
    EnforcesRestriction(engine) =>
        \A v \in Vms : wasm[v].vm.restricted =
            IF stack[v] = <<>> THEN AnyFunction
            ELSE IF Top(v) = "malloc" THEN AllowedInMalloc
            ELSE IF Top(v) \in StartFunctions THEN AllowedAtStart
            ELSE AnyFunction

(* A clone that came up runs the module of the base VM, with its ABI and with the same    *)
(* functions resolved, whichever of the three ways of cloning the engine has.            *)
CloneMatchesBase ==
    \A v \in Clones : wasm[v].at = "ready" =>
        /\ wasm[v].vm.code = wasm[Base].vm.code /\ wasm[v].vm.phase = "linked"
        /\ wasm[v].abi = wasm[Base].abi /\ wasm[v].fns = wasm[Base].fns

(* The start functions run exactly once on the memory of every VM that came up: not        *)
(* again in the clone of an instantiated module, and not never in another one.           *)
StartedOnce ==
    \A v \in Vms : wasm[v].at = "ready" =>
        wasm[v].starts = IF StartPlan(wasm[v].fns) = <<>> THEN 0 ELSE 1

(* Two files have the same sections but for custom ones: as many, and the n-th of them is   *)
(* the same, for every n.                                                            *)
SameCore(s, t) ==
    LET core(u) == {i \in DOMAIN u : u[i].type # "custom"}
        rank(u, i) == Cardinality({j \in core(u) : j <= i})
    IN /\ Cardinality(core(s)) = Cardinality(core(t))
       /\ \A i \in core(s), j \in core(t) : rank(s, i) = rank(t, j) => s[i] = t[j]

(* A VM of whatever engine, cloned or not, is given all the sections of the module that    *)
(* are not custom, in their order and none twice, and no compiled code among them; they      *)
(* tell the ABI that was found in the file.                                             *)
CodeIsKept ==
    /\ TypeOK
    /\ \A v \in Vms : engine # "null" /\ wasm[v].vm.phase \in {"loaded", "linked"} =>
        LET file == Codes[code].file
            held == wasm[v].vm.code.sections
        IN /\ SameCore(held, SectionsOf(file))
           /\ \A i \in DOMAIN held : ~Precompiled(held[i])
           /\ GetAbiVersion([file EXCEPT !.sections = held]) = [ok |-> TRUE, abi |-> wasm[Base].abi]

(* The VMs are used as wasm_vm.h has it: loaded, then linked, and only then entered. *)
Protocol == INSTANCE VmProtocol WITH
    phase <- [v \in Vms |-> wasm[v].vm.phase],
    inside <- {v \in Vms : stack[v] # <<>>}
ImplementsVmProtocol == Protocol!Protocol
=============================================================================
