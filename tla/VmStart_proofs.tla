---------------------------- MODULE VmStart_proofs ----------------------------
(***************************************************************************)
(* Proofs about VmStart.tla, for any modules, any number of clones and any nesting: *)
(* the restriction of host functions follows the guest calls, a clone is what the    *)
(* base VM is, start functions run once, the engine is used as it asks for, and every *)
(* VM holds all of the module's code (the last two sections).                        *)
(***************************************************************************)
EXTENDS VmStart, SequenceTheorems, NaturalsInduction, FiniteSetTheorems, TLAPS

GuestFunctions == StartFunctions \cup {"malloc", "on_vm_start", "on_request_headers", "on_foreign_function"}

(* The invariant of a VM v, with what its WasmBase holds, its stack, and what the base VM  *)
(* holds.  First, the values are of their kinds.                                     *)
IsVm(m) == m = [x \in {"phase", "code", "failed", "restricted"} |-> m[x]]
IsWasm(w) ==
    /\ w = [x \in {"at", "failed", "abi", "fns", "host", "stored", "plan", "starts", "vm"} |-> w[x]]
    /\ IsVm(w.vm)
Shape(w, s) == IsWasm(w) /\ w.plan \in Seq(StartFunctions) /\ s \in Seq(GuestFunctions)

(* How far the VM has come and who is in it. *)
LoadedPhase(v) == IF v = Base \/ Cloneable(engine) = "CompiledBytecode" THEN "loaded"
                  ELSE IF Cloneable(engine) = "InstantiatedModule" THEN "linked" ELSE "new"
Stage(v, w, s) ==
    /\ w.at \in {"none", "created", "loaded", "starting", "ready", "rejected"}
    /\ w.at \in {"none", "created", "loaded", "rejected"} => s = <<>>
    /\ w.at = "none" => w = NoWasm
    /\ w.at = "created" => v = Base /\ w.vm \in {NewVm, NoVm} /\ w.starts = 0
    /\ w.at = "loaded" /\ w.vm # NoVm => w.vm.phase = LoadedPhase(v)
    /\ w.at \in {"starting", "ready"} => w.vm.phase = "linked"
    /\ w.at = "starting" => s # <<>> /\ s[1] \in StartFunctions
    /\ w.at = "ready" /\ s # <<>> => v # Base /\ s[1] \notin StartFunctions
    /\ \A k \in 2 .. Len(s) : s[k] \notin StartFunctions

(* Host functions are restricted in the innermost call alone: what they allow does not nest. *)
Allows(s) == IF s = <<>> THEN AnyFunction
             ELSE IF s[Len(s)] = "malloc" THEN AllowedInMalloc
             ELSE IF s[Len(s)] \in StartFunctions THEN AllowedAtStart ELSE AnyFunction
Restriction(w, s) ==
    EnforcesRestriction(engine) =>
        /\ w.vm.restricted = Allows(s)
        /\ \A k \in 1 .. Len(s) - 1 : s[k] \notin StartFunctions \cup {"malloc"}

(* The functions of a VM are those that its module has; what is loaded in a clone comes   *)
(* from the base VM.                                                              *)
Resolved(w) == w.fns = GetFunctions(Codes[w.vm.code.name], w.abi).fns
Origin(v, w, b) ==
    /\ v # Base /\ w.at # "none" => b.at = "ready"
    /\ v = Base /\ w.at \in {"loaded", "starting", "ready"} /\ Cloneable(engine) = "NotCloneable" =>
          w.stored = w.vm.code
    /\ v # Base /\ w.at = "loaded" /\ w.vm # NoVm /\ Cloneable(engine) # "NotCloneable" =>
          w.vm.code = b.vm.code
    /\ w.at \in {"starting", "ready"} => Resolved(w)
    /\ v # Base /\ w.at \in {"starting", "ready"} => w.vm.code = b.vm.code /\ w.abi = b.abi

(* How often start functions have run on this memory. *)
Starts(v, w, b) ==
    /\ w.at = "loaded" /\ w.vm # NoVm =>
          w.starts = IF w.vm.phase = "linked" THEN b.starts ELSE 0
    /\ w.at = "starting" => w.starts = 1 /\ StartPlan(w.fns) # <<>>
    /\ w.at = "ready" => w.starts = IF StartPlan(w.fns) = <<>> THEN 0 ELSE 1

VmInv(v, w, s, b) ==
    Shape(w, s) /\ Stage(v, w, s) /\ Restriction(w, s) /\ Origin(v, w, b) /\ Starts(v, w, b)

Inv ==
    /\ engine \in Engines
    /\ wasm = [v \in Vms |-> wasm[v]] /\ stack = [v \in Vms |-> stack[v]]
    /\ \A v \in Vms : VmInv(v, wasm[v], stack[v], wasm[Base])

-----------------------------------------------------------------------------
LEMMA NewVms ==
  /\ NewVm = [phase |-> "new", code |-> NoCode, failed |-> "Ok", restricted |-> AnyFunction]
  /\ NoVm = [phase |-> "absent", code |-> NoCode, failed |-> "Ok", restricted |-> AnyFunction]
  /\ NewVm # NoVm /\ IsVm(NewVm) /\ IsVm(NoVm)
  BY DEF NewVm, NoVm, IsVm

LEMMA NoWasmInv == ASSUME NEW v \in Vms, NEW b PROVE VmInv(v, NoWasm, <<>>, b)
  <1>1. Shape(NoWasm, <<>>)
    <2>1. NoWasm = [x \in {"at", "failed", "abi", "fns", "host", "stored", "plan", "starts", "vm"} |-> NoWasm[x]]
      BY DEF NoWasm
    <2>2. NoWasm.vm = NoVm /\ NoWasm.plan = <<>>
      BY DEF NoWasm
    <2>3. IsVm(NoWasm.vm)
      BY <2>2, NewVms
    <2>4. IsWasm(NoWasm)
      BY <2>1, <2>3 DEF IsWasm
    <2> QED BY <2>2, <2>4 DEF Shape
  <1> QED BY <1>1, NewVms DEF VmInv, Stage, Restriction, Allows, Origin, Starts, NoWasm

(* What a module's functions resolve to depends on nothing that changes. *)
LEMMA SameMeaning ==
  ASSUME UNCHANGED <<engine, config>>, NEW u
  PROVE  Resolved(wasm[u])' <=> Resolved(wasm'[u])
  BY DEF Resolved, GetFunctions, ModuleFunctions, CapabilityAllowed

(* An action of one VM: the base VM is not changed any more once there are clones. *)
LEMMA Primed ==
  ASSUME UNCHANGED <<engine, config>>, NEW u, VmInv(u, wasm'[u], stack'[u], wasm'[Base])
  PROVE  VmInv(u, wasm[u], stack[u], wasm[Base])'
  <1>1. Resolved(wasm[u])' <=> Resolved(wasm'[u])
    BY SameMeaning
  <1>2. Shape(wasm[u], stack[u])'
    BY DEF VmInv, Shape
  <1>3. Stage(u, wasm[u], stack[u])'
    BY DEF VmInv, Stage, LoadedPhase
  <1>4. Restriction(wasm[u], stack[u])'
    BY DEF VmInv, Restriction
  <1>5. Origin(u, wasm[u], wasm[Base])'
    BY <1>1 DEF VmInv, Origin
  <1>6. Starts(u, wasm[u], wasm[Base])'
    BY DEF VmInv, Starts
  <1> QED BY <1>2, <1>3, <1>4, <1>5, <1>6 DEF VmInv

LEMMA OneVm ==
  ASSUME Inv, NEW v \in Vms, NEW w, NEW s,
         Set(v, w), stack' = [stack EXCEPT ![v] = s],
         v = Base => wasm[Base].at # "ready",
         VmInv(v, w, s, IF v = Base THEN w ELSE wasm[Base])
  PROVE  Inv'
  <1>1. /\ wasm' = [wasm EXCEPT ![v] = w] /\ UNCHANGED <<engine, config, code>>
        /\ Base \in Vms
    BY DEF Set, Vms
  <1>2. wasm' = [u \in Vms |-> IF u = v THEN w ELSE wasm[u]]
    BY <1>1 DEF Inv
  <1>3. stack' = [u \in Vms |-> IF u = v THEN s ELSE stack[u]]
    BY DEF Inv
  <1>4. ASSUME NEW u \in Vms PROVE VmInv(u, wasm'[u], stack'[u], wasm'[Base])
    <2>1. CASE u = v
      BY <1>1, <1>2, <1>3, <2>1
    <2>2. CASE u # v /\ v # Base
      BY <1>1, <1>2, <1>3, <2>2 DEF Inv
    <2>3. CASE u # v /\ v = Base
      <3>1. wasm[u] = NoWasm /\ stack[u] = <<>>
        BY <2>3 DEF Inv, VmInv, Stage, Origin
      <3> QED BY <1>2, <1>3, <2>3, <3>1, NoWasmInv
    <2> QED BY <2>1, <2>2, <2>3
  <1>5. ASSUME NEW u \in Vms PROVE VmInv(u, wasm[u], stack[u], wasm[Base])'
    BY <1>1, <1>4, Primed
  <1> QED BY <1>1, <1>2, <1>3, <1>5 DEF Inv

-----------------------------------------------------------------------------
LEMMA InitInv == Init => Inv
  <1> SUFFICES ASSUME Init PROVE Inv
    OBVIOUS
  <1>1. \A v \in Vms : wasm[v] = NoWasm /\ stack[v] = <<>>
    BY DEF Init
  <1>2. \A v \in Vms : VmInv(v, wasm[v], stack[v], wasm[Base])
    BY <1>1, NoWasmInv
  <1>3. engine \in Engines /\ wasm = [v \in Vms |-> NoWasm] /\ stack = [v \in Vms |-> <<>>]
    BY DEF Init
  <1> QED BY <1>2, <1>3 DEF Inv

LEMMA CreateBaseStep == ASSUME Inv, CreateBase PROVE Inv'
  <1>1. Base \in Vms /\ wasm[Base].at = "none" /\ stack' = stack
    BY DEF CreateBase, Quiet, Vms
  <1>2. VmInv(Base, wasm[Base], stack[Base], wasm[Base])
    BY <1>1 DEF Inv
  <1>3. wasm[Base] = NoWasm /\ stack[Base] = <<>>
    BY <1>1, <1>2 DEF VmInv, Stage
  <1>4. PICK vm \in {NewVm, NoVm} :
            Set(Base, [NoWasm EXCEPT !.at = "created", !.vm = vm,
                                     !.failed = IF vm = NoVm THEN "UnableToCreateVm" ELSE "Ok"])
    BY DEF CreateBase
  <1> DEFINE w == [NoWasm EXCEPT !.at = "created", !.vm = vm,
                                 !.failed = IF vm = NoVm THEN "UnableToCreateVm" ELSE "Ok"]
  <1>5. IsWasm(w) /\ w.at = "created" /\ w.vm = vm /\ w.plan = <<>> /\ w.starts = 0
    BY NewVms DEF NoWasm, IsWasm
  <1> HIDE DEF w
  <1>6. VmInv(Base, w, <<>>, w)
    BY <1>5, NewVms DEF VmInv, Shape, Stage, Restriction, Allows, Origin, Starts
  <1>7. stack' = [stack EXCEPT ![Base] = <<>>]
    BY <1>1, <1>3 DEF Inv
  <1> QED BY <1>1, <1>4, <1>6, <1>7, OneVm DEF w

LEMMA LoadStep == ASSUME Inv, Load PROVE Inv'
  <1>1. Base \in Vms /\ wasm[Base].at = "created" /\ stack' = stack
    BY DEF Load, Quiet, Vms
  <1>2. VmInv(Base, wasm[Base], stack[Base], wasm[Base])
    BY <1>1 DEF Inv
  <1>3. stack[Base] = <<>> /\ wasm[Base].vm \in {NewVm, NoVm} /\ IsWasm(wasm[Base])
        /\ wasm[Base].starts = 0
    BY <1>1, <1>2 DEF VmInv, Shape, Stage
  <1>4. stack' = [stack EXCEPT ![Base] = <<>>]
    BY <1>1, <1>3 DEF Inv
  <1>5. PICK w : Set(Base, w) /\
            \/ w = Reject(wasm[Base])
            \/ /\ wasm[Base].vm # NoVm
               /\ \E loaded, abi :
                      w = [wasm[Base] EXCEPT !.at = "loaded", !.vm.phase = "loaded", !.vm.code = loaded,
                               !.abi = abi,
                               !.stored = IF Cloneable(engine) = "NotCloneable" THEN loaded ELSE NoCode]
    BY DEF Load
  <1>6. CASE w = Reject(wasm[Base])
    <2>1. IsWasm(w) /\ w.at = "rejected" /\ w.vm = wasm[Base].vm /\ w.plan = wasm[Base].plan
      BY <1>3, <1>6 DEF Reject, Fails, IsWasm
    <2>2. VmInv(Base, w, <<>>, w)
      BY <1>2, <1>3, <2>1, NewVms DEF VmInv, Shape, Stage, Restriction, Allows, Origin, Starts
    <2> QED BY <1>1, <1>4, <1>5, <2>2, OneVm
  <1>7. ASSUME wasm[Base].vm # NoVm, NEW loaded, NEW abi,
               w = [wasm[Base] EXCEPT !.at = "loaded", !.vm.phase = "loaded", !.vm.code = loaded,
                        !.abi = abi,
                        !.stored = IF Cloneable(engine) = "NotCloneable" THEN loaded ELSE NoCode]
        PROVE  Inv'
    <2>1. /\ w.vm = [wasm[Base].vm EXCEPT !.phase = "loaded", !.code = loaded]
          /\ w.at = "loaded" /\ w.plan = wasm[Base].plan /\ w.starts = wasm[Base].starts
          /\ Cloneable(engine) = "NotCloneable" => w.stored = loaded
      BY <1>3, <1>7 DEF IsWasm
    <2>2. /\ IsVm(w.vm) /\ w.vm.phase = "loaded" /\ w.vm.code = loaded
          /\ w.vm.restricted = AnyFunction
      <3>1. IsVm(wasm[Base].vm) /\ wasm[Base].vm.restricted = AnyFunction
        BY <1>3, NewVms
      <3> QED BY <2>1, <3>1 DEF IsVm
    <2>3. IsWasm(w)
      BY <1>3, <1>7, <2>2 DEF IsWasm
    <2>4. VmInv(Base, w, <<>>, w)
      BY <1>2, <1>3, <2>1, <2>2, <2>3 DEF VmInv, Shape, Stage, LoadedPhase, Restriction, Allows, Origin, Starts
    <2> QED BY <1>1, <1>4, <1>5, <2>4, OneVm
  <1> QED BY <1>5, <1>6, <1>7

(* What EngineClone, or the factory of the embedder, gives a clone. *)
LEMMA CloneKinds ==
  ASSUME engine \in Engines, NEW v \in Clones, NEW m, m.phase = "linked",
         NEW vm \in IF Cloneable(engine) = "NotCloneable" THEN {NewVm, NoVm} ELSE EngineClone(engine, m)
  PROVE  /\ IsVm(vm) /\ vm.restricted = AnyFunction
         /\ vm # NoVm => /\ vm.phase = LoadedPhase(v)
                         /\ Cloneable(engine) # "NotCloneable" => vm.code = m.code
  <1>1. v # Base
    BY VmStartAssumption DEF Base
  <1>2. CASE engine \in {"v8", "wamr", "wasmtime"}
    <2>1. Cloneable(engine) = "CompiledBytecode"
      BY <1>2 DEF Cloneable
    <2>2. vm \in V8Clone(m)
      BY <1>2, <2>1 DEF EngineClone, WamrClone, WasmtimeClone
    <2> QED BY <1>1, <2>1, <2>2 DEF V8Clone, NewVm, NoVm, IsVm, LoadedPhase
  <1>3. CASE engine \in {"wavm", "null"}
    <2>1. Cloneable(engine) = "InstantiatedModule"
      BY <1>3 DEF Cloneable
    <2>2. vm \in WavmClone(m)
      BY <1>3, <2>1 DEF EngineClone, WavmClone, NullClone
    <2> QED BY <1>1, <2>1, <2>2 DEF WavmClone, NewVm, NoVm, IsVm, LoadedPhase
  <1>4. CASE engine = "wasmedge"
    <2>1. Cloneable(engine) = "NotCloneable"
      BY <1>4 DEF Cloneable
    <2> QED BY <1>1, <2>1, NewVms DEF LoadedPhase
  <1> QED BY <1>2, <1>3, <1>4 DEF Engines

LEMMA CreateCloneStep == ASSUME Inv, NEW v \in Clones, CreateClone(v) PROVE Inv'
  <1>1. v \in Vms /\ v # Base /\ Base \in Vms /\ wasm[v].at = "none" /\ wasm[Base].at = "ready"
        /\ stack' = stack
    BY VmStartAssumption DEF CreateClone, Quiet, Vms, Base
  <1>2. VmInv(v, wasm[v], stack[v], wasm[Base]) /\ VmInv(Base, wasm[Base], stack[Base], wasm[Base])
    BY <1>1 DEF Inv
  <1>3. stack[v] = <<>> /\ wasm[Base].vm.phase = "linked"
    BY <1>1, <1>2 DEF VmInv, Stage
  <1>4. PICK vm \in IF Cloneable(engine) = "NotCloneable" THEN {NewVm, NoVm}
                     ELSE EngineClone(engine, wasm[Base].vm) :
            Set(v, [NoWasm EXCEPT !.at = "loaded", !.vm = vm,
                       !.failed = IF vm = NoVm THEN "UnableToCreateVm" ELSE "Ok",
                       !.starts = IF vm.phase = "linked" THEN wasm[Base].starts ELSE 0])
    BY DEF CreateClone
  <1> DEFINE w == [NoWasm EXCEPT !.at = "loaded", !.vm = vm,
                       !.failed = IF vm = NoVm THEN "UnableToCreateVm" ELSE "Ok",
                       !.starts = IF vm.phase = "linked" THEN wasm[Base].starts ELSE 0]
  <1>5. /\ IsVm(vm) /\ vm.restricted = AnyFunction
        /\ vm # NoVm => /\ vm.phase = LoadedPhase(v)
                        /\ Cloneable(engine) # "NotCloneable" => vm.code = wasm[Base].vm.code
    BY <1>3, CloneKinds DEF Inv
  <1>6. /\ IsWasm(w) /\ w.at = "loaded" /\ w.vm = vm /\ w.plan = <<>>
        /\ w.starts = IF vm.phase = "linked" THEN wasm[Base].starts ELSE 0
    BY <1>5 DEF NoWasm, IsWasm
  <1> HIDE DEF w
  <1>7. VmInv(v, w, <<>>, wasm[Base])
    BY <1>1, <1>5, <1>6 DEF VmInv, Shape, Stage, Restriction, Allows, Origin, Starts
  <1>8. stack' = [stack EXCEPT ![v] = <<>>]
    BY <1>1, <1>3 DEF Inv
  <1> QED BY <1>1, <1>4, <1>7, <1>8, OneVm DEF w

-----------------------------------------------------------------------------
(* A WasmBase that is rejected, and one that came up: nobody is in it any more. *)
LEMMA RejectInv ==
  ASSUME NEW v \in Vms, NEW w, NEW b, Shape(w, <<>>), v # Base => b.at = "ready",
         EnforcesRestriction(engine) => w.vm.restricted = AnyFunction
  PROVE  VmInv(v, Reject(w), <<>>, b)
  <1>1. /\ IsWasm(Reject(w)) /\ Reject(w).at = "rejected" /\ Reject(w).vm = w.vm
        /\ Reject(w).plan = w.plan
    BY DEF Reject, Fails, IsWasm, Shape
  <1> HIDE DEF Reject
  <1>2. Shape(Reject(w), <<>>) /\ Stage(v, Reject(w), <<>>)
    BY <1>1 DEF Shape, Stage
  <1>3. Restriction(Reject(w), <<>>)
    BY <1>1 DEF Restriction, Allows
  <1>4. Origin(v, Reject(w), b) /\ Starts(v, Reject(w), b)
    BY <1>1 DEF Origin, Starts
  <1> QED BY <1>2, <1>3, <1>4 DEF VmInv

(* All that the end of initialize needs. *)
Ready(v, w, b) ==
    /\ Shape(w, <<>>) /\ w.vm.phase = "linked" /\ Resolved(w)
    /\ v = Base /\ Cloneable(engine) = "NotCloneable" => w.stored = w.vm.code
    /\ v # Base => b.at = "ready" /\ w.vm.code = b.vm.code /\ w.abi = b.abi

LEMMA FinishInv ==
  ASSUME NEW v \in Vms, NEW w, NEW b, Ready(v, w, b),
         w.starts = IF StartPlan(w.fns) = <<>> THEN 0 ELSE 1
  PROVE  VmInv(v, Finish(w), <<>>, IF v = Base THEN Finish(w) ELSE b)
  <1> DEFINE done == [w EXCEPT !.vm.restricted = AnyFunction]
             ready == [done EXCEPT !.at = "ready"]
  <1>1. /\ IsWasm(done) /\ done.plan = w.plan /\ done.vm.restricted = AnyFunction
    BY DEF Ready, Shape, IsWasm, IsVm
  <1>2. CASE w.failed # "Ok"
    <2>1. Finish(w) = Reject(done)
      BY <1>2 DEF Finish
    <2>2. Shape(done, <<>>)
      BY <1>1 DEF Ready, Shape
    <2> HIDE DEF done
    <2> QED BY <1>1, <2>1, <2>2, RejectInv DEF Ready
  <1>3. CASE w.failed = "Ok"
    <2>1. Finish(w) = ready
      BY <1>3 DEF Finish
    <2>2. /\ IsWasm(ready) /\ ready.at = "ready" /\ ready.plan = w.plan
          /\ ready.vm.restricted = AnyFunction /\ ready.vm.phase = w.vm.phase
          /\ ready.vm.code = w.vm.code /\ ready.abi = w.abi /\ ready.fns = w.fns
          /\ ready.stored = w.stored /\ ready.starts = w.starts
      BY DEF Ready, Shape, IsWasm, IsVm
    <2> HIDE DEF ready, done
    <2>3. Shape(ready, <<>>) /\ Stage(v, ready, <<>>)
      BY <2>2 DEF Ready, Shape, Stage
    <2>4. Restriction(ready, <<>>)
      BY <2>2 DEF Restriction, Allows
    <2>5. Origin(v, ready, IF v = Base THEN ready ELSE b)
      BY <2>2 DEF Ready, Origin, Resolved
    <2>6. Starts(v, ready, IF v = Base THEN ready ELSE b)
      BY <2>2 DEF Starts
    <2> QED BY <2>1, <2>3, <2>4, <2>5, <2>6 DEF VmInv
  <1> QED BY <1>2, <1>3

LEMMA FailsKeep ==
  ASSUME NEW w, IsWasm(w), NEW f
  PROVE  LET x == Fails(w, f)
             y == VmFails(w, f)
         IN /\ IsWasm(x) /\ x.at = w.at /\ x.abi = w.abi /\ x.fns = w.fns /\ x.stored = w.stored
            /\ x.plan = w.plan /\ x.starts = w.starts /\ x.vm = w.vm
            /\ IsWasm(y) /\ y.at = w.at /\ y.abi = w.abi /\ y.fns = w.fns /\ y.stored = w.stored
            /\ y.plan = w.plan /\ y.starts = w.starts /\ y.vm.phase = w.vm.phase
            /\ y.vm.code = w.vm.code /\ y.vm.restricted = w.vm.restricted
  <1>1. IsVm([w.vm EXCEPT !.failed = f])
    BY DEF IsWasm, IsVm
  <1>2. VmFails(w, f).vm = [w.vm EXCEPT !.failed = f]
    BY DEF VmFails, IsWasm
  <1>3. IsWasm(VmFails(w, f))
    BY <1>1, <1>2 DEF VmFails, IsWasm
  <1>4. /\ [w.vm EXCEPT !.failed = f].phase = w.vm.phase /\ [w.vm EXCEPT !.failed = f].code = w.vm.code
        /\ [w.vm EXCEPT !.failed = f].restricted = w.vm.restricted
    BY DEF IsWasm, IsVm
  <1> QED BY <1>2, <1>3, <1>4 DEF Fails, VmFails, IsWasm

(* A WasmBase between the steps of initialize: it is loaded, or it is given up. *)
Midway(v, w, phase) ==
    /\ Shape(w, <<>>) /\ (EnforcesRestriction(engine) => w.vm.restricted = AnyFunction)
    /\ \/ w.at = "rejected"
       \/ /\ w.at = "loaded" /\ w.vm.phase = phase
          /\ w.starts = IF Instantiates(v) THEN 0 ELSE wasm[Base].starts
          /\ v = Base /\ Cloneable(engine) = "NotCloneable" => w.stored = w.vm.code
          /\ v # Base => w.vm.code = wasm[Base].vm.code

LEMMA CloneWays ==
  ASSUME engine \in Engines
  PROVE  Cloneable(engine) \in {"CompiledBytecode", "InstantiatedModule", "NotCloneable"}
  BY DEF Engines, Cloneable

LEMMA LoadedMidway ==
  ASSUME Inv, NEW v \in Vms, wasm[v].at = "loaded", wasm[v].vm # NoVm, NEW l \in LoadFromBase(v)
  PROVE  Midway(v, l, IF Instantiates(v) THEN "loaded" ELSE "linked")
  <1> DEFINE w == wasm[v]
  <1>1. VmInv(v, w, stack[v], wasm[Base]) /\ VmInv(Base, wasm[Base], stack[Base], wasm[Base])
    BY DEF Inv, Vms
  <1>2. /\ Shape(w, <<>>) /\ (EnforcesRestriction(engine) => w.vm.restricted = AnyFunction)
        /\ w.vm.phase = LoadedPhase(v)
        /\ w.starts = IF w.vm.phase = "linked" THEN wasm[Base].starts ELSE 0
    BY <1>1 DEF VmInv, Shape, Stage, Restriction, Allows, Starts
  <1>3. v # Base => wasm[Base].at = "ready"
    BY <1>1 DEF VmInv, Origin
  <1>4. CASE v # Base /\ Cloneable(engine) = "NotCloneable"
    <2>1. wasm[Base].stored = wasm[Base].vm.code
      BY <1>1, <1>3, <1>4 DEF VmInv, Origin
    <2>2. w.starts = 0 /\ Instantiates(v)
      BY <1>2, <1>4 DEF LoadedPhase, Instantiates
    <2>3. CASE l = Reject(w)
      <3>1. IsWasm(l) /\ l.at = "rejected" /\ l.vm = w.vm /\ l.plan = w.plan
        BY <1>2, <2>3 DEF Reject, Fails, IsWasm, Shape
      <3> QED BY <1>2, <3>1 DEF Midway, Shape
    <2>4. CASE l = [w EXCEPT !.vm.phase = "loaded", !.vm.code = wasm[Base].stored]
      <3>1. IsVm(w.vm)
        BY <1>2 DEF Shape, IsWasm
      <3>2. /\ l.vm = [w.vm EXCEPT !.phase = "loaded", !.code = wasm[Base].stored]
            /\ l.at = w.at /\ l.plan = w.plan /\ l.starts = w.starts
        BY <1>2, <2>4 DEF Shape, IsWasm
      <3>3. /\ IsVm(l.vm) /\ l.vm.phase = "loaded" /\ l.vm.code = wasm[Base].stored
            /\ l.vm.restricted = w.vm.restricted
        BY <3>1, <3>2 DEF IsVm
      <3>4. IsWasm(l)
        BY <1>2, <2>4, <3>3 DEF Shape, IsWasm
      <3> QED BY <1>2, <1>4, <2>1, <2>2, <3>2, <3>3, <3>4 DEF Midway, Shape
    <2> QED BY <1>4, <2>3, <2>4 DEF LoadFromBase
  <1>5. CASE ~(v # Base /\ Cloneable(engine) = "NotCloneable")
    <2>1. l = w
      BY <1>5 DEF LoadFromBase
    <2>2. v # Base => w.vm.code = wasm[Base].vm.code
      BY <1>1, <1>5 DEF VmInv, Origin
    <2>3. v = Base /\ Cloneable(engine) = "NotCloneable" => w.stored = w.vm.code
      BY <1>1 DEF VmInv, Origin
    <2>4. w.vm.phase = IF Instantiates(v) THEN "loaded" ELSE "linked"
      BY <1>2, <1>5, CloneWays DEF LoadedPhase, Instantiates, Inv
    <2> QED BY <1>2, <2>1, <2>2, <2>3, <2>4 DEF Midway
  <1> QED BY <1>4, <1>5

LEMMA LinkedMidway ==
  ASSUME NEW v \in Vms, NEW l, l.at = "loaded",
         Midway(v, l, IF Instantiates(v) THEN "loaded" ELSE "linked"), NEW w \in Link(v, l)
  PROVE  Midway(v, w, "linked") /\ w.abi = l.abi
  <1>1. CASE ~Instantiates(v)
    BY <1>1 DEF Link, Midway
  <1>2. CASE Instantiates(v)
    <2>1. IsWasm(l) /\ IsVm(l.vm)
      BY DEF Midway, Shape, IsWasm
    <2>2. PICK host, x, f :
              /\ w = [l EXCEPT !.host = host, !.vm.phase = "linked"] \/ w = Reject(x)
              /\ x = l \/ x = VmFails(l, f)
      BY <1>2 DEF Link
    <2>3. CASE w = [l EXCEPT !.host = host, !.vm.phase = "linked"]
      <3>1. /\ w.vm = [l.vm EXCEPT !.phase = "linked"]
            /\ w.at = l.at /\ w.plan = l.plan /\ w.starts = l.starts /\ w.stored = l.stored
            /\ w.abi = l.abi
        BY <2>1, <2>3 DEF IsWasm
      <3>2. /\ IsVm(w.vm) /\ w.vm.phase = "linked" /\ w.vm.code = l.vm.code
            /\ w.vm.restricted = l.vm.restricted
        BY <2>1, <3>1 DEF IsVm
      <3>3. IsWasm(w)
        BY <2>1, <2>3, <3>2 DEF IsWasm
      <3> QED BY <1>2, <3>1, <3>2, <3>3 DEF Midway, Shape
    <2>4. CASE w = Reject(x)
      <3>1. IsWasm(x) /\ x.plan = l.plan /\ x.vm.restricted = l.vm.restricted /\ x.abi = l.abi
        BY <2>1, <2>2, FailsKeep
      <3>2. IsWasm(w) /\ w.at = "rejected" /\ w.vm = x.vm /\ w.plan = x.plan /\ w.abi = x.abi
        BY <2>4, <3>1 DEF Reject, Fails, IsWasm
      <3> QED BY <3>1, <3>2 DEF Midway, Shape
    <2> QED BY <2>2, <2>3, <2>4
  <1> QED BY <1>1, <1>2

LEMMA ResolvedReady ==
  ASSUME NEW v \in Vms, NEW w, w.at = "loaded", Midway(v, w, "linked"),
         w.abi = AbiOf(v, w), v # Base => wasm[Base].at = "ready"
  PROVE  LET r == Resolve(w)
         IN /\ Ready(v, r, wasm[Base])
            /\ r.starts = IF Instantiates(v) THEN 0 ELSE wasm[Base].starts
            /\ EnforcesRestriction(engine) => r.vm.restricted = AnyFunction
  <1> DEFINE got == GetFunctions(Codes[w.vm.code.name], w.abi)
             x == IF got.vmfailed THEN VmFails(w, "UnableToInitializeCode") ELSE w
             r == Resolve(w)
  <1>1. r = [x EXCEPT !.fns = got.fns, !.failed = IF got.failed = "Ok" THEN w.failed ELSE got.failed]
    BY DEF Resolve
  <1>2. /\ IsWasm(x) /\ x.at = w.at /\ x.abi = w.abi /\ x.stored = w.stored
        /\ x.plan = w.plan /\ x.starts = w.starts /\ x.vm.phase = w.vm.phase
        /\ x.vm.code = w.vm.code /\ x.vm.restricted = w.vm.restricted
    BY FailsKeep DEF Midway, Shape
  <1> HIDE DEF x, r, got
  <1>3. /\ IsWasm(r) /\ r.abi = w.abi /\ r.stored = w.stored /\ r.fns = got.fns
        /\ r.plan = w.plan /\ r.starts = w.starts /\ r.vm.phase = w.vm.phase
        /\ r.vm.code = w.vm.code /\ r.vm.restricted = w.vm.restricted
    BY <1>1, <1>2 DEF IsWasm
  <1>4. Resolved(r)
    BY <1>3 DEF Resolved, got
  <1>5. v # Base => w.vm.code = wasm[Base].vm.code /\ w.abi = wasm[Base].abi
    BY DEF Midway, AbiOf
  <1>6. Ready(v, r, wasm[Base])
    BY <1>3, <1>4, <1>5 DEF Midway, Ready, Shape
  <1> QED BY <1>3, <1>6 DEF Midway, r

LEMMA Plans ==
  ASSUME NEW fns, StartPlan(fns) # <<>>
  PROVE  Head(StartPlan(fns)) \in StartFunctions /\ Tail(StartPlan(fns)) \in Seq(StartFunctions)
  <1>1. StartPlan(fns) \in Seq(StartFunctions)
    <2>1. /\ <<"_initialize">> \in Seq(StartFunctions) /\ <<"main">> \in Seq(StartFunctions)
          /\ <<"_start">> \in Seq(StartFunctions)
      BY DEF StartFunctions
    <2> QED BY <2>1 DEF StartPlan
  <1> QED BY <1>1

(* startVm is about to call the first start function. *)
LEMMA StartInv ==
  ASSUME NEW v \in Vms, NEW w, NEW b, Ready(v, w, b), StartPlan(w.fns) # <<>>, w.starts = 0
  PROVE  VmInv(v, Start(w), <<Head(StartPlan(w.fns))>>, IF v = Base THEN Start(w) ELSE b)
  <1> DEFINE x == Start(w)
             first == Head(StartPlan(w.fns))
  <1>1. x = [w EXCEPT !.at = "starting", !.plan = Tail(StartPlan(w.fns)), !.starts = @ + 1,
                      !.vm.restricted = AllowedAtStart]
    BY DEF Start
  <1>2. IsWasm(w) /\ IsVm(w.vm)
    BY DEF Ready, Shape, IsWasm
  <1> HIDE DEF x, first
  <1>3. /\ x.at = "starting" /\ x.plan = Tail(StartPlan(w.fns)) /\ x.starts = 1 /\ x.fns = w.fns
        /\ x.abi = w.abi /\ x.stored = w.stored /\ x.vm = [w.vm EXCEPT !.restricted = AllowedAtStart]
    BY <1>1, <1>2 DEF IsWasm
  <1>4. /\ IsVm(x.vm) /\ x.vm.phase = w.vm.phase /\ x.vm.code = w.vm.code
        /\ x.vm.restricted = AllowedAtStart
    BY <1>2, <1>3 DEF IsVm
  <1>5. IsWasm(x)
    BY <1>1, <1>2, <1>4 DEF IsWasm
  <1>6. first \in StartFunctions /\ first # "malloc" /\ first \in GuestFunctions
    BY Plans DEF first, StartFunctions, GuestFunctions
  <1>7. Shape(x, <<first>>) /\ Stage(v, x, <<first>>)
    BY <1>3, <1>4, <1>5, <1>6, Plans DEF Ready, Shape, Stage
  <1>8. Restriction(x, <<first>>)
    BY <1>4, <1>6 DEF Restriction, Allows
  <1>9. Origin(v, x, IF v = Base THEN x ELSE b) /\ Starts(v, x, IF v = Base THEN x ELSE b)
    BY <1>3, <1>4 DEF Ready, Origin, Starts, Resolved
  <1> QED BY <1>7, <1>8, <1>9 DEF VmInv, x, first

LEMMA InitializeStep == ASSUME Inv, NEW v \in Vms, Initialize(v) PROVE Inv'
  <1> DEFINE b == wasm[Base]
  <1>1. /\ wasm[v].at = "loaded" /\ VmInv(v, wasm[v], stack[v], b)
    BY DEF Initialize, Inv
  <1>2. /\ stack[v] = <<>> /\ Shape(wasm[v], <<>>) /\ (v # Base => b.at = "ready")
        /\ EnforcesRestriction(engine) => wasm[v].vm.restricted = AnyFunction
        /\ v = Base => b.at # "ready"
    BY <1>1 DEF VmInv, Shape, Stage, Restriction, Allows, Origin
  <1>3. stack = [stack EXCEPT ![v] = <<>>]
    BY <1>2 DEF Inv
  <1>4. ASSUME NEW w, Set(v, Reject(w)), Quiet, Shape(w, <<>>),
               EnforcesRestriction(engine) => w.vm.restricted = AnyFunction
        PROVE  Inv'
    <2>1. VmInv(v, Reject(w), <<>>, IF v = Base THEN Reject(w) ELSE b)
      BY <1>2, <1>4, RejectInv
    <2>2. stack' = [stack EXCEPT ![v] = <<>>]
      BY <1>3, <1>4 DEF Quiet
    <2> QED BY <1>2, <1>4, <2>1, <2>2, OneVm
  <1>5. CASE wasm[v].vm = NoVm
    BY <1>2, <1>4, <1>5 DEF Initialize
  <1>6. ASSUME wasm[v].vm # NoVm, NEW w, w.at = "rejected", Set(v, w), Quiet, NEW phase, Midway(v, w, phase)
        PROVE  Inv'
    <2>1. VmInv(v, w, <<>>, IF v = Base THEN w ELSE b)
      BY <1>2, <1>6 DEF Midway, VmInv, Shape, Stage, Restriction, Allows, Origin, Starts
    <2>2. stack' = [stack EXCEPT ![v] = <<>>]
      BY <1>3, <1>6 DEF Quiet
    <2> QED BY <1>2, <1>6, <2>1, <2>2, OneVm
  <1>7. CASE wasm[v].vm # NoVm
    <2>1. PICK l \in LoadFromBase(v) :
              IF l.at = "rejected" THEN Set(v, l) /\ Quiet
              ELSE \E w \in Link(v, [l EXCEPT !.abi = AbiOf(v, l)]) :
                 LET r == Resolve(w)
                     begins == Instantiates(v) /\ StartPlan(r.fns) # <<>>
                 IN IF w.at = "rejected" THEN Set(v, w) /\ Quiet
                    ELSE /\ Set(v, IF begins THEN Start(r) ELSE Finish(r))
                         /\ stack' = IF begins
                                     THEN [stack EXCEPT ![v] = <<Head(StartPlan(r.fns))>>]
                                     ELSE stack
      BY <1>7, Zenon DEF Initialize
    <2>2. Midway(v, l, IF Instantiates(v) THEN "loaded" ELSE "linked")
      BY <1>1, <1>7, LoadedMidway
    <2>3. CASE l.at = "rejected"
      BY <1>6, <1>7, <2>1, <2>2, <2>3
    <2>4. CASE l.at # "rejected"
      <3> DEFINE m == [l EXCEPT !.abi = AbiOf(v, l)]
      <3>1. PICK w \in Link(v, m) :
                 LET r == Resolve(w)
                     begins == Instantiates(v) /\ StartPlan(r.fns) # <<>>
                 IN IF w.at = "rejected" THEN Set(v, w) /\ Quiet
                    ELSE /\ Set(v, IF begins THEN Start(r) ELSE Finish(r))
                         /\ stack' = IF begins
                                     THEN [stack EXCEPT ![v] = <<Head(StartPlan(r.fns))>>]
                                     ELSE stack
        BY <2>1, <2>4
      <3>2. IsWasm(l) /\ l.at = "loaded"
        BY <2>2, <2>4 DEF Midway, Shape
      <3>3. /\ IsWasm(m) /\ m.at = "loaded" /\ m.abi = AbiOf(v, l) /\ m.vm = l.vm
            /\ m.plan = l.plan /\ m.starts = l.starts /\ m.stored = l.stored
        BY <3>2 DEF IsWasm
      <3> HIDE DEF m
      <3>4. Midway(v, m, IF Instantiates(v) THEN "loaded" ELSE "linked") /\ m.abi = AbiOf(v, m)
        BY <2>2, <2>4, <3>3 DEF Midway, Shape, AbiOf
      <3>5. Midway(v, w, "linked") /\ w.abi = m.abi
        BY <3>3, <3>4, LinkedMidway
      <3>6. CASE w.at = "rejected"
        BY <1>6, <1>7, <3>1, <3>5, <3>6
      <3>7. CASE w.at # "rejected"
        <4> DEFINE r == Resolve(w)
                   begins == Instantiates(v) /\ StartPlan(r.fns) # <<>>
        <4>1. /\ Set(v, IF begins THEN Start(r) ELSE Finish(r))
              /\ stack' = IF begins THEN [stack EXCEPT ![v] = <<Head(StartPlan(r.fns))>>] ELSE stack
          BY <3>1, <3>7
        <4>2. w.at = "loaded" /\ w.abi = AbiOf(v, w)
          BY <3>4, <3>5, <3>7 DEF Midway, AbiOf
        <4>3. /\ Ready(v, r, b)
              /\ r.starts = IF Instantiates(v) THEN 0 ELSE b.starts
          BY <1>2, <3>5, <4>2, ResolvedReady
        <4> HIDE DEF r
        <4>4. CASE begins
          <5>1. VmInv(v, Start(r), <<Head(StartPlan(r.fns))>>, IF v = Base THEN Start(r) ELSE b)
            BY <4>3, <4>4, StartInv
          <5> QED BY <1>2, <4>1, <4>4, <5>1, OneVm
        <4>5. CASE ~begins
          <5>1. r.starts = IF StartPlan(r.fns) = <<>> THEN 0 ELSE 1
            <6>1. CASE Instantiates(v)
              BY <4>3, <4>5, <6>1
            <6>2. CASE ~Instantiates(v)
              <7>1. v # Base
                BY <6>2 DEF Instantiates
              <7>2. VmInv(Base, b, stack[Base], b)
                BY DEF Inv, Vms
              <7>3. Resolved(b) /\ b.starts = IF StartPlan(b.fns) = <<>> THEN 0 ELSE 1
                BY <1>2, <7>1, <7>2 DEF VmInv, Origin, Starts
              <7>4. r.fns = b.fns
                BY <4>3, <7>1, <7>3 DEF Ready, Resolved
              <7> QED BY <4>3, <6>2, <7>3, <7>4
            <6> QED BY <6>1, <6>2
          <5>2. VmInv(v, Finish(r), <<>>, IF v = Base THEN Finish(r) ELSE b)
            BY <4>3, <5>1, FinishInv
          <5>3. stack' = [stack EXCEPT ![v] = <<>>]
            BY <1>3, <4>1, <4>5
          <5> QED BY <1>2, <4>1, <4>5, <5>2, <5>3, OneVm
        <4> QED BY <4>4, <4>5
      <3> QED BY <3>6, <3>7
    <2> QED BY <2>3, <2>4
  <1> QED BY <1>5, <1>7

-----------------------------------------------------------------------------
(* A guest call ends in a VM, and leaves w0 of its WasmBase: as it was, or failed. *)
SameBut(w0, w) ==
    /\ IsWasm(w0) /\ w0.at = w.at /\ w0.abi = w.abi /\ w0.fns = w.fns /\ w0.stored = w.stored
    /\ w0.plan = w.plan /\ w0.starts = w.starts /\ w0.vm.phase = w.vm.phase
    /\ w0.vm.code = w.vm.code

LEMMA Lifted ==
  ASSUME NEW w, IsWasm(w), NEW r
  PROVE  SameBut([w EXCEPT !.vm.restricted = r], w) /\ [w EXCEPT !.vm.restricted = r].vm.restricted = r
  <1> DEFINE x == [w EXCEPT !.vm.restricted = r]
  <1>1. x.vm = [w.vm EXCEPT !.restricted = r]
    BY DEF IsWasm
  <1>2. IsVm(x.vm) /\ x.vm.restricted = r /\ x.vm.phase = w.vm.phase /\ x.vm.code = w.vm.code
    BY <1>1 DEF IsWasm, IsVm
  <1>3. IsWasm(x)
    BY <1>2 DEF IsWasm
  <1> QED BY <1>2, <1>3 DEF SameBut, IsWasm

LEMMA Popped ==
  ASSUME NEW s \in Seq(GuestFunctions), s # <<>>
  PROVE  /\ Len(s) \in Nat \ {0} /\ Front(s) \in Seq(GuestFunctions) /\ Len(Front(s)) = Len(s) - 1
         /\ \A k \in 1 .. Len(s) - 1 : Front(s)[k] = s[k]
         /\ Front(s) = <<>> <=> Len(s) = 1
  <1>1. Len(s) \in Nat \ {0} /\ Len(s) - 1 \in Nat
    BY SMT
  <1>2. Front(s) = SubSeq(s, 1, Len(s) - 1)
    BY DEF Front
  <1>3. /\ Front(s) \in Seq(GuestFunctions) /\ Len(Front(s)) = Len(s) - 1
        /\ \A k \in 1 .. Len(s) - 1 : Front(s)[k] = s[k]
    <2> DEFINE m == Len(s) - 1
               f == SubSeq(s, 1, m)
    <2>1. 1 \in Int /\ m \in Int /\ \A i \in 1 .. m : s[i] \in GuestFunctions
      BY <1>1
    <2> HIDE DEF m
    <2>2. /\ f \in Seq(GuestFunctions) /\ Len(f) = IF 1 <= m THEN m - 1 + 1 ELSE 0
          /\ \A i \in 1 .. m - 1 + 1 : f[i] = s[1 + i - 1]
      BY <2>1, SubSeqProperties
    <2> HIDE DEF f
    <2>3. m \in Nat
      BY <1>1 DEF m
    <2>4. Len(f) = m
      BY <2>2, <2>3
    <2>5. ASSUME NEW i \in 1 .. m PROVE f[i] = s[i]
      <3>1. i \in 1 .. m - 1 + 1 /\ 1 + i - 1 = i
        BY <2>3
      <3> QED BY <2>2, <3>1
    <2> QED BY <1>2, <2>2, <2>4, <2>5 DEF f, m
  <1> HIDE DEF Front
  <1>4. Front(s) = <<>> <=> Len(Front(s)) = 0
    BY <1>3
  <1> QED BY <1>1, <1>3, <1>4

LEMMA EndsStep ==
  ASSUME Inv, NEW v \in Vms, stack[v] # <<>>, NEW w0, SameBut(w0, wasm[v]),
         w0.vm.restricted = wasm[v].vm.restricted, Ends(v, w0)
  PROVE  Inv'
  <1> DEFINE b == wasm[Base]
             s == stack[v]
             rest == Front(s)
             w == IF Top(v) = "malloc" THEN [w0 EXCEPT !.vm.restricted = AnyFunction] ELSE w0
             next == w.at = "starting" /\ rest = <<>>
  <1>1. VmInv(v, wasm[v], s, b)
    BY DEF Inv
  <1>2. /\ s \in Seq(GuestFunctions) /\ wasm[v].at \in {"starting", "ready"}
        /\ v = Base => b.at # "ready"
        /\ v # Base => b.at = "ready"
    BY <1>1 DEF VmInv, Shape, Stage, Origin
  <1>3. /\ Len(s) \in Nat \ {0} /\ rest \in Seq(GuestFunctions) /\ Len(rest) = Len(s) - 1
        /\ \A k \in 1 .. Len(s) - 1 : rest[k] = s[k]
        /\ rest = <<>> <=> Len(s) = 1
    BY <1>2, Popped
  <1>4. Top(v) = s[Len(s)]
    BY DEF Top, Last
  <1>5. /\ SameBut(w, wasm[v])
        /\ w.vm.restricted = IF Top(v) = "malloc" THEN AnyFunction ELSE wasm[v].vm.restricted
    <2>1. IsWasm(w0)
      BY DEF SameBut
    <2>2. CASE Top(v) = "malloc"
      BY <2>1, <2>2, Lifted DEF SameBut
    <2>3. CASE Top(v) # "malloc"
      BY <2>3
    <2> QED BY <2>2, <2>3
  <1>6. /\ Set(v, IF ~next THEN w ELSE IF w.plan # <<>> THEN [w EXCEPT !.plan = Tail(@)] ELSE Finish(w))
        /\ stack' = [stack EXCEPT ![v] = IF next /\ w.plan # <<>> THEN <<Head(w.plan)>> ELSE rest]
    BY DEF Ends
  <1> HIDE DEF w
  <1>7. CASE ~next
    <2>1. Shape(w, rest)
      BY <1>1, <1>3, <1>5 DEF VmInv, Shape, SameBut
    <2>2. Stage(v, w, rest)
      <3>1. Stage(v, wasm[v], s)
        BY <1>1 DEF VmInv
      <3>2. w.at = wasm[v].at /\ w.vm.phase = wasm[v].vm.phase
        BY <1>5 DEF SameBut
      <3>3. w.at = "starting" => rest # <<>>
        BY <1>7
      <3>4. rest # <<>> => rest[1] = s[1] /\ s # <<>>
        BY <1>3
      <3>5. \A k \in 2 .. Len(rest) : rest[k] \notin StartFunctions
        BY <1>3, <3>1 DEF Stage
      <3> QED BY <1>2, <3>1, <3>2, <3>3, <3>4, <3>5 DEF Stage
    <2>3. Restriction(w, rest)
      <3> SUFFICES ASSUME EnforcesRestriction(engine)
                   PROVE  /\ w.vm.restricted = Allows(rest)
                          /\ \A k \in 1 .. Len(rest) - 1 : rest[k] \notin StartFunctions \cup {"malloc"}
        BY DEF Restriction
      <3>1. /\ wasm[v].vm.restricted = Allows(s)
            /\ \A k \in 1 .. Len(s) - 1 : s[k] \notin StartFunctions \cup {"malloc"}
        BY <1>1 DEF VmInv, Restriction
      <3>2. Allows(rest) = AnyFunction
        BY <1>3, <3>1 DEF Allows
      <3>3. s[Len(s)] \notin StartFunctions
        BY <1>1, <1>2, <1>3, <1>5, <1>7 DEF VmInv, Stage, SameBut
      <3>4. w.vm.restricted = AnyFunction
        BY <1>3, <1>4, <1>5, <3>1, <3>3 DEF Allows
      <3>5. \A k \in 1 .. Len(rest) - 1 : rest[k] \notin StartFunctions \cup {"malloc"}
        BY <1>3, <3>1
      <3> QED BY <3>2, <3>4, <3>5
    <2>4. Origin(v, w, IF v = Base THEN w ELSE b) /\ Starts(v, w, IF v = Base THEN w ELSE b)
      BY <1>1, <1>2, <1>5 DEF VmInv, Origin, Starts, Resolved, SameBut
    <2>5. VmInv(v, w, rest, IF v = Base THEN w ELSE b)
      BY <2>1, <2>2, <2>3, <2>4 DEF VmInv
    <2> QED BY <1>2, <1>6, <1>7, <2>5, OneVm
  <1>8. CASE next
    <2>1. Len(s) = 1 /\ s[1] \in StartFunctions /\ Top(v) = s[1] /\ w.at = "starting"
      BY <1>1, <1>3, <1>4, <1>5, <1>8 DEF VmInv, Stage, SameBut
    <2>2. EnforcesRestriction(engine) => w.vm.restricted = AllowedAtStart
      BY <1>1, <1>5, <2>1 DEF VmInv, Restriction, Allows, StartFunctions
    <2>3. Ready(v, w, b) /\ w.starts = 1 /\ StartPlan(w.fns) # <<>>
      BY <1>1, <1>5, <1>2, <2>1 DEF VmInv, Shape, Stage, Origin, Starts, Ready, Resolved, SameBut
    <2>4. CASE w.plan = <<>>
      <3>1. VmInv(v, Finish(w), <<>>, IF v = Base THEN Finish(w) ELSE b)
        BY <2>3, FinishInv
      <3> QED BY <1>2, <1>6, <1>8, <2>4, <3>1, OneVm
    <2>5. CASE w.plan # <<>>
      <3> DEFINE x == [w EXCEPT !.plan = Tail(w.plan)]
                 first == Head(w.plan)
      <3>1. first \in StartFunctions /\ Tail(w.plan) \in Seq(StartFunctions)
        BY <2>3, <2>5 DEF Ready, Shape
      <3>2. /\ IsWasm(x) /\ x.at = w.at /\ x.abi = w.abi /\ x.fns = w.fns /\ x.stored = w.stored
            /\ x.plan = Tail(w.plan) /\ x.starts = w.starts /\ x.vm = w.vm
        BY <2>3 DEF Ready, Shape, IsWasm
      <3>3. Set(v, x) /\ stack' = [stack EXCEPT ![v] = <<first>>]
        BY <1>6, <1>8, <2>5
      <3> HIDE DEF x, first
      <3>4. Shape(x, <<first>>) /\ Stage(v, x, <<first>>)
        BY <2>1, <2>3, <3>1, <3>2 DEF Ready, Shape, Stage, GuestFunctions
      <3>5. Restriction(x, <<first>>)
        BY <2>2, <3>1, <3>2 DEF Restriction, Allows, StartFunctions
      <3>6. Origin(v, x, IF v = Base THEN x ELSE b) /\ Starts(v, x, IF v = Base THEN x ELSE b)
        BY <2>1, <2>3, <3>2 DEF Ready, Origin, Starts, Resolved
      <3>7. VmInv(v, x, <<first>>, IF v = Base THEN x ELSE b)
        BY <3>4, <3>5, <3>6 DEF VmInv
      <3> QED BY <1>2, <3>3, <3>7, OneVm
    <2> QED BY <2>4, <2>5
  <1> QED BY <1>7, <1>8

(* A guest call nests in another: it is not a start function, and what it nests in was not   *)
(* restricted.                                                                       *)
LEMMA PushStep ==
  ASSUME Inv, NEW v \in Vms, NEW f \in GuestFunctions \ StartFunctions, NEW w, SameBut(w, wasm[v]),
         wasm[v].at \in {"starting", "ready"}, wasm[v].at = "ready" => v # Base,
         stack[v] = <<>> => wasm[v].at = "ready",
         EnforcesRestriction(engine) =>
             /\ stack[v] # <<>> => Top(v) \notin StartFunctions \cup {"malloc"}
             /\ w.vm.restricted = IF f = "malloc" THEN AllowedInMalloc ELSE AnyFunction,
         Set(v, w), Push(v, f)
  PROVE  Inv'
  <1> DEFINE b == wasm[Base]
             s == stack[v]
             t == Append(s, f)
  <1>1. VmInv(v, wasm[v], s, b)
    BY DEF Inv
  <1>2. /\ s \in Seq(GuestFunctions) /\ (v = Base => b.at # "ready") /\ (v # Base => b.at = "ready")
    BY <1>1 DEF VmInv, Shape, Stage, Origin
  <1>3. /\ t \in Seq(GuestFunctions) /\ Len(s) \in Nat /\ Len(t) = Len(s) + 1 /\ t # <<>>
        /\ \A k \in 1 .. Len(s) : t[k] = s[k]
        /\ t[Len(s) + 1] = f
        /\ s = <<>> <=> Len(s) = 0
    BY <1>2
  <1>4. stack' = [stack EXCEPT ![v] = t]
    BY DEF Push
  <1> HIDE DEF t
  <1>5. Shape(w, t)
    BY <1>1, <1>3 DEF VmInv, Shape, SameBut
  <1>6. t[1] = IF s = <<>> THEN f ELSE s[1]
    BY <1>3
  <1>7. \A k \in 2 .. Len(t) : t[k] \notin StartFunctions
    BY <1>1, <1>3 DEF VmInv, Stage
  <1>8. Stage(v, w, t)
    BY <1>1, <1>3, <1>6, <1>7 DEF VmInv, Stage, SameBut
  <1>9. Restriction(w, t)
    <2> SUFFICES ASSUME EnforcesRestriction(engine)
                 PROVE  /\ w.vm.restricted = Allows(t)
                        /\ \A k \in 1 .. Len(t) - 1 : t[k] \notin StartFunctions \cup {"malloc"}
      BY DEF Restriction
    <2>1. \A k \in 1 .. Len(s) - 1 : s[k] \notin StartFunctions \cup {"malloc"}
      BY <1>1 DEF VmInv, Restriction
    <2>2. s # <<>> => s[Len(s)] \notin StartFunctions \cup {"malloc"}
      BY DEF Top, Last
    <2>3. \A k \in 1 .. Len(s) : s[k] \notin StartFunctions \cup {"malloc"}
      BY <1>3, <2>1, <2>2
    <2> QED BY <1>3, <2>3 DEF Allows
  <1>10. Origin(v, w, IF v = Base THEN w ELSE b) /\ Starts(v, w, IF v = Base THEN w ELSE b)
    BY <1>1, <1>2 DEF VmInv, Origin, Starts, Resolved, SameBut
  <1>11. VmInv(v, w, t, IF v = Base THEN w ELSE b)
    BY <1>5, <1>8, <1>9, <1>10 DEF VmInv
  <1> QED BY <1>2, <1>4, <1>11, OneVm

LEMMA SameAsIs == ASSUME NEW w, IsWasm(w) PROVE SameBut(w, w)
  BY DEF SameBut

LEMMA InVm ==
  ASSUME Inv, NEW v \in Vms
  PROVE  /\ IsWasm(wasm[v])
         /\ stack[v] # <<>> => wasm[v].at \in {"starting", "ready"}
         /\ stack[v] # <<>> /\ wasm[v].at = "ready" => v # Base
         /\ EnforcesRestriction(engine) => wasm[v].vm.restricted = Allows(stack[v])
  <1>1. VmInv(v, wasm[v], stack[v], wasm[Base])
    BY DEF Inv
  <1> QED BY <1>1 DEF VmInv, Shape, Stage, Restriction

LEMMA GuestEndsStep == ASSUME Inv, NEW v \in Vms, GuestEnds(v) PROVE Inv'
  <1>1. PICK state : Ends(v, IF state = "Ok" THEN wasm[v] ELSE VmFails(wasm[v], state))
    BY Zenon DEF GuestEnds
  <1> DEFINE w0 == IF state = "Ok" THEN wasm[v] ELSE VmFails(wasm[v], state)
  <1>2. SameBut(w0, wasm[v]) /\ w0.vm.restricted = wasm[v].vm.restricted
    BY InVm, SameAsIs, FailsKeep DEF SameBut
  <1>3. stack[v] # <<>>
    BY DEF GuestEnds
  <1> QED BY <1>1, <1>2, <1>3, EndsStep

LEMMA CallsHostStep == ASSUME Inv, NEW v \in Vms, NEW f \in CommonFunctions, CallsHost(v, f) PROVE Inv'
  <1>1. stack[v] # <<>>
    BY DEF CallsHost
  <1>2. CASE Ends(v, VmFails(wasm[v], "RuntimeError"))
    <2>1. /\ SameBut(VmFails(wasm[v], "RuntimeError"), wasm[v])
          /\ VmFails(wasm[v], "RuntimeError").vm.restricted = wasm[v].vm.restricted
      BY InVm, FailsKeep DEF SameBut
    <2> QED BY <1>1, <1>2, <2>1, EndsStep
  <1>3. ASSUME HostFunctionRuns(engine, wasm[v].vm, f), f \in {"get_property", "call_foreign_function"},
               EnforcesRestriction(engine)
        PROVE  Top(v) \notin StartFunctions \cup {"malloc"} /\ wasm[v].vm.restricted = AnyFunction
    <2>1. wasm[v].vm.restricted = AnyFunction \/ f \in wasm[v].vm.restricted
      BY <1>3 DEF EnforcesRestriction, HostFunctionRuns, V8HostCall
    <2>2. wasm[v].vm.restricted = Allows(stack[v])
      BY <1>3, InVm
    <2> QED BY <1>1, <1>3, <2>1, <2>2 DEF Allows, Top, Last, AnyFunction, AllowedAtStart, AllowedInMalloc
  <1>4. CASE /\ HostFunctionRuns(engine, wasm[v].vm, f) /\ f \in Allocating
             /\ Set(v, [wasm[v] EXCEPT !.vm.restricted = AllowedInMalloc])
             /\ Push(v, "malloc")
    <2> DEFINE w == [wasm[v] EXCEPT !.vm.restricted = AllowedInMalloc]
    <2>1. SameBut(w, wasm[v]) /\ w.vm.restricted = AllowedInMalloc
      BY InVm, Lifted
    <2>2. EnforcesRestriction(engine) => Top(v) \notin StartFunctions \cup {"malloc"}
      BY <1>3, <1>4 DEF Allocating
    <2>3. "malloc" \in GuestFunctions \ StartFunctions
      BY DEF GuestFunctions, StartFunctions
    <2>4. Set(v, w) /\ Push(v, "malloc")
      BY <1>4
    <2>5. wasm[v].at \in {"starting", "ready"} /\ (wasm[v].at = "ready" => v # Base)
      BY <1>1, InVm
    <2> HIDE DEF w
    <2>6. ASSUME EnforcesRestriction(engine)
          PROVE  /\ stack[v] # <<>> => Top(v) \notin StartFunctions \cup {"malloc"}
                 /\ w.vm.restricted = IF "malloc" = "malloc" THEN AllowedInMalloc ELSE AnyFunction
      BY <2>1, <2>2, <2>6
    <2> QED BY <1>1, <2>1, <2>3, <2>4, <2>5, <2>6, PushStep
  <1>5. CASE /\ HostFunctionRuns(engine, wasm[v].vm, f) /\ f \in Reentrant
             /\ Push(v, "on_foreign_function") /\ UNCHANGED <<engine, config, code, wasm>>
    <2>1. SameBut(wasm[v], wasm[v]) /\ Set(v, wasm[v])
      BY <1>5, InVm, SameAsIs DEF Set, Inv
    <2>2. EnforcesRestriction(engine) =>
              Top(v) \notin StartFunctions \cup {"malloc"} /\ wasm[v].vm.restricted = AnyFunction
      BY <1>3, <1>5 DEF Reentrant
    <2>3. "on_foreign_function" \in GuestFunctions \ StartFunctions
      BY DEF GuestFunctions, StartFunctions
    <2>4. wasm[v].at \in {"starting", "ready"} /\ (wasm[v].at = "ready" => v # Base)
      BY <1>1, InVm
    <2>5. ASSUME EnforcesRestriction(engine)
          PROVE  /\ stack[v] # <<>> => Top(v) \notin StartFunctions \cup {"malloc"}
                 /\ wasm[v].vm.restricted = IF "on_foreign_function" = "malloc" THEN AllowedInMalloc
                                            ELSE AnyFunction
      BY <2>2, <2>5
    <2>6. Push(v, "on_foreign_function")
      BY <1>5
    <2> QED BY <1>1, <2>1, <2>3, <2>4, <2>5, <2>6, PushStep
  <1> QED BY <1>2, <1>4, <1>5 DEF CallsHost

LEMMA HostCallsStep ==
  ASSUME Inv, NEW v \in Vms, NEW f \in {"on_vm_start", "on_request_headers", "on_foreign_function"},
         HostCalls(v, f)
  PROVE  Inv'
  <1>1. /\ wasm[v].at = "ready" /\ v # Base /\ stack[v] = <<>> /\ Push(v, f)
        /\ UNCHANGED <<engine, config, code, wasm>>
    BY DEF HostCalls
  <1>2. SameBut(wasm[v], wasm[v]) /\ Set(v, wasm[v])
    BY <1>1, InVm, SameAsIs DEF Set, Inv
  <1>3. EnforcesRestriction(engine) => wasm[v].vm.restricted = AnyFunction
    BY <1>1, InVm DEF Allows
  <1>4. f \in GuestFunctions \ StartFunctions /\ f # "malloc"
    BY DEF GuestFunctions, StartFunctions
  <1> QED BY <1>1, <1>2, <1>3, <1>4, PushStep

LEMMA NextInv == Inv /\ [Next]_vars => Inv'
  <1> SUFFICES ASSUME Inv, [Next]_vars PROVE Inv'
    OBVIOUS
  <1>1. CASE CreateBase
    BY <1>1, CreateBaseStep
  <1>2. CASE Load
    BY <1>2, LoadStep
  <1>3. ASSUME NEW v \in Clones, CreateClone(v) PROVE Inv'
    BY <1>3, CreateCloneStep
  <1>4. ASSUME NEW v \in Vms, Initialize(v) PROVE Inv'
    BY <1>4, InitializeStep
  <1>5. ASSUME NEW v \in Vms, GuestEnds(v) PROVE Inv'
    BY <1>5, GuestEndsStep
  <1>6. ASSUME NEW v \in Vms, NEW f \in CommonFunctions, CallsHost(v, f) PROVE Inv'
    BY <1>6, CallsHostStep
  <1>7. ASSUME NEW v \in Vms, NEW f \in {"on_vm_start", "on_request_headers", "on_foreign_function"},
               HostCalls(v, f)
        PROVE  Inv'
    BY <1>7, HostCallsStep
  <1>8. CASE UNCHANGED vars
    <2>1. engine' = engine /\ config' = config /\ wasm' = wasm /\ stack' = stack
      BY <1>8 DEF vars
    <2>2. ASSUME NEW u \in Vms PROVE VmInv(u, wasm[u], stack[u], wasm[Base])'
      <3>1. VmInv(u, wasm'[u], stack'[u], wasm'[Base])
        BY <2>1 DEF Inv
      <3> QED BY <2>1, <3>1, Primed
    <2> QED BY <2>1, <2>2 DEF Inv
  <1> QED BY <1>1, <1>2, <1>3, <1>4, <1>5, <1>6, <1>7, <1>8 DEF Next

-----------------------------------------------------------------------------
(* Where the engine enforces it, the restriction of host functions is that of the guest call   *)
(* that runs (setRestrictedCallback in wasm_vm.h, startVm, allocMemory).                   *)
THEOREM RestrictionFollows == Spec => []RestrictionFollowsStack
  <1>1. Inv => RestrictionFollowsStack
    BY DEF Inv, VmInv, Restriction, Allows, RestrictionFollowsStack, Top, Last
  <1> QED BY <1>1, InitInv, NextInv, PTL DEF Spec

(* A clone that came up has the module, the ABI and the functions of the base VM (the ways of   *)
(* cloning in WasmBase's constructor and initialize).                                     *)
THEOREM ClonesMatch == Spec => []CloneMatchesBase
  <1>1. Inv => CloneMatchesBase
    <2> SUFFICES ASSUME Inv, NEW v \in Clones, wasm[v].at = "ready"
                 PROVE  /\ wasm[v].vm.code = wasm[Base].vm.code /\ wasm[v].vm.phase = "linked"
                        /\ wasm[v].abi = wasm[Base].abi /\ wasm[v].fns = wasm[Base].fns
      BY DEF CloneMatchesBase
    <2>1. v \in Vms /\ v # Base /\ Base \in Vms
      BY VmStartAssumption DEF Vms, Base
    <2>2. VmInv(v, wasm[v], stack[v], wasm[Base]) /\ VmInv(Base, wasm[Base], stack[Base], wasm[Base])
      BY <2>1 DEF Inv
    <2>3. Resolved(wasm[v]) /\ Resolved(wasm[Base])
      BY <2>1, <2>2 DEF VmInv, Origin
    <2> QED BY <2>1, <2>2, <2>3 DEF VmInv, Stage, Origin, Resolved
  <1> QED BY <1>1, InitInv, NextInv, PTL DEF Spec

(* The start functions run once on every memory, whichever way the VM was made (startVm, and   *)
(* initialize's test for a clone of an instantiated module).                              *)
THEOREM StartsOnce == Spec => []StartedOnce
  <1>1. Inv => StartedOnce
    BY DEF Inv, VmInv, Starts, StartedOnce
  <1> QED BY <1>1, InitInv, NextInv, PTL DEF Spec

-----------------------------------------------------------------------------
(* The refinement: what wasm_vm.h asks for in the use of the engine's VMs. *)
Phase == [v \in Vms |-> wasm[v].vm.phase]
Inside == {v \in Vms : stack[v] # <<>>}

(* What an action on one VM v does to its phase and to who is in it. *)
LEMMA OneVmUse ==
  ASSUME Inv, NEW v \in Vms, NEW w, NEW s, Set(v, w), stack' = [stack EXCEPT ![v] = s],
         s # <<>> => w.vm.phase = "linked",
         \/ w.vm.phase = wasm[v].vm.phase
         \/ /\ stack[v] = <<>>
            /\ <<wasm[v].vm.phase, w.vm.phase>> \in
                   {<<"new", "loaded">>, <<"new", "linked">>, <<"loaded", "linked">>}
         \/ /\ stack[v] = <<>> /\ s = <<>> /\ wasm[v].vm.phase = "absent"
            /\ \/ w.vm.phase = "new"
               \/ wasm[Base].vm.phase = "linked" /\ w.vm.phase \in {"loaded", "linked"}
  PROVE  [Protocol!Next]_<<Phase, Inside>>
  <1>1. /\ wasm' = [u \in Vms |-> IF u = v THEN w ELSE wasm[u]]
        /\ stack' = [u \in Vms |-> IF u = v THEN s ELSE stack[u]]
    BY DEF Set, Inv
  <1>2. Phase' = [u \in Vms |-> IF u = v THEN w.vm.phase ELSE Phase[u]]
    BY <1>1 DEF Phase
  <1>3. \A u \in Vms : u \in Inside' <=> IF u = v THEN s # <<>> ELSE u \in Inside
    BY <1>1 DEF Inside
  <1>4. Inside' = IF s # <<>> THEN Inside \cup {v} ELSE Inside \ {v}
    <2>1. Inside \subseteq Vms /\ Inside' \subseteq Vms
      BY DEF Inside
    <2> QED BY <1>3, <2>1
  <1>5. /\ Phase = [u \in Vms |-> Phase[u]] /\ Phase[v] = wasm[v].vm.phase
        /\ Base \in Vms /\ Phase[Base] = wasm[Base].vm.phase
        /\ v \in Inside <=> stack[v] # <<>>
    BY DEF Phase, Inside, Vms
  <1>6. CASE w.vm.phase = wasm[v].vm.phase
    <2>1. Phase' = Phase
      BY <1>2, <1>5, <1>6
    <2>2. CASE s # <<>>
      <3>1. Protocol!Enter(v) /\ Phase' = Phase
        BY <1>2, <1>4, <2>1, <2>2 DEF Protocol!Enter, Phase, Inside
      <3> QED BY <3>1 DEF Protocol!Next, Phase, Inside
    <2>3. CASE s = <<>>
      <3>1. Protocol!Leave(v)
        BY <1>4, <2>1, <2>3 DEF Protocol!Leave, Phase, Inside
      <3> QED BY <3>1 DEF Protocol!Next
    <2> QED BY <2>2, <2>3
  <1>7. Phase' = [Phase EXCEPT ![v] = w.vm.phase]
    BY <1>2, <1>5
  <1>8. CASE /\ stack[v] = <<>>
             /\ <<wasm[v].vm.phase, w.vm.phase>> \in
                    {<<"new", "loaded">>, <<"new", "linked">>, <<"loaded", "linked">>}
    <2>1. Protocol!Advance(v, w.vm.phase) /\ w.vm.phase \in Protocol!Phases
      BY <1>5, <1>7, <1>8 DEF Protocol!Advance, Protocol!Phases, Phase, Inside
    <2>2. Inside' = Inside \/ Protocol!Enter(v)
      <3>1. CASE s = <<>>
        BY <1>4, <1>5, <1>8, <3>1
      <3>2. CASE s # <<>>
        BY <1>2, <1>4, <3>2 DEF Protocol!Enter, Phase, Inside
      <3> QED BY <3>1, <3>2
    <2> QED BY <2>1, <2>2 DEF Protocol!Next, Phase, Inside
  <1>9. CASE /\ stack[v] = <<>> /\ s = <<>> /\ wasm[v].vm.phase = "absent"
             /\ \/ w.vm.phase = "new"
                \/ wasm[Base].vm.phase = "linked" /\ w.vm.phase \in {"loaded", "linked"}
    <2>1. Inside' = Inside
      BY <1>4, <1>5, <1>9
    <2>2. \/ w.vm.phase = "new"
          \/ \E b \in Vms : Phase[b] \in {"loaded", "linked"} /\ w.vm.phase \in {"loaded", Phase[b]}
      BY <1>5, <1>9
    <2>3. Protocol!Create(v, w.vm.phase) /\ w.vm.phase \in Protocol!Phases
      BY <1>5, <1>7, <1>9, <2>1, <2>2 DEF Protocol!Create, Protocol!Phases, Phase, Inside
    <2> QED BY <2>3 DEF Protocol!Next
  <1> QED BY <1>6, <1>8, <1>9

LEMMA RejectKeeps == ASSUME NEW w, IsWasm(w) PROVE IsWasm(Reject(w)) /\ Reject(w).vm = w.vm
  <1>1. IsWasm(Fails(w, "UnableToInitializeCode")) /\ Fails(w, "UnableToInitializeCode").vm = w.vm
    BY FailsKeep
  <1> QED BY <1>1 DEF Reject, IsWasm

LEMMA CreateBaseUse == ASSUME Inv, CreateBase PROVE [Protocol!Next]_<<Phase, Inside>>
  <1>1. Base \in Vms /\ wasm[Base].at = "none" /\ stack' = stack
    BY DEF CreateBase, Quiet, Vms
  <1>2. wasm[Base] = NoWasm /\ stack[Base] = <<>>
    BY <1>1 DEF Inv, VmInv, Stage
  <1>3. PICK vm \in {NewVm, NoVm} :
            Set(Base, [NoWasm EXCEPT !.at = "created", !.vm = vm,
                                     !.failed = IF vm = NoVm THEN "UnableToCreateVm" ELSE "Ok"])
    BY DEF CreateBase
  <1> DEFINE w == [NoWasm EXCEPT !.at = "created", !.vm = vm,
                                 !.failed = IF vm = NoVm THEN "UnableToCreateVm" ELSE "Ok"]
  <1>4. w.vm = vm /\ wasm[Base].vm = NoVm
    BY <1>2 DEF NoWasm
  <1>5. Set(Base, w)
    BY <1>3
  <1>6. stack' = [stack EXCEPT ![Base] = <<>>]
    BY <1>1, <1>2 DEF Inv
  <1> HIDE DEF w
  <1>7. \/ w.vm.phase = wasm[Base].vm.phase
        \/ w.vm.phase = "new" /\ wasm[Base].vm.phase = "absent"
    BY <1>3, <1>4, NewVms
  <1> QED BY <1>1, <1>2, <1>5, <1>6, <1>7, OneVmUse

LEMMA LoadUse == ASSUME Inv, Load PROVE [Protocol!Next]_<<Phase, Inside>>
  <1>1. Base \in Vms /\ wasm[Base].at = "created" /\ stack' = stack
    BY DEF Load, Quiet, Vms
  <1>2. stack[Base] = <<>> /\ wasm[Base].vm \in {NewVm, NoVm} /\ IsWasm(wasm[Base])
    BY <1>1 DEF Inv, VmInv, Stage, Shape
  <1>3. stack' = [stack EXCEPT ![Base] = <<>>]
    BY <1>1, <1>2 DEF Inv
  <1>4. PICK w : Set(Base, w) /\
            \/ w = Reject(wasm[Base])
            \/ /\ wasm[Base].vm # NoVm
               /\ \E loaded, abi :
                      w = [wasm[Base] EXCEPT !.at = "loaded", !.vm.phase = "loaded", !.vm.code = loaded,
                               !.abi = abi,
                               !.stored = IF Cloneable(engine) = "NotCloneable" THEN loaded ELSE NoCode]
    BY DEF Load
  <1>5. CASE w = Reject(wasm[Base])
    <2>1. w.vm = wasm[Base].vm
      BY <1>2, <1>5, RejectKeeps
    <2> QED BY <1>1, <1>2, <1>3, <1>4, <2>1, OneVmUse
  <1>6. ASSUME wasm[Base].vm # NoVm, NEW loaded, NEW abi,
               w = [wasm[Base] EXCEPT !.at = "loaded", !.vm.phase = "loaded", !.vm.code = loaded,
                        !.abi = abi,
                        !.stored = IF Cloneable(engine) = "NotCloneable" THEN loaded ELSE NoCode]
        PROVE  [Protocol!Next]_<<Phase, Inside>>
    <2>1. w.vm = [wasm[Base].vm EXCEPT !.phase = "loaded", !.code = loaded]
      BY <1>2, <1>6 DEF IsWasm
    <2>2. IsVm(wasm[Base].vm) /\ wasm[Base].vm.phase = "new"
      BY <1>2, <1>6, NewVms
    <2>3. w.vm.phase = "loaded"
      BY <2>1, <2>2 DEF IsVm
    <2> QED BY <1>1, <1>2, <1>3, <1>4, <2>2, <2>3, OneVmUse
  <1> QED BY <1>4, <1>5, <1>6

LEMMA CreateCloneUse == ASSUME Inv, NEW v \in Clones, CreateClone(v) PROVE [Protocol!Next]_<<Phase, Inside>>
  <1>1. v \in Vms /\ v # Base /\ Base \in Vms /\ wasm[v].at = "none" /\ wasm[Base].at = "ready"
        /\ stack' = stack
    BY VmStartAssumption DEF CreateClone, Quiet, Vms, Base
  <1>2. wasm[v] = NoWasm /\ stack[v] = <<>> /\ wasm[Base].vm.phase = "linked"
    BY <1>1 DEF Inv, VmInv, Stage
  <1>3. PICK vm \in IF Cloneable(engine) = "NotCloneable" THEN {NewVm, NoVm}
                     ELSE EngineClone(engine, wasm[Base].vm) :
            Set(v, [NoWasm EXCEPT !.at = "loaded", !.vm = vm,
                       !.failed = IF vm = NoVm THEN "UnableToCreateVm" ELSE "Ok",
                       !.starts = IF vm.phase = "linked" THEN wasm[Base].starts ELSE 0])
    BY DEF CreateClone
  <1> DEFINE w == [NoWasm EXCEPT !.at = "loaded", !.vm = vm,
                       !.failed = IF vm = NoVm THEN "UnableToCreateVm" ELSE "Ok",
                       !.starts = IF vm.phase = "linked" THEN wasm[Base].starts ELSE 0]
  <1>4. Set(v, w) /\ w.vm = vm /\ wasm[v].vm = NoVm
    BY <1>2, <1>3 DEF NoWasm
  <1>5. vm # NoVm => vm.phase \in {"new", "loaded", "linked"}
    BY <1>2, <1>3, CloneKinds DEF Inv, LoadedPhase
  <1>6. stack' = [stack EXCEPT ![v] = <<>>]
    BY <1>1, <1>2 DEF Inv
  <1> HIDE DEF w
  <1>7. \/ w.vm.phase = wasm[v].vm.phase
        \/ wasm[v].vm.phase = "absent" /\ w.vm.phase \in {"new", "loaded", "linked"}
    BY <1>4, <1>5, NewVms
  <1> QED BY <1>1, <1>2, <1>4, <1>6, <1>7, OneVmUse

(* The steps of initialize load where nothing is loaded, and link what is loaded. *)
LEMMA LoadAdvances ==
  ASSUME Inv, NEW v \in Vms, wasm[v].at = "loaded", wasm[v].vm # NoVm, NEW l \in LoadFromBase(v)
  PROVE  /\ IsWasm(l)
         /\ \/ l.vm.phase = wasm[v].vm.phase
            \/ wasm[v].vm.phase = "new" /\ l.vm.phase = "loaded"
  <1> DEFINE w == wasm[v]
  <1>1. IsWasm(w) /\ IsVm(w.vm) /\ w.vm.phase = LoadedPhase(v)
    BY DEF Inv, VmInv, Shape, Stage, IsWasm
  <1>2. CASE l = w
    <2>1. IsWasm(l)
      BY <1>1, <1>2
    <2> QED BY <1>2, <2>1
  <1>3. CASE l = Reject(w)
    <2>1. IsWasm(l) /\ l.vm = w.vm
      BY <1>1, <1>3, RejectKeeps
    <2> QED BY <2>1
  <1>4. CASE /\ v # Base /\ Cloneable(engine) = "NotCloneable"
             /\ l = [w EXCEPT !.vm.phase = "loaded", !.vm.code = wasm[Base].stored]
    <2>1. l.vm = [w.vm EXCEPT !.phase = "loaded", !.code = wasm[Base].stored]
      BY <1>1, <1>4 DEF IsWasm
    <2>2. IsVm(l.vm) /\ l.vm.phase = "loaded"
      BY <1>1, <2>1 DEF IsVm
    <2>3. IsWasm(l)
      BY <1>1, <1>4, <2>2 DEF IsWasm
    <2>4. w.vm.phase = "new"
      BY <1>1, <1>4 DEF LoadedPhase
    <2> QED BY <2>2, <2>3, <2>4
  <1> QED BY <1>2, <1>3, <1>4 DEF LoadFromBase

LEMMA LinkAdvances ==
  ASSUME NEW v \in Vms, NEW l, IsWasm(l), NEW w \in Link(v, l),
         ~Instantiates(v) \/ l.vm.phase = "loaded"
  PROVE  \/ w.vm.phase = l.vm.phase
         \/ l.vm.phase = "loaded" /\ w.vm.phase = "linked"
  <1>1. CASE ~Instantiates(v)
    <2>1. w = l
      BY <1>1, Zenon DEF Link
    <2> QED BY <2>1
  <1>2. CASE Instantiates(v)
    <2>1. PICK host, x, f :
              /\ w = [l EXCEPT !.host = host, !.vm.phase = "linked"] \/ w = Reject(x)
              /\ x = l \/ x = VmFails(l, f)
      BY <1>2 DEF Link
    <2>2. CASE w = [l EXCEPT !.host = host, !.vm.phase = "linked"]
      <3>1. w.vm = [l.vm EXCEPT !.phase = "linked"]
        BY <2>2 DEF IsWasm
      <3> QED BY <1>2, <3>1 DEF IsWasm, IsVm
    <2>3. CASE w = Reject(x)
      <3>1. IsWasm(x) /\ x.vm.phase = l.vm.phase
        BY <2>1, FailsKeep
      <3>2. w.vm = x.vm
        BY <2>3, <3>1, RejectKeeps
      <3> QED BY <3>1, <3>2
    <2> QED BY <2>1, <2>2, <2>3
  <1> QED BY <1>1, <1>2

(* The end of initialize, and what is left of a guest call, keep the phase. *)
LEMMA EndKeepsPhase ==
  ASSUME NEW w, IsWasm(w)
  PROVE  Finish(w).vm.phase = w.vm.phase /\ Start(w).vm.phase = w.vm.phase
  <1> DEFINE done == [w EXCEPT !.vm.restricted = AnyFunction]
  <1>1. IsWasm(done) /\ done.vm.phase = w.vm.phase
    BY Lifted DEF SameBut
  <1> HIDE DEF done
  <1>2. Finish(w) = [done EXCEPT !.at = "ready"] \/ Finish(w) = Reject(w) \/ Finish(w) = Reject(done)
    BY DEF Finish, done
  <1>3. Finish(w).vm.phase = w.vm.phase
    BY <1>1, <1>2 DEF Reject, Fails, IsWasm
  <1>4. CASE StartPlan(w.fns) = <<>>
    BY <1>3, <1>4 DEF Start
  <1>5. CASE StartPlan(w.fns) # <<>>
    <2> DEFINE x == [w EXCEPT !.at = "starting", !.plan = Tail(StartPlan(w.fns)), !.starts = @ + 1,
                              !.vm.restricted = AllowedAtStart]
    <2>1. Start(w) = x
      BY <1>5 DEF Start
    <2>2. x.vm = [w.vm EXCEPT !.restricted = AllowedAtStart]
      BY DEF IsWasm
    <2>3. x.vm.phase = w.vm.phase
      BY <2>2 DEF IsWasm, IsVm
    <2> QED BY <1>3, <2>1, <2>3
  <1> QED BY <1>3, <1>4, <1>5

LEMMA InitializeUse == ASSUME Inv, NEW v \in Vms, Initialize(v) PROVE [Protocol!Next]_<<Phase, Inside>>
  <1> DEFINE old == wasm[v].vm.phase
  <1>1. /\ wasm[v].at = "loaded" /\ stack[v] = <<>> /\ IsWasm(wasm[v])
        /\ stack = [stack EXCEPT ![v] = <<>>]
    BY DEF Initialize, Inv, VmInv, Shape, Stage
  <1>2. ASSUME NEW w, Set(v, w), Quiet,
               \/ w.vm.phase = old
               \/ <<old, w.vm.phase>> \in {<<"new", "loaded">>, <<"new", "linked">>, <<"loaded", "linked">>}
        PROVE  [Protocol!Next]_<<Phase, Inside>>
    <2>1. stack' = [stack EXCEPT ![v] = <<>>]
      BY <1>1, <1>2 DEF Quiet
    <2> QED BY <1>1, <1>2, <2>1, OneVmUse
  <1>3. CASE wasm[v].vm = NoVm
    <2>1. Set(v, Reject(wasm[v])) /\ Quiet
      BY <1>3 DEF Initialize
    <2>2. Reject(wasm[v]).vm.phase = old
      BY <1>1, RejectKeeps
    <2> QED BY <1>2, <2>1, <2>2
  <1>4. CASE wasm[v].vm # NoVm
    <2>1. PICK l \in LoadFromBase(v) :
              IF l.at = "rejected" THEN Set(v, l) /\ Quiet
              ELSE \E w \in Link(v, [l EXCEPT !.abi = AbiOf(v, l)]) :
                 LET r == Resolve(w)
                     begins == Instantiates(v) /\ StartPlan(r.fns) # <<>>
                 IN IF w.at = "rejected" THEN Set(v, w) /\ Quiet
                    ELSE /\ Set(v, IF begins THEN Start(r) ELSE Finish(r))
                         /\ stack' = IF begins
                                     THEN [stack EXCEPT ![v] = <<Head(StartPlan(r.fns))>>]
                                     ELSE stack
      BY <1>4, Zenon DEF Initialize
    <2>2. /\ IsWasm(l)
          /\ \/ l.vm.phase = old
             \/ old = "new" /\ l.vm.phase = "loaded"
      BY <1>1, <1>4, LoadAdvances
    <2>3. Midway(v, l, IF Instantiates(v) THEN "loaded" ELSE "linked")
      BY <1>1, <1>4, LoadedMidway
    <2>4. CASE l.at = "rejected"
      <3>1. Set(v, l) /\ Quiet
        BY <2>1, <2>4
      <3> QED BY <1>2, <2>2, <3>1
    <2>5. CASE l.at # "rejected"
      <3> DEFINE m == [l EXCEPT !.abi = AbiOf(v, l)]
      <3>1. PICK w \in Link(v, m) :
                 LET r == Resolve(w)
                     begins == Instantiates(v) /\ StartPlan(r.fns) # <<>>
                 IN IF w.at = "rejected" THEN Set(v, w) /\ Quiet
                    ELSE /\ Set(v, IF begins THEN Start(r) ELSE Finish(r))
                         /\ stack' = IF begins
                                     THEN [stack EXCEPT ![v] = <<Head(StartPlan(r.fns))>>]
                                     ELSE stack
        BY <2>1, <2>5
      <3>2. l.at = "loaded" /\ l.vm.phase = IF Instantiates(v) THEN "loaded" ELSE "linked"
        BY <2>3, <2>5 DEF Midway
      <3>3. /\ IsWasm(m) /\ m.at = "loaded" /\ m.abi = AbiOf(v, l) /\ m.vm = l.vm
            /\ m.plan = l.plan /\ m.starts = l.starts /\ m.stored = l.stored
        BY <2>2, <3>2 DEF IsWasm
      <3> HIDE DEF m
      <3>4. \/ w.vm.phase = m.vm.phase
            \/ m.vm.phase = "loaded" /\ w.vm.phase = "linked"
        BY <3>2, <3>3, LinkAdvances
      <3>5. \/ w.vm.phase = old
            \/ <<old, w.vm.phase>> \in {<<"new", "loaded">>, <<"new", "linked">>, <<"loaded", "linked">>}
        BY <2>2, <3>3, <3>4
      <3>6. CASE w.at = "rejected"
        <4>1. Set(v, w) /\ Quiet
          BY <3>1, <3>6
        <4> QED BY <1>2, <3>5, <4>1
      <3>7. CASE w.at # "rejected"
        <4> DEFINE r == Resolve(w)
                   begins == Instantiates(v) /\ StartPlan(r.fns) # <<>>
                   x == IF begins THEN Start(r) ELSE Finish(r)
                   s == IF begins THEN <<Head(StartPlan(r.fns))>> ELSE <<>>
        <4>1. /\ Set(v, x)
              /\ stack' = IF begins THEN [stack EXCEPT ![v] = <<Head(StartPlan(r.fns))>>] ELSE stack
          BY <3>1, <3>7
        <4>2. stack' = [stack EXCEPT ![v] = s]
          BY <1>1, <4>1
        <4>3. Midway(v, m, IF Instantiates(v) THEN "loaded" ELSE "linked") /\ m.abi = AbiOf(v, m)
          BY <2>3, <2>5, <3>3 DEF Midway, Shape, AbiOf
        <4>4. Midway(v, w, "linked") /\ w.abi = m.abi
          BY <3>3, <4>3, LinkedMidway
        <4>5. IsWasm(r) /\ r.vm.phase = w.vm.phase /\ w.vm.phase = "linked"
          <5>1. w.at = "loaded" /\ w.abi = AbiOf(v, w) /\ (v # Base => wasm[Base].at = "ready")
            BY <1>1, <3>7, <4>3, <4>4 DEF Midway, AbiOf, Inv, VmInv, Origin
          <5>2. Ready(v, r, wasm[Base])
            BY <4>4, <5>1, ResolvedReady
          <5> QED BY <3>7, <4>4, <5>2 DEF Ready, Shape, Midway
        <4> HIDE DEF r
        <4>6. x.vm.phase = "linked"
          BY <4>5, EndKeepsPhase
        <4> HIDE DEF x, s
        <4>7. \/ x.vm.phase = old
              \/ <<old, x.vm.phase>> \in {<<"new", "loaded">>, <<"new", "linked">>, <<"loaded", "linked">>}
          BY <3>5, <4>5, <4>6
        <4> QED BY <1>1, <4>1, <4>2, <4>6, <4>7, OneVmUse
      <3> QED BY <3>6, <3>7
    <2> QED BY <2>4, <2>5
  <1> QED BY <1>3, <1>4

LEMMA EndsUse ==
  ASSUME Inv, NEW v \in Vms, stack[v] # <<>>, NEW w0, SameBut(w0, wasm[v]), Ends(v, w0)
  PROVE  [Protocol!Next]_<<Phase, Inside>>
  <1> DEFINE rest == Front(stack[v])
             w == IF Top(v) = "malloc" THEN [w0 EXCEPT !.vm.restricted = AnyFunction] ELSE w0
             next == w.at = "starting" /\ rest = <<>>
             x == IF ~next THEN w ELSE IF w.plan # <<>> THEN [w EXCEPT !.plan = Tail(@)] ELSE Finish(w)
             s == IF next /\ w.plan # <<>> THEN <<Head(w.plan)>> ELSE rest
  <1>1. Set(v, x) /\ stack' = [stack EXCEPT ![v] = s]
    BY DEF Ends
  <1>2. wasm[v].vm.phase = "linked"
    BY DEF Inv, VmInv, Stage
  <1>3. IsWasm(w0) /\ w0.vm.phase = "linked"
    BY <1>2 DEF SameBut
  <1>4. IsWasm(w) /\ w.vm.phase = "linked"
    <2>1. CASE Top(v) = "malloc"
      BY <1>3, <2>1, Lifted DEF SameBut
    <2>2. CASE Top(v) # "malloc"
      BY <1>3, <2>2
    <2> QED BY <2>1, <2>2
  <1> HIDE DEF w
  <1>5. x.vm.phase = "linked"
    <2>1. [w EXCEPT !.plan = Tail(@)].vm = w.vm
      BY <1>4 DEF IsWasm
    <2>2. Finish(w).vm.phase = "linked"
      BY <1>4, EndKeepsPhase
    <2> QED BY <1>4, <2>1, <2>2
  <1> HIDE DEF x, s
  <1> QED BY <1>1, <1>2, <1>5, OneVmUse

LEMMA PushUse ==
  ASSUME Inv, NEW v \in Vms, NEW f, NEW w, SameBut(w, wasm[v]), wasm[v].at \in {"starting", "ready"},
         Set(v, w), Push(v, f)
  PROVE  [Protocol!Next]_<<Phase, Inside>>
  <1>1. wasm[v].vm.phase = "linked" /\ w.vm.phase = "linked"
    BY DEF Inv, VmInv, Stage, SameBut
  <1>2. stack' = [stack EXCEPT ![v] = Append(stack[v], f)]
    BY DEF Push
  <1> QED BY <1>1, <1>2, OneVmUse

LEMMA GuestUse ==
  ASSUME Inv, NEW v \in Vms,
         \/ GuestEnds(v)
         \/ \E f \in CommonFunctions : CallsHost(v, f)
         \/ \E f \in {"on_vm_start", "on_request_headers", "on_foreign_function"} : HostCalls(v, f)
  PROVE  [Protocol!Next]_<<Phase, Inside>>
  <1>1. CASE GuestEnds(v)
    <2>1. PICK state : Ends(v, IF state = "Ok" THEN wasm[v] ELSE VmFails(wasm[v], state))
      BY <1>1, Zenon DEF GuestEnds
    <2> DEFINE w0 == IF state = "Ok" THEN wasm[v] ELSE VmFails(wasm[v], state)
    <2>2. SameBut(w0, wasm[v]) /\ stack[v] # <<>>
      BY <1>1, InVm, SameAsIs, FailsKeep DEF SameBut, GuestEnds
    <2> QED BY <2>1, <2>2, EndsUse
  <1>2. ASSUME NEW f \in CommonFunctions, CallsHost(v, f) PROVE [Protocol!Next]_<<Phase, Inside>>
    <2>1. stack[v] # <<>> /\ wasm[v].at \in {"starting", "ready"}
      BY <1>2, InVm DEF CallsHost
    <2>2. CASE Ends(v, VmFails(wasm[v], "RuntimeError"))
      <3>1. SameBut(VmFails(wasm[v], "RuntimeError"), wasm[v])
        BY InVm, FailsKeep DEF SameBut
      <3> QED BY <2>1, <2>2, <3>1, EndsUse
    <2>3. CASE /\ Set(v, [wasm[v] EXCEPT !.vm.restricted = AllowedInMalloc])
               /\ Push(v, "malloc")
      <3> DEFINE w == [wasm[v] EXCEPT !.vm.restricted = AllowedInMalloc]
      <3>1. SameBut(w, wasm[v])
        BY InVm, Lifted
      <3>2. Set(v, w) /\ Push(v, "malloc")
        BY <2>3
      <3> HIDE DEF w
      <3> QED BY <2>1, <3>1, <3>2, PushUse
    <2>4. CASE Push(v, "on_foreign_function") /\ UNCHANGED <<engine, config, code, wasm>>
      <3>1. SameBut(wasm[v], wasm[v]) /\ Set(v, wasm[v]) /\ Push(v, "on_foreign_function")
        BY <2>4, InVm, SameAsIs DEF Set, Inv
      <3> QED BY <2>1, <3>1, PushUse
    <2> QED BY <1>2, <2>2, <2>3, <2>4 DEF CallsHost
  <1>3. ASSUME NEW f \in {"on_vm_start", "on_request_headers", "on_foreign_function"}, HostCalls(v, f)
        PROVE  [Protocol!Next]_<<Phase, Inside>>
    <2>1. wasm[v].at = "ready" /\ Push(v, f) /\ UNCHANGED <<engine, config, code, wasm>>
      BY <1>3 DEF HostCalls
    <2>2. SameBut(wasm[v], wasm[v]) /\ Set(v, wasm[v])
      BY <2>1, InVm, SameAsIs DEF Set, Inv
    <2> QED BY <2>1, <2>2, PushUse
  <1> QED BY <1>1, <1>2, <1>3

(* Every VM is used as wasm_vm.h asks: code is loaded before it is linked, once each, and a   *)
(* guest runs only in a linked VM (load, link and the calls of wasm.cc over every engine).      *)
THEOREM UsesVmsAsAsked == Spec => ImplementsVmProtocol
  <1>1. Init => Protocol!Init
    <2> SUFFICES ASSUME Init PROVE Protocol!Init
      OBVIOUS
    <2>1. wasm = [v \in Vms |-> NoWasm] /\ stack = [v \in Vms |-> <<>>]
      BY DEF Init
    <2>2. NoWasm.vm.phase = "absent"
      BY NewVms DEF NoWasm
    <2> QED BY <2>1, <2>2 DEF Protocol!Init
  <1>2. Inv /\ [Next]_vars => [Protocol!Next]_<<Phase, Inside>>
    <2> SUFFICES ASSUME Inv, [Next]_vars PROVE [Protocol!Next]_<<Phase, Inside>>
      OBVIOUS
    <2>1. CASE UNCHANGED vars
      <3>1. Phase' = Phase /\ Inside' = Inside
        BY <2>1 DEF vars, Phase, Inside
      <3> QED BY <3>1
    <2> QED BY <2>1, CreateBaseUse, LoadUse, CreateCloneUse, InitializeUse, GuestUse DEF Next
  <1>3. Protocol!Init /\ [][Protocol!Next]_<<Phase, Inside>> => ImplementsVmProtocol
    BY DEF ImplementsVmProtocol, Protocol!Protocol, Phase, Inside
  <1> QED BY <1>1, <1>2, <1>3, InitInv, NextInv, PTL DEF Spec

-----------------------------------------------------------------------------
(* What is read of a file: the first of something in it, and what getStrippedSource leaves. *)
(* A set of naturals has a least element; and counting reaches every natural. *)
LEMMA Least ==
  ASSUME NEW S \in SUBSET Nat, S # {}
  PROVE  \E m \in S : \A k \in S : m <= k
  <1> DEFINE R == {ss \in Nat \X Nat : ss[1] < ss[2]}
  <1>1. R = OpToRel(<, Nat)
    BY DEF OpToRel
  <1>2. IsWellFoundedOn(R, Nat)
    BY <1>1, NatLessThanWellFounded
  <1> HIDE DEF R
  <1>3. \E m \in S : \A k \in S : <<k, m>> \notin R
    BY <1>2, WFMin
  <1>4. PICK m \in S : \A k \in S : <<k, m>> \notin R
    BY <1>3
  <1>5. ASSUME NEW k \in S PROVE m <= k
    <2>1. <<k, m>> \in Nat \X Nat /\ ~(k < m)
      BY <1>4 DEF R
    <2> QED BY <2>1
  <1> QED BY <1>5

LEMMA CountUp ==
  ASSUME NEW G \in SUBSET Nat, 0 \in G, \A n \in G : n + 1 \in G
  PROVE  G = Nat
  <1> DEFINE B == Nat \ G
  <1>1. ASSUME B # {} PROVE FALSE
    <2>1. PICK m \in B : \A k \in B : m <= k
      BY <1>1, Least
    <2>2. m \in Nat /\ m # 0 /\ m - 1 \in Nat /\ m - 1 < m /\ m - 1 + 1 = m
      OBVIOUS
    <2>3. m - 1 \notin B
      BY <2>1, <2>2
    <2> QED BY <2>1, <2>2, <2>3
  <1> QED BY <1>1

(* Where SelectInSeq finds something first, if I is where it is in the sequence; 0 if nowhere. *)
First(I) == IF I # {} THEN CHOOSE x \in I : \A y \in I : x <= y ELSE 0

LEMMA FirstFacts ==
  ASSUME NEW I \in SUBSET (Nat \ {0})
  PROVE  /\ First(I) = 0 <=> I = {}
         /\ I # {} => First(I) \in I /\ \A j \in I : First(I) <= j
         /\ \A j \in I : (\A k \in I : j <= k) => First(I) = j
  <1>1. ASSUME I # {} PROVE First(I) \in I /\ \A j \in I : First(I) <= j
    <2>1. \E m \in I : \A k \in I : m <= k
      BY <1>1, Least
    <2> QED BY <1>1, <2>1, Zenon DEF First
  <1>2. I = {} => First(I) = 0
    BY DEF First
  <1>3. 0 \notin I
    OBVIOUS
  <1>4. ASSUME NEW j \in I, \A k \in I : j <= k PROVE First(I) = j
    <2>1. First(I) \in Nat /\ First(I) <= j /\ j <= First(I) /\ j \in Nat
      BY <1>1, <1>4
    <2> QED BY <2>1
  <1> QED BY <1>1, <1>2, <1>3, <1>4

(* The three searches through the sections of a file. *)
Compiled(s) == {i \in 1 .. Len(s) : Precompiled(s[i])}
Stops(s) == {i \in 1 .. Len(s) : ~Fits(s[i]) \/ s[i].type = "export"}
Marks(e) == {i \in 1 .. Len(e) :
                 ~e[i].sound \/ (e[i].kind = "func" /\ e[i].name \in DOMAIN AbiMarkers)}

LEMMA Searches ==
  /\ \A s : Stripped(s) =
         IF First(Compiled(s)) = 0 THEN s
         ELSE SubSeq(s, 1, First(Compiled(s)) - 1)
                \o NotCustom(SubSeq(s, First(Compiled(s)) + 1, Len(s)))
  /\ \A m : GetAbiVersion(m) =
         IF ~CheckWasmHeader(m) THEN [ok |-> FALSE, abi |-> "Unknown"]
         ELSE IF First(Stops(SectionsOf(m))) = 0 THEN [ok |-> TRUE, abi |-> "Unknown"]
         ELSE IF ~Fits(m.sections[First(Stops(SectionsOf(m)))]) THEN [ok |-> FALSE, abi |-> "Unknown"]
         ELSE AbiOfExports(m.sections[First(Stops(SectionsOf(m)))].exports)
  /\ \A e : AbiOfExports(e) =
         IF First(Marks(e)) = 0 THEN [ok |-> TRUE, abi |-> "Unknown"]
         ELSE IF ~e[First(Marks(e))].sound THEN [ok |-> FALSE, abi |-> "Unknown"]
         ELSE [ok |-> TRUE, abi |-> AbiMarkers[e[First(Marks(e))].name]]
  <1>2. ASSUME NEW s PROVE Stripped(s) =
         IF First(Compiled(s)) = 0 THEN s
         ELSE SubSeq(s, 1, First(Compiled(s)) - 1)
                \o NotCustom(SubSeq(s, First(Compiled(s)) + 1, Len(s)))
    BY Zenon DEF Stripped, SelectInSeq, Min, First, Compiled
  <1>3. ASSUME NEW m PROVE GetAbiVersion(m) =
         IF ~CheckWasmHeader(m) THEN [ok |-> FALSE, abi |-> "Unknown"]
         ELSE IF First(Stops(SectionsOf(m))) = 0 THEN [ok |-> TRUE, abi |-> "Unknown"]
         ELSE IF ~Fits(m.sections[First(Stops(SectionsOf(m)))]) THEN [ok |-> FALSE, abi |-> "Unknown"]
         ELSE AbiOfExports(m.sections[First(Stops(SectionsOf(m)))].exports)
    BY Zenon DEF GetAbiVersion, SelectInSeq, Min, First, Stops
  <1>4. ASSUME NEW e PROVE AbiOfExports(e) =
         IF First(Marks(e)) = 0 THEN [ok |-> TRUE, abi |-> "Unknown"]
         ELSE IF ~e[First(Marks(e))].sound THEN [ok |-> FALSE, abi |-> "Unknown"]
         ELSE [ok |-> TRUE, abi |-> AbiMarkers[e[First(Marks(e))].name]]
    BY Zenon DEF AbiOfExports, SelectInSeq, Min, First, Marks
  <1> QED BY <1>2, <1>3, <1>4

(* The loop of getStrippedSource that copies what is not custom: f[i] is what is copied after  *)
(* i sections, each turn adds one or none.                                           *)
IsCopied(s, last, f) ==
    f = [i \in 0 .. last |->
            IF i = 0 THEN <<>>
            ELSE IF s[i].type = "custom" THEN f[i - 1]
            ELSE Append(f[i - 1], s[i])]
Copied(s) == CHOOSE f : IsCopied(s, Len(s), f)

LEMMA CopiedExists ==
  ASSUME NEW s, NEW last \in Nat
  PROVE  \E f : IsCopied(s, last, f)
  <1> DEFINE G == {m \in Nat : \E f : IsCopied(s, m, f)}
  <1>1. 0 \in G
    <2> DEFINE f == [n \in 0 .. 0 |-> <<>>]
    <2>1. IsCopied(s, 0, f)
      BY DEF IsCopied
    <2> QED BY <2>1
  <1>2. ASSUME NEW m \in G PROVE m + 1 \in G
    <2>1. PICK f : IsCopied(s, m, f)
      OBVIOUS
    <2>2. /\ f[0] = <<>>
          /\ \A n \in 1 .. m : f[n] = IF s[n].type = "custom" THEN f[n - 1] ELSE Append(f[n - 1], s[n])
      <3>1. \A n \in 0 .. m : f[n] = IF n = 0 THEN <<>>
                            ELSE IF s[n].type = "custom" THEN f[n - 1] ELSE Append(f[n - 1], s[n])
        BY <2>1 DEF IsCopied
      <3> QED BY <3>1
    <2> DEFINE new == IF s[m + 1].type = "custom" THEN f[m] ELSE Append(f[m], s[m + 1])
               g == [n \in 0 .. m + 1 |-> IF n = m + 1 THEN new ELSE f[n]]
    <2>3. IsCopied(s, m + 1, g)
      <3> SUFFICES ASSUME NEW n \in 0 .. m + 1
                   PROVE  g[n] = IF n = 0 THEN <<>>
                                 ELSE IF s[n].type = "custom" THEN g[n - 1]
                                 ELSE Append(g[n - 1], s[n])
        BY DEF IsCopied
      <3>1. CASE n = 0
        BY <2>2, <3>1
      <3>2. CASE n = m + 1
        <4>1. g[n] = new /\ n - 1 = m /\ n # 0 /\ m \in 0 .. m + 1 /\ m # m + 1
          BY <3>2
        <4>2. g[n - 1] = f[m]
          BY <4>1
        <4> HIDE DEF g
        <4> QED BY <3>2, <4>1, <4>2
      <3>3. CASE n \in 1 .. m
        <4>1. g[n] = f[n] /\ g[n - 1] = f[n - 1] /\ n # 0
          BY <3>3
        <4> HIDE DEF g
        <4> QED BY <2>2, <3>3, <4>1
      <3> QED BY <3>1, <3>2, <3>3
    <2> HIDE DEF g
    <2> QED BY <2>3
  <1>3. G = Nat
    <2>1. G \in SUBSET Nat
      OBVIOUS
    <2> HIDE DEF G
    <2> QED BY <1>1, <1>2, <2>1, CountUp
  <1> QED BY <1>3

LEMMA CopiedTurns ==
  ASSUME NEW S, NEW s \in Seq(S)
  PROVE  /\ NotCustom(s) = Copied(s)[Len(s)] /\ Copied(s)[0] = <<>>
         /\ \A i \in 1 .. Len(s) :
               /\ s[i].type = "custom" => Copied(s)[i] = Copied(s)[i - 1]
               /\ s[i].type # "custom" => Copied(s)[i] = Append(Copied(s)[i - 1], s[i])
         /\ \A i \in 0 .. Len(s) : Copied(s)[i] \in Seq(S)
  <1> DEFINE f == Copied(s)
             G == {n \in Nat : n <= Len(s) => f[n] \in Seq(S)}
  <1>1. Len(s) \in Nat /\ \A i \in 1 .. Len(s) : s[i] \in S
    OBVIOUS
  <1>2. NotCustom(s) = f[Len(s)]
    BY Zenon DEF NotCustom, Copied, IsCopied
  <1>3. IsCopied(s, Len(s), f)
    <2>1. \E g : IsCopied(s, Len(s), g)
      BY <1>1, CopiedExists
    <2> QED BY <2>1 DEF Copied
  <1> HIDE DEF f
  <1>4. \A i \in 0 .. Len(s) : f[i] = IF i = 0 THEN <<>>
                            ELSE IF s[i].type = "custom" THEN f[i - 1] ELSE Append(f[i - 1], s[i])
    BY <1>3 DEF IsCopied
  <1>5. f[0] = <<>>
    <2>1. 0 \in 0 .. Len(s)
      BY <1>1
    <2> QED BY <1>4, <2>1
  <1>50. ASSUME NEW i \in 1 .. Len(s)
         PROVE  /\ s[i].type = "custom" => f[i] = f[i - 1]
                /\ s[i].type # "custom" => f[i] = Append(f[i - 1], s[i])
    <2>1. i \in 0 .. Len(s) /\ i # 0
      BY <1>1
    <2> QED BY <1>4, <2>1
  <1>6. 0 \in G
    <2>1. <<>> \in Seq(S) /\ 0 \in Nat
      OBVIOUS
    <2> QED BY <1>5, <2>1
  <1>7. ASSUME NEW n \in G PROVE n + 1 \in G
    <2>0. n \in Nat /\ n + 1 \in Nat
      OBVIOUS
    <2> SUFFICES ASSUME n + 1 <= Len(s) PROVE f[n + 1] \in Seq(S)
      BY <2>0
    <2>1. n <= Len(s) /\ n + 1 \in 1 .. Len(s) /\ (n + 1) - 1 = n
      BY <1>1, <2>0
    <2>3. f[n] \in Seq(S) /\ s[n + 1] \in S
      BY <1>1, <2>1
    <2>2. f[n + 1] = f[n] \/ f[n + 1] = Append(f[n], s[n + 1])
      BY <1>50, <2>1
    <2>4. Append(f[n], s[n + 1]) \in Seq(S)
      BY <2>3
    <2> QED BY <2>2, <2>3, <2>4
  <1>8. G = Nat
    <2>1. G \in SUBSET Nat
      OBVIOUS
    <2> HIDE DEF G
    <2> QED BY <1>6, <1>7, <2>1, CountUp
  <1>9. \A i \in 0 .. Len(s) : f[i] \in Seq(S)
    <2> SUFFICES ASSUME NEW i \in 0 .. Len(s) PROVE f[i] \in Seq(S)
      OBVIOUS
    <2>1. i \in G /\ i <= Len(s)
      BY <1>1, <1>8
    <2> QED BY <2>1
  <1> QED BY <1>2, <1>5, <1>50, <1>9 DEF f

(* Two sequences joined. *)
LEMMA Joins ==
  ASSUME NEW S, NEW s \in Seq(S), NEW t \in Seq(S)
  PROVE  /\ s \o t \in Seq(S) /\ Len(s \o t) = Len(s) + Len(t)
         /\ \A j \in 1 .. Len(s) : (s \o t)[j] = s[j]
         /\ \A j \in 1 .. Len(t) : (s \o t)[Len(s) + j] = t[j]
         /\ s \o <<>> = s
         /\ \A x \in S : s \o Append(t, x) = Append(s \o t, x)
  <1>1. \A x \in S : s \o Append(t, x) = Append(s \o t, x)
    <2> SUFFICES ASSUME NEW x \in S PROVE s \o Append(t, x) = Append(s \o t, x)
      OBVIOUS
    <2> DEFINE a == s \o Append(t, x)
               b == Append(s \o t, x)
    <2>1. /\ a \in Seq(S) /\ b \in Seq(S) /\ Len(a) = Len(s) + Len(t) + 1 /\ Len(b) = Len(a)
          /\ Len(s) \in Nat /\ Len(t) \in Nat
      OBVIOUS
    <2>2. \A i \in 1 .. Len(a) : a[i] = b[i]
      OBVIOUS
    <2> HIDE DEF a, b
    <2>3. a = b
      BY <2>1, <2>2, SeqEqual
    <2> QED BY <2>3 DEF a, b
  <1> QED BY <1>1

(* What is copied of two parts is what is copied of the one and then of the other. *)
LEMMA CopiedJoin ==
  ASSUME NEW S, NEW s \in Seq(S), NEW t \in Seq(S)
  PROVE  NotCustom(s \o t) = NotCustom(s) \o NotCustom(t)
  <1> DEFINE u == s \o t
             f == Copied(s)
             g == Copied(t)
             h == Copied(u)
             G == {n \in Nat : n <= Len(s) => h[n] = f[n]}
             H == {n \in Nat : n <= Len(t) => h[Len(s) + n] = f[Len(s)] \o g[n]}
  <1>1. /\ u \in Seq(S) /\ Len(u) = Len(s) + Len(t) /\ Len(s) \in Nat /\ Len(t) \in Nat
        /\ \A j \in 1 .. Len(s) : u[j] = s[j]
        /\ \A j \in 1 .. Len(t) : u[Len(s) + j] = t[j]
    BY Joins
  <1> HIDE DEF u
  <1>2. /\ NotCustom(s) = f[Len(s)] /\ f[0] = <<>>
        /\ \A i \in 1 .. Len(s) :
               /\ s[i].type = "custom" => f[i] = f[i - 1]
               /\ s[i].type # "custom" => f[i] = Append(f[i - 1], s[i])
        /\ \A i \in 0 .. Len(s) : f[i] \in Seq(S)
    BY CopiedTurns
  <1>3. /\ NotCustom(t) = g[Len(t)] /\ g[0] = <<>>
        /\ \A i \in 1 .. Len(t) :
               /\ t[i].type = "custom" => g[i] = g[i - 1]
               /\ t[i].type # "custom" => g[i] = Append(g[i - 1], t[i])
        /\ \A i \in 0 .. Len(t) : g[i] \in Seq(S)
    BY CopiedTurns
  <1>4. /\ NotCustom(u) = h[Len(u)] /\ h[0] = <<>>
        /\ \A i \in 1 .. Len(u) :
               /\ u[i].type = "custom" => h[i] = h[i - 1]
               /\ u[i].type # "custom" => h[i] = Append(h[i - 1], u[i])
    BY <1>1, CopiedTurns
  <1> HIDE DEF f, g, h
  <1>5. G = Nat
    <2>1. 0 \in G
      BY <1>2, <1>4
    <2>2. ASSUME NEW n \in G PROVE n + 1 \in G
      <3>0. n \in Nat /\ n + 1 \in Nat
        OBVIOUS
      <3> SUFFICES ASSUME n + 1 <= Len(s) PROVE h[n + 1] = f[n + 1]
        BY <3>0
      <3>3. n <= Len(s) /\ n + 1 \in 1 .. Len(s) /\ n + 1 \in 1 .. Len(u) /\ (n + 1) - 1 = n
        BY <1>1, <3>0
      <3>1. h[n] = f[n] /\ n + 1 \in 1 .. Len(s) /\ n + 1 \in 1 .. Len(u) /\ (n + 1) - 1 = n
        BY <3>3
      <3>2. u[n + 1] = s[n + 1]
        BY <1>1, <3>1
      <3> HIDE DEF G
      <3> QED BY <1>2, <1>4, <3>1, <3>2
    <2>3. G \in SUBSET Nat
      OBVIOUS
    <2> HIDE DEF G
    <2> QED BY <2>1, <2>2, <2>3, CountUp
  <1>6. h[Len(s)] = f[Len(s)] /\ f[Len(s)] \in Seq(S)
    <2>1. Len(s) \in G /\ Len(s) <= Len(s) /\ Len(s) \in 0 .. Len(s)
      BY <1>1, <1>5
    <2> QED BY <1>2, <2>1
  <1>7. H = Nat
    <2>1. 0 \in H
      <3>1. f[Len(s)] \o <<>> = f[Len(s)]
        BY <1>6
      <3>2. Len(s) + 0 = Len(s) /\ 0 \in Nat
        BY <1>1
      <3> QED BY <1>3, <1>6, <3>1, <3>2
    <2>2. ASSUME NEW n \in H PROVE n + 1 \in H
      <3>0. n \in Nat /\ n + 1 \in Nat
        OBVIOUS
      <3> DEFINE k == Len(s) + (n + 1)
      <3> SUFFICES ASSUME n + 1 <= Len(t) PROVE h[k] = f[Len(s)] \o g[n + 1]
        BY <3>0
      <3>1. /\ n <= Len(t) /\ n + 1 \in 1 .. Len(t) /\ (n + 1) - 1 = n
            /\ k \in 1 .. Len(u) /\ k - 1 = Len(s) + n /\ n \in 0 .. Len(t)
        BY <1>1, <3>0
      <3>5. h[Len(s) + n] = f[Len(s)] \o g[n]
        BY <3>1
      <3>2. u[k] = t[n + 1] /\ t[n + 1] \in S /\ g[n] \in Seq(S)
        BY <1>1, <1>3, <3>1
      <3> HIDE DEF k, H, G
      <3>3. CASE t[n + 1].type = "custom"
        <4>1. h[k] = h[k - 1] /\ g[n + 1] = g[n]
          BY <1>3, <1>4, <3>1, <3>2, <3>3
        <4> QED BY <3>1, <3>5, <4>1
      <3>4. CASE t[n + 1].type # "custom"
        <4>1. h[k] = Append(h[k - 1], t[n + 1]) /\ g[n + 1] = Append(g[n], t[n + 1])
          BY <1>3, <1>4, <3>1, <3>2, <3>4
        <4>2. f[Len(s)] \o Append(g[n], t[n + 1]) = Append(f[Len(s)] \o g[n], t[n + 1])
          <5>1. \A x \in S : \A a \in Seq(S), b \in Seq(S) : a \o Append(b, x) = Append(a \o b, x)
            BY Joins
          <5> QED BY <1>6, <3>2, <5>1
        <4> QED BY <3>1, <3>5, <4>1, <4>2
      <3> QED BY <3>3, <3>4
    <2>3. H \in SUBSET Nat
      OBVIOUS
    <2> HIDE DEF H
    <2> QED BY <2>1, <2>2, <2>3, CountUp
  <1>8. h[Len(s) + Len(t)] = f[Len(s)] \o g[Len(t)]
    <2>1. Len(t) <= Len(t)
      BY <1>1
    <2>2. Len(t) \in H
      <3> HIDE DEF H
      <3> QED BY <1>1, <1>7
    <2> QED BY <2>1, <2>2
  <1> HIDE DEF H, G
  <1>9. NotCustom(u) = NotCustom(s) \o NotCustom(t)
    BY <1>1, <1>2, <1>3, <1>4, <1>8
  <1> QED BY <1>9 DEF u

(* The sections that are not custom, those of them up to a place, and how many these are. *)
Core(s) == {i \in DOMAIN s : s[i].type # "custom"}
Upto(s, n) == {j \in Core(s) : j <= n}
Rank(s, n) == Cardinality(Upto(s, n))

LEMMA Ranks ==
  ASSUME NEW S, NEW s \in Seq(S), NEW n \in 0 .. Len(s)
  PROVE  /\ Rank(s, n) \in Nat /\ Rank(s, 0) = 0
         /\ n < Len(s) =>
              IF s[n + 1].type = "custom" THEN Upto(s, n + 1) = Upto(s, n) /\ Rank(s, n + 1) = Rank(s, n)
              ELSE Upto(s, n + 1) = Upto(s, n) \cup {n + 1} /\ Rank(s, n + 1) = Rank(s, n) + 1
  <1>1. DOMAIN s = 1 .. Len(s) /\ Len(s) \in Nat /\ n \in Nat
    OBVIOUS
  <1>2. IsFiniteSet(Upto(s, n)) /\ n + 1 \notin Upto(s, n)
    <2>1. IsFiniteSet(1 .. Len(s))
      BY <1>1, FS_Interval
    <2>2. Upto(s, n) \subseteq 1 .. Len(s)
      BY <1>1 DEF Upto, Core
    <2>3. n + 1 \notin Upto(s, n)
      BY <1>1 DEF Upto
    <2> QED BY <2>1, <2>2, <2>3, FS_Subset
  <1>3. Rank(s, n) \in Nat
    BY <1>2, FS_CardinalityType DEF Rank
  <1>4. Rank(s, 0) = 0
    <2>1. Upto(s, 0) = {}
      BY <1>1 DEF Upto, Core
    <2> QED BY <2>1, FS_EmptySet DEF Rank
  <1>5. ASSUME n < Len(s), s[n + 1].type = "custom"
        PROVE  Upto(s, n + 1) = Upto(s, n) /\ Rank(s, n + 1) = Rank(s, n)
    <2>1. Upto(s, n + 1) = Upto(s, n)
      BY <1>1, <1>5 DEF Upto, Core
    <2> QED BY <2>1 DEF Rank
  <1>6. ASSUME n < Len(s), s[n + 1].type # "custom"
        PROVE  Upto(s, n + 1) = Upto(s, n) \cup {n + 1} /\ Rank(s, n + 1) = Rank(s, n) + 1
    <2>1. Upto(s, n + 1) = Upto(s, n) \cup {n + 1}
      BY <1>1, <1>6 DEF Upto, Core
    <2> QED BY <1>2, <2>1, FS_AddElement DEF Rank
  <1> QED BY <1>3, <1>4, <1>5, <1>6

(* Where the sections that are copied stand, and that nothing else is copied. *)
Placed(s, n, c) ==
    /\ Len(c) = Rank(s, n)
    /\ \A i \in Upto(s, n) : Rank(s, i) \in 1 .. Len(c) /\ c[Rank(s, i)] = s[i]
    /\ \A k \in 1 .. Len(c) : \E i \in Upto(s, n) : Rank(s, i) = k

LEMMA CopiedPlaced ==
  ASSUME NEW S, NEW s \in Seq(S)
  PROVE  NotCustom(s) \in Seq(S) /\ Placed(s, Len(s), NotCustom(s))
  <1> DEFINE f == Copied(s)
             G == {n \in Nat : n <= Len(s) => Placed(s, n, f[n])}
  <1>1. /\ NotCustom(s) = f[Len(s)] /\ f[0] = <<>>
        /\ \A i \in 1 .. Len(s) :
               /\ s[i].type = "custom" => f[i] = f[i - 1]
               /\ s[i].type # "custom" => f[i] = Append(f[i - 1], s[i])
        /\ \A i \in 0 .. Len(s) : f[i] \in Seq(S)
    BY CopiedTurns
  <1> HIDE DEF f
  <1>2. Len(s) \in Nat /\ DOMAIN s = 1 .. Len(s) /\ \A i \in 1 .. Len(s) : s[i] \in S
    OBVIOUS
  <1>3. 0 \in G
    <2>1. Rank(s, 0) = 0 /\ Upto(s, 0) = {}
      <3>1. 0 \in 0 .. Len(s)
        BY <1>2
      <3> QED BY <1>2, <3>1, Ranks DEF Upto, Core
    <2> QED BY <1>1, <2>1 DEF Placed
  <1>4. ASSUME NEW n \in G PROVE n + 1 \in G
    <2>0. n \in Nat /\ n + 1 \in Nat
      OBVIOUS
    <2> SUFFICES ASSUME n + 1 <= Len(s) PROVE Placed(s, n + 1, f[n + 1])
      BY <2>0
    <2>1. n <= Len(s) /\ n \in 0 .. Len(s) /\ n < Len(s) /\ n + 1 \in 1 .. Len(s) /\ (n + 1) - 1 = n
      BY <1>2, <2>0
    <2>2. Placed(s, n, f[n])
      BY <2>1
    <2> HIDE DEF G
    <2>3. f[n] \in Seq(S) /\ s[n + 1] \in S
      BY <1>1, <1>2, <2>1
    <2>4. /\ Rank(s, n) \in Nat
          /\ IF s[n + 1].type = "custom" THEN Upto(s, n + 1) = Upto(s, n) /\ Rank(s, n + 1) = Rank(s, n)
             ELSE Upto(s, n + 1) = Upto(s, n) \cup {n + 1} /\ Rank(s, n + 1) = Rank(s, n) + 1
      BY <2>1, Ranks
    <2>5. CASE s[n + 1].type = "custom"
      <3>1. f[n + 1] = f[n]
        BY <1>1, <2>1, <2>5
      <3> QED BY <2>2, <2>4, <2>5, <3>1 DEF Placed
    <2>6. CASE s[n + 1].type # "custom"
      <3> DEFINE c == f[n]
                 d == f[n + 1]
      <3>1. d = Append(c, s[n + 1])
        BY <1>1, <2>1, <2>6
      <3>2. /\ Len(d) = Len(c) + 1 /\ d[Len(c) + 1] = s[n + 1] /\ Len(c) \in Nat
            /\ \A k \in 1 .. Len(c) : d[k] = c[k]
        BY <2>3, <3>1
      <3>3. /\ Upto(s, n + 1) = Upto(s, n) \cup {n + 1} /\ Rank(s, n + 1) = Rank(s, n) + 1
        BY <2>4, <2>6
      <3>4. /\ Len(c) = Rank(s, n)
            /\ \A i \in Upto(s, n) : Rank(s, i) \in 1 .. Len(c) /\ c[Rank(s, i)] = s[i]
            /\ \A k \in 1 .. Len(c) : \E i \in Upto(s, n) : Rank(s, i) = k
        BY <2>2 DEF Placed
      <3> HIDE DEF c, d
      <3>5. ASSUME NEW i \in Upto(s, n + 1) PROVE Rank(s, i) \in 1 .. Len(d) /\ d[Rank(s, i)] = s[i]
        <4>1. CASE i \in Upto(s, n)
          <5>1. Rank(s, i) \in 1 .. Len(c) /\ c[Rank(s, i)] = s[i]
            BY <3>4, <4>1
          <5> QED BY <3>2, <5>1
        <4>2. CASE i = n + 1
          <5>1. Rank(s, i) = Len(c) + 1
            BY <3>3, <3>4, <4>2
          <5> QED BY <3>2, <4>2, <5>1
        <4> QED BY <3>3, <4>1, <4>2
      <3>6. ASSUME NEW k \in 1 .. Len(d) PROVE \E i \in Upto(s, n + 1) : Rank(s, i) = k
        <4>1. CASE k \in 1 .. Len(c)
          BY <3>3, <3>4, <4>1
        <4>2. CASE k = Len(c) + 1
          <5>1. n + 1 \in Upto(s, n + 1) /\ Rank(s, n + 1) = k
            BY <3>3, <3>4, <4>2
          <5> QED BY <5>1
        <4> QED BY <3>2, <4>1, <4>2
      <3>7. Len(d) = Rank(s, n + 1)
        BY <3>2, <3>3, <3>4
      <3>8. Placed(s, n + 1, d)
        BY <3>5, <3>6, <3>7 DEF Placed
      <3> QED BY <3>8 DEF d
    <2> QED BY <2>5, <2>6
  <1>5. G = Nat
    <2>1. G \in SUBSET Nat
      OBVIOUS
    <2> HIDE DEF G
    <2> QED BY <1>3, <1>4, <2>1, CountUp
  <1>6. Len(s) \in G
    <2> HIDE DEF G
    <2> QED BY <1>2, <1>5
  <1>7. Len(s) <= Len(s) /\ Len(s) \in 0 .. Len(s)
    BY <1>2
  <1> QED BY <1>1, <1>6, <1>7

(* Files of the same copy have the same sections but for custom ones. *)
LEMMA CopyIsCore ==
  ASSUME NEW S, NEW s \in Seq(S), NEW t \in Seq(S), NotCustom(s) = NotCustom(t)
  PROVE  SameCore(s, t)
  <1> DEFINE c == NotCustom(s)
  <1>1. Placed(s, Len(s), c) /\ Placed(t, Len(t), c)
    BY CopiedPlaced
  <1>2. Upto(s, Len(s)) = Core(s) /\ Upto(t, Len(t)) = Core(t)
    <2>1. Core(s) \subseteq 1 .. Len(s) /\ Core(t) \subseteq 1 .. Len(t) /\ Len(s) \in Nat /\ Len(t) \in Nat
      BY DEF Core
    <2> QED BY <2>1 DEF Upto
  <1> HIDE DEF c
  <1>3. Cardinality(Core(s)) = Cardinality(Core(t))
    BY <1>1, <1>2 DEF Placed, Rank
  <1>4. ASSUME NEW i \in Core(s), NEW j \in Core(t), Rank(s, i) = Rank(t, j) PROVE s[i] = t[j]
    <2>1. c[Rank(s, i)] = s[i] /\ c[Rank(t, j)] = t[j]
      BY <1>1, <1>2 DEF Placed
    <2> QED BY <1>4, <2>1
  <1>5. /\ Cardinality({i \in DOMAIN s : s[i].type # "custom"}) = Cardinality({i \in DOMAIN t : t[i].type # "custom"})
        /\ \A i \in {i \in DOMAIN s : s[i].type # "custom"}, j \in {i \in DOMAIN t : t[i].type # "custom"} :
              Cardinality({k \in {x \in DOMAIN s : s[x].type # "custom"} : k <= i})
                = Cardinality({k \in {x \in DOMAIN t : t[x].type # "custom"} : k <= j}) => s[i] = t[j]
    BY <1>3, <1>4 DEF Core, Rank, Upto
  <1> QED BY <1>5 DEF SameCore

(* What is copied: no custom section; and the file itself if it has none. *)
LEMMA CopyFacts ==
  ASSUME NEW S, NEW s \in Seq(S)
  PROVE  /\ NotCustom(s) \in Seq(S)
         /\ \A k \in 1 .. Len(NotCustom(s)) :
               /\ \E i \in 1 .. Len(s) : NotCustom(s)[k] = s[i]
               /\ NotCustom(s)[k].type # "custom"
         /\ (\A i \in 1 .. Len(s) : s[i].type # "custom") => NotCustom(s) = s
  <1> DEFINE c == NotCustom(s)
  <1>1. c \in Seq(S) /\ Placed(s, Len(s), c)
    BY CopiedPlaced
  <1>2. Len(s) \in Nat /\ DOMAIN s = 1 .. Len(s) /\ Upto(s, Len(s)) = Core(s)
    <2>1. Core(s) \subseteq 1 .. Len(s) /\ Len(s) \in Nat
      BY DEF Core
    <2> QED BY <2>1 DEF Upto
  <1> HIDE DEF c
  <1>3. ASSUME NEW k \in 1 .. Len(c)
        PROVE  (\E i \in 1 .. Len(s) : c[k] = s[i]) /\ c[k].type # "custom"
    <2>1. PICK i \in Core(s) : Rank(s, i) = k
      BY <1>1, <1>2 DEF Placed
    <2>2. c[k] = s[i]
      BY <1>1, <1>2, <2>1 DEF Placed
    <2> QED BY <1>2, <2>2 DEF Core
  <1>4. ASSUME \A i \in 1 .. Len(s) : s[i].type # "custom" PROVE c = s
    <2>1. Core(s) = 1 .. Len(s)
      BY <1>2, <1>4 DEF Core
    <2>2. ASSUME NEW i \in 0 .. Len(s) PROVE Rank(s, i) = i
      <3>1. Upto(s, i) = 1 .. i
        BY <1>2, <2>1 DEF Upto
      <3>2. i \in Nat /\ Cardinality(1 .. i) = i
        <4>1. 1 \in Int /\ i \in Int /\ i \in Nat
          BY <1>2
        <4>2. Cardinality(1 .. i) = IF 1 > i THEN 0 ELSE i - 1 + 1
          BY <4>1, FS_Interval
        <4> QED BY <4>1, <4>2
      <3> QED BY <3>1, <3>2 DEF Rank
    <2>3. Len(c) = Len(s)
      <3>1. Len(s) \in 0 .. Len(s)
        BY <1>2
      <3> QED BY <1>1, <2>2, <3>1 DEF Placed
    <2>4. ASSUME NEW i \in 1 .. Len(s) PROVE c[i] = s[i]
      <3>1. i \in 0 .. Len(s)
        BY <1>2
      <3> QED BY <1>1, <1>2, <2>1, <2>2, <3>1 DEF Placed
    <2> QED BY <1>1, <2>3, <2>4, SeqEqual
  <1> QED BY <1>1, <1>3, <1>4 DEF c

(* To copy once more changes nothing. *)
LEMMA CopyTwice ==
  ASSUME NEW S, NEW s \in Seq(S)
  PROVE  NotCustom(NotCustom(s)) = NotCustom(s)
  <1> DEFINE c == NotCustom(s)
  <1>1. c \in Seq(S) /\ \A i \in 1 .. Len(c) : c[i].type # "custom"
    BY CopyFacts
  <1> HIDE DEF c
  <1>2. NotCustom(c) = c
    BY <1>1, CopyFacts
  <1> QED BY <1>2 DEF c

(* A sequence in two parts, and one that is cut at one of its elements. *)
Joined(S, s, t, u) ==
    /\ u \in Seq(S) /\ Len(u) = Len(s) + Len(t) /\ Len(s) \in Nat /\ Len(t) \in Nat
    /\ \A j \in 1 .. Len(s) : u[j] = s[j]
    /\ \A j \in 1 .. Len(t) : u[Len(s) + j] = t[j]

LEMMA JoinsAre ==
  ASSUME NEW S, NEW s \in Seq(S), NEW t \in Seq(S)
  PROVE  Joined(S, s, t, s \o t)
  BY Joins DEF Joined

IsSplit(S, s, f, a, x, b) ==
    /\ a \in Seq(S) /\ Len(a) = f - 1 /\ \A i \in 1 .. f - 1 : a[i] = s[i]
    /\ b \in Seq(S) /\ Len(b) = Len(s) - f /\ \A i \in 1 .. Len(s) - f : b[i] = s[f + i]
    /\ <<x>> \in Seq(S) /\ x \in S /\ x = s[f]
    /\ s = a \o (<<x>> \o b)

LEMMA SplitAt ==
  ASSUME NEW S, NEW s \in Seq(S), NEW f \in 1 .. Len(s)
  PROVE  IsSplit(S, s, f, SubSeq(s, 1, f - 1), s[f], SubSeq(s, f + 1, Len(s)))
  <1> DEFINE a == SubSeq(s, 1, f - 1)
             b == SubSeq(s, f + 1, Len(s))
             c == <<s[f]>>
  <1>1. Len(s) \in Nat /\ f \in Nat /\ f - 1 \in Nat /\ Len(s) - f \in Nat /\ s[f] \in S
    OBVIOUS
  <1>2. a \in Seq(S) /\ Len(a) = f - 1 /\ \A i \in 1 .. f - 1 : a[i] = s[i]
    <2>1. \A i \in 1 .. f - 1 : s[i] \in S
      BY <1>1
    <2> QED BY <1>1, <2>1, SubSeqProperties
  <1>3. b \in Seq(S) /\ Len(b) = Len(s) - f /\ \A i \in 1 .. Len(s) - f : b[i] = s[f + i]
    <2>1. \A i \in f + 1 .. Len(s) : s[i] \in S
      BY <1>1
    <2>2. /\ f + 1 \in Int /\ Len(s) \in Int /\ (f + 1 <= Len(s) => Len(s) - (f + 1) + 1 = Len(s) - f)
          /\ (~(f + 1 <= Len(s)) => Len(s) - f = 0)
          /\ \A i \in 1 .. Len(s) - f : (f + 1) + i - 1 = f + i
      BY <1>1
    <2> QED BY <1>1, <2>1, <2>2, SubSeqProperties
  <1>4. c \in Seq(S) /\ Len(c) = 1 /\ c[1] = s[f]
    BY <1>1
  <1> HIDE DEF a, b, c
  <1>5. c \o b \in Seq(S) /\ Len(c \o b) = 1 + Len(b) /\ (c \o b)[1] = s[f]
        /\ \A i \in 1 .. Len(b) : (c \o b)[1 + i] = b[i]
    <2>1. 1 \in 1 .. Len(c)
      BY <1>4
    <2>2. Joined(S, c, b, c \o b)
      BY <1>3, <1>4, JoinsAre
    <2> QED BY <1>4, <2>1, <2>2 DEF Joined
  <1>6. s = a \o (c \o b)
    <2> DEFINE d == c \o b
               e == a \o d
    <2>1. Joined(S, a, d, e)
      BY <1>2, <1>5, JoinsAre
    <2>2. Len(d) = 1 + Len(b) /\ d[1] = s[f] /\ \A i \in 1 .. Len(b) : d[1 + i] = b[i]
      BY <1>5
    <2> HIDE DEF d, e
    <2>6. /\ e \in Seq(S) /\ Len(e) = Len(a) + Len(d)
          /\ \A j \in 1 .. Len(a) : e[j] = a[j]
          /\ \A j \in 1 .. Len(d) : e[Len(a) + j] = d[j]
      BY <2>1 DEF Joined
    <2>3. Len(e) = Len(s)
      BY <1>1, <1>2, <1>3, <2>2, <2>6
    <2>4. ASSUME NEW i \in 1 .. Len(s) PROVE s[i] = e[i]
      <3>1. CASE i \in 1 .. f - 1
        BY <1>2, <2>6, <3>1
      <3>2. CASE i = f
        <4>1. 1 \in 1 .. Len(d) /\ Len(a) + 1 = i
          BY <1>1, <1>2, <1>3, <2>2, <3>2
        <4> QED BY <2>2, <2>6, <3>2, <4>1
      <3>3. CASE i \in f + 1 .. Len(s)
        <4> DEFINE k == i - f
        <4>1. k \in 1 .. Len(b) /\ 1 + k \in 1 .. Len(d) /\ Len(a) + (1 + k) = i /\ f + k = i /\ k \in 1 .. Len(s) - f
          BY <1>1, <1>2, <1>3, <2>2, <3>3
        <4> HIDE DEF k
        <4>2. e[Len(a) + (1 + k)] = d[1 + k] /\ d[1 + k] = b[k] /\ b[k] = s[f + k]
          BY <1>3, <2>2, <2>6, <4>1
        <4> QED BY <4>1, <4>2
      <3> QED BY <1>1, <3>1, <3>2, <3>3
    <2>5. s = e
      BY <2>3, <2>4, <2>6, SeqEqual
    <2> QED BY <2>5 DEF d, e
  <1> QED BY <1>1, <1>2, <1>3, <1>4, <1>6 DEF a, b, c, IsSplit

LEMMA CopyOne ==
  ASSUME NEW S, NEW x \in S
  PROVE  NotCustom(<<x>>) = IF x.type = "custom" THEN <<>> ELSE <<x>>
  <1> DEFINE s == <<x>>
  <1>1. s \in Seq(S) /\ Len(s) = 1 /\ s[1] = x
    OBVIOUS
  <1> HIDE DEF s
  <1>2. CASE x.type = "custom"
    <2>1. /\ NotCustom(s) = Copied(s)[Len(s)] /\ Copied(s)[0] = <<>>
          /\ \A i \in 1 .. Len(s) : s[i].type = "custom" => Copied(s)[i] = Copied(s)[i - 1]
      BY <1>1, CopiedTurns
    <2>2. 1 \in 1 .. Len(s) /\ 1 - 1 = 0
      BY <1>1
    <2> QED BY <1>1, <1>2, <2>1, <2>2 DEF s
  <1>3. CASE x.type # "custom"
    <2>1. NotCustom(s) = s
      BY <1>1, <1>3, CopyFacts
    <2> QED BY <1>3, <2>1 DEF s
  <1> QED BY <1>2, <1>3

(* What is found first in each of the searches. *)
LEMMA SearchPlaces ==
  ASSUME NEW s, Len(s) \in Nat
  PROVE  /\ Compiled(s) \in SUBSET (Nat \ {0})
         /\ Stops(s) \in SUBSET (Nat \ {0})
         /\ Marks(s) \in SUBSET (Nat \ {0})
  <1>1. 1 .. Len(s) \subseteq Nat \ {0}
    OBVIOUS
  <1>2. Compiled(s) \in SUBSET (Nat \ {0})
    BY <1>1 DEF Compiled
  <1>3. Stops(s) \in SUBSET (Nat \ {0})
    BY <1>1 DEF Stops
  <1>4. Marks(s) \in SUBSET (Nat \ {0})
    BY <1>1 DEF Marks
  <1> QED BY <1>2, <1>3, <1>4

(* getStrippedSource leaves no compiled code, invents nothing, and keeps the rest. *)
LEMMA StrippedFacts ==
  ASSUME NEW S, NEW s \in Seq(S)
  PROVE  /\ Stripped(s) \in Seq(S)
         /\ NotCustom(Stripped(s)) = NotCustom(s)
         /\ \A k \in 1 .. Len(Stripped(s)) :
               /\ \E i \in 1 .. Len(s) : Stripped(s)[k] = s[i]
               /\ ~Precompiled(Stripped(s)[k])
  <1> DEFINE f == First(Compiled(s))
             a == SubSeq(s, 1, f - 1)
             b == SubSeq(s, f + 1, Len(s))
             h == a \o NotCustom(b)
  <1>1. Stripped(s) = IF f = 0 THEN s ELSE h
    BY Searches
  <1>2. Compiled(s) \in SUBSET (Nat \ {0})
    <2>1. Len(s) \in Nat
      OBVIOUS
    <2> QED BY <2>1, SearchPlaces
  <1>3. /\ f = 0 <=> Compiled(s) = {}
        /\ Compiled(s) # {} => f \in Compiled(s) /\ \A j \in Compiled(s) : f <= j
    BY <1>2, FirstFacts
  <1> HIDE DEF f
  <1>4. CASE f = 0
    <2>1. Compiled(s) = {} /\ Stripped(s) = s
      BY <1>1, <1>3, <1>4
    <2> QED BY <2>1 DEF Compiled
  <1>5. CASE f # 0
    <2>1. f \in 1 .. Len(s) /\ Precompiled(s[f]) /\ \A j \in Compiled(s) : f <= j
      BY <1>3, <1>5 DEF Compiled
    <2>2. Stripped(s) = h
      BY <1>1, <1>5
    <2> DEFINE x == s[f]
               c == NotCustom(b)
    <2>9. IsSplit(S, s, f, a, x, b)
      BY <2>1, SplitAt
    <2> HIDE DEF a, b, h, x
    <2>3. /\ a \in Seq(S) /\ Len(a) = f - 1 /\ \A i \in 1 .. f - 1 : a[i] = s[i]
          /\ b \in Seq(S) /\ Len(b) = Len(s) - f /\ \A i \in 1 .. Len(s) - f : b[i] = s[f + i]
          /\ <<x>> \in Seq(S) /\ x \in S /\ s = a \o (<<x>> \o b)
      BY <2>9 DEF IsSplit
    <2>4. /\ c \in Seq(S) /\ NotCustom(c) = c
          /\ \A k \in 1 .. Len(c) : (\E i \in 1 .. Len(b) : c[k] = b[i]) /\ c[k].type # "custom"
      BY <2>3, CopyFacts, CopyTwice
    <2>5. NotCustom(<<x>>) = <<>>
      BY <2>1, <2>3, CopyOne DEF Precompiled, x
    <2>6. NotCustom(s) = NotCustom(a) \o (<<>> \o c)
      <3>1. <<x>> \o b \in Seq(S)
        BY <2>3, Joins
      <3>2. NotCustom(<<x>> \o b) = <<>> \o c
        BY <2>3, <2>5, CopiedJoin
      <3>3. NotCustom(a \o (<<x>> \o b)) = NotCustom(a) \o NotCustom(<<x>> \o b)
        BY <2>3, <3>1, CopiedJoin
      <3> QED BY <2>3, <3>2, <3>3
    <2> HIDE DEF c
    <2>7. NotCustom(h) = NotCustom(s) /\ h \in Seq(S)
      <3>1. NotCustom(a \o c) = NotCustom(a) \o NotCustom(c)
        BY <2>3, <2>4, CopiedJoin
      <3>2. <<>> \o c = c
        BY <2>4
      <3>3. h = a \o c
        BY DEF h, c
      <3>4. a \o c \in Seq(S)
        BY <2>3, <2>4
      <3> QED BY <2>4, <2>6, <3>1, <3>2, <3>3, <3>4
    <2>8. ASSUME NEW k \in 1 .. Len(h)
          PROVE  (\E i \in 1 .. Len(s) : h[k] = s[i]) /\ ~Precompiled(h[k])
      <3>1. /\ Len(h) = Len(a) + Len(c)
            /\ \A j \in 1 .. Len(a) : h[j] = a[j]
            /\ \A j \in 1 .. Len(c) : h[Len(a) + j] = c[j]
        <4>1. Joined(S, a, c, a \o c)
          BY <2>3, <2>4, JoinsAre
        <4>2. h = a \o c
          BY DEF h, c
        <4> QED BY <4>1, <4>2 DEF Joined
      <3>2. Len(a) \in Nat /\ Len(c) \in Nat /\ Len(s) \in Nat /\ f \in Nat
        BY <2>1, <2>3, <2>4
      <3>3. CASE k \in 1 .. Len(a)
        <4>1. k \in 1 .. Len(s) /\ h[k] = s[k] /\ k < f
          BY <2>1, <2>3, <3>1, <3>2, <3>3
        <4>2. k \notin Compiled(s)
          BY <2>1, <3>2, <4>1
        <4> QED BY <4>1, <4>2 DEF Compiled
      <3>4. CASE k \in Len(a) + 1 .. Len(h)
        <4> DEFINE j == k - Len(a)
        <4>1. j \in 1 .. Len(c) /\ Len(a) + j = k
          BY <3>1, <3>2, <3>4
        <4> HIDE DEF j
        <4>2. h[k] = c[j]
          BY <3>1, <4>1
        <4>3. PICK i \in 1 .. Len(b) : c[j] = b[i]
          BY <2>4, <4>1
        <4>4. f + i \in 1 .. Len(s) /\ b[i] = s[f + i]
          BY <2>1, <2>3, <3>2
        <4>5. c[j].type # "custom"
          BY <2>4, <4>1
        <4> QED BY <4>2, <4>3, <4>4, <4>5 DEF Precompiled
      <3> QED BY <3>1, <3>2, <3>3, <3>4
    <2> QED BY <2>2, <2>7, <2>8
  <1> QED BY <1>4, <1>5

(* The first export section is found again among the sections that are not custom. *)
LEMMA FirstExport ==
  ASSUME NEW S, NEW s \in Seq(S), \A i \in 1 .. Len(s) : Fits(s[i])
  PROVE  LET c == NotCustom(s) IN
         /\ First(Stops(s)) = 0 <=> First(Stops(c)) = 0
         /\ First(Stops(s)) # 0 =>
               /\ s[First(Stops(s))] = c[First(Stops(c))]
               /\ First(Stops(s)) \in 1 .. Len(s) /\ s[First(Stops(s))].type = "export"
  <1> DEFINE f == First(Stops(s))
             c == NotCustom(s)
             a == SubSeq(s, 1, f - 1)
             b == SubSeq(s, f + 1, Len(s))
             x == s[f]
  <1>1. /\ c \in Seq(S) /\ \A k \in 1 .. Len(c) : \E i \in 1 .. Len(s) : c[k] = s[i]
    BY CopyFacts
  <1>2. Stops(s) \in SUBSET (Nat \ {0}) /\ Stops(c) \in SUBSET (Nat \ {0})
    <2>1. Len(s) \in Nat /\ Len(c) \in Nat
      BY <1>1
    <2> HIDE DEF c
    <2> QED BY <2>1, SearchPlaces
  <1>3. /\ f = 0 <=> Stops(s) = {}
        /\ Stops(s) # {} => f \in Stops(s) /\ \A j \in Stops(s) : f <= j
    BY <1>2, FirstFacts
  <1>4. First(Stops(c)) = 0 <=> Stops(c) = {}
    BY <1>2, FirstFacts
  <1> HIDE DEF f
  <1>5. CASE f = 0
    <2>1. \A i \in 1 .. Len(s) : Fits(s[i]) /\ s[i].type # "export"
      BY <1>3, <1>5 DEF Stops
    <2>2. Stops(c) = {}
      BY <1>1, <2>1 DEF Stops
    <2>3. First(Stops(c)) = 0
      BY <1>4, <2>2
    <2> QED BY <1>5, <2>3 DEF f
  <1>6. CASE f # 0
    <2>1. f \in 1 .. Len(s) /\ x.type = "export" /\ \A j \in Stops(s) : f <= j
      BY <1>3, <1>6 DEF Stops
    <2>11. IsSplit(S, s, f, a, x, b)
      BY <2>1, SplitAt
    <2> HIDE DEF a, b, c, x
    <2>2. /\ a \in Seq(S) /\ Len(a) = f - 1 /\ \A i \in 1 .. f - 1 : a[i] = s[i]
          /\ b \in Seq(S) /\ <<x>> \in Seq(S) /\ x \in S /\ s = a \o (<<x>> \o b)
      BY <2>11 DEF IsSplit
    <2>3. NotCustom(<<x>>) = <<x>>
      BY <2>1, <2>2, CopyOne
    <2> DEFINE ca == NotCustom(a)
               cb == NotCustom(b)
    <2>4. /\ ca \in Seq(S) /\ cb \in Seq(S)
          /\ \A k \in 1 .. Len(ca) : \E i \in 1 .. Len(a) : ca[k] = a[i]
      BY <2>2, CopyFacts
    <2>5. c = ca \o (<<x>> \o cb)
      <3>1. <<x>> \o b \in Seq(S)
        BY <2>2, Joins
      <3>2. NotCustom(<<x>> \o b) = <<x>> \o cb
        BY <2>2, <2>3, CopiedJoin
      <3>3. NotCustom(a \o (<<x>> \o b)) = NotCustom(a) \o NotCustom(<<x>> \o b)
        BY <2>2, <3>1, CopiedJoin
      <3> QED BY <2>2, <3>2, <3>3 DEF c
    <2> HIDE DEF ca, cb
    <2> DEFINE m == Len(ca) + 1
    <2>6. /\ m \in 1 .. Len(c) /\ c[m] = x /\ m \in Nat /\ Len(ca) \in Nat
          /\ \A k \in 1 .. Len(ca) : c[k] = ca[k]
      <3> DEFINE d == <<x>> \o cb
      <3>1. d \in Seq(S) /\ Len(d) = 1 + Len(cb) /\ d[1] = x
        <4>1. Len(<<x>>) = 1 /\ 1 \in 1 .. Len(<<x>>) /\ <<x>>[1] = x
          OBVIOUS
        <4>2. Joined(S, <<x>>, cb, d)
          BY <2>2, <2>4, JoinsAre
        <4> HIDE DEF d
        <4> QED BY <4>1, <4>2 DEF Joined
      <3> HIDE DEF d
      <3>2. /\ Len(ca \o d) = Len(ca) + Len(d)
            /\ \A j \in 1 .. Len(ca) : (ca \o d)[j] = ca[j]
            /\ \A j \in 1 .. Len(d) : (ca \o d)[Len(ca) + j] = d[j]
        <4>1. Joined(S, ca, d, ca \o d)
          BY <2>4, <3>1, JoinsAre
        <4> QED BY <4>1 DEF Joined
      <3>3. Len(ca) \in Nat /\ Len(cb) \in Nat
        BY <2>4
      <3>4. c = ca \o d
        BY <2>5 DEF d
      <3>5. 1 \in 1 .. Len(d)
        BY <3>1, <3>3
      <3> QED BY <3>1, <3>2, <3>3, <3>4, <3>5
    <2>7. m \in Stops(c)
      BY <2>1, <2>6 DEF Stops
    <2>8. ASSUME NEW k \in Stops(c) PROVE m <= k
      <3>1. k \in 1 .. Len(c) /\ (~Fits(c[k]) \/ c[k].type = "export")
        BY DEF Stops
      <3>2. ASSUME k \in 1 .. Len(ca) PROVE FALSE
        <4>1. PICK i \in 1 .. Len(a) : ca[k] = a[i]
          BY <2>4, <3>2
        <4>2. i \in 1 .. Len(s) /\ i < f /\ a[i] = s[i] /\ c[k] = s[i]
          BY <2>1, <2>2, <2>6, <3>2, <4>1
        <4>3. i \notin Stops(s)
          BY <2>1, <4>2
        <4> QED BY <3>1, <4>2, <4>3 DEF Stops
      <3> QED BY <2>6, <3>1, <3>2
    <2>9. First(Stops(c)) = m
      <3> HIDE DEF m
      <3> QED BY <1>2, <2>7, <2>8, FirstFacts
    <2>10. f \in Nat /\ m # 0
      BY <2>1, <2>6
    <2> QED BY <1>6, <2>1, <2>6, <2>9, <2>10 DEF f, c, x
  <1> QED BY <1>5, <1>6

(* Whatever a file exports, what is read as its ABI is one of those that there are. *)
LEMMA MarkersKnown ==
  ASSUME NEW S, NEW e \in Seq(S)
  PROVE  AbiOfExports(e) = [ok |-> AbiOfExports(e).ok, abi |-> AbiOfExports(e).abi]
         /\ AbiOfExports(e).abi \in Abis
  <1>1. Len(e) \in Nat
    OBVIOUS
  <1>2. Marks(e) \in SUBSET (Nat \ {0})
    BY <1>1, SearchPlaces
  <1>3. /\ First(Marks(e)) = 0 <=> Marks(e) = {}
        /\ Marks(e) # {} => First(Marks(e)) \in Marks(e)
    BY <1>2, FirstFacts
  <1>4. AbiOfExports(e) =
         IF First(Marks(e)) = 0 THEN [ok |-> TRUE, abi |-> "Unknown"]
         ELSE IF ~e[First(Marks(e))].sound THEN [ok |-> FALSE, abi |-> "Unknown"]
         ELSE [ok |-> TRUE, abi |-> AbiMarkers[e[First(Marks(e))].name]]
    BY Searches
  <1>5. ASSUME First(Marks(e)) # 0, e[First(Marks(e))].sound
        PROVE  AbiMarkers[e[First(Marks(e))].name] \in Abis
    <2>1. First(Marks(e)) \in Marks(e)
      BY <1>3, <1>5
    <2> DEFINE n == e[First(Marks(e))].name
    <2>2. n \in DOMAIN AbiMarkers
      BY <1>5, <2>1 DEF Marks
    <2> HIDE DEF n
    <2>3. AbiMarkers[n] \in Abis
      BY <2>2 DEF AbiMarkers, Abis
    <2> QED BY <2>3 DEF n
  <1> DEFINE a == AbiOfExports(e)
             i == First(Marks(e))
  <1>6. \E ok \in BOOLEAN, abi \in Abis : a = [ok |-> ok, abi |-> abi]
    <2>1. "Unknown" \in Abis /\ TRUE \in BOOLEAN /\ FALSE \in BOOLEAN
      BY DEF Abis
    <2>2. CASE i = 0
      BY <1>4, <2>1, <2>2
    <2>3. CASE i # 0 /\ ~e[i].sound
      BY <1>4, <2>1, <2>3
    <2>4. CASE i # 0 /\ e[i].sound
      BY <1>4, <1>5, <2>1, <2>4
    <2> QED BY <2>2, <2>3, <2>4
  <1> HIDE DEF a
  <1>7. a = [ok |-> a.ok, abi |-> a.abi] /\ a.abi \in Abis
    BY <1>6
  <1> QED BY <1>7 DEF a

(* The file without what getStrippedSource takes from it. *)
Held(m) == GetStrippedSource(m).sections
Kept(m) == [m EXCEPT !.sections = Held(m)]

(* Of any file that load accepts, getStrippedSource leaves all the sections that are not       *)
(* custom, in order, no compiled code, and the ABI that getAbiVersion reads.            *)
THEOREM StrippingKeeps ==
  ASSUME NEW m, IsFile(m), GetAbiVersion(m).ok, GetAbiVersion(m).abi # "Unknown",
         GetStrippedSource(m).ok
  PROVE  /\ SameCore(Held(m), SectionsOf(m))
         /\ \A i \in DOMAIN Held(m) : ~Precompiled(Held(m)[i])
         /\ GetAbiVersion(Kept(m)) = [ok |-> TRUE, abi |-> GetAbiVersion(m).abi]
         /\ GetAbiVersion(m).abi \in Abis
  <1> DEFINE S == ToSet(m.sections)
             s == SectionsOf(m)
             h == Held(m)
             c == NotCustom(s)
             k == Kept(m)
  <1>1. /\ m = [magic |-> m.magic, short |-> m.short, sections |-> m.sections]
        /\ m.magic \in BOOLEAN /\ m.short \in BOOLEAN /\ m.sections \in Seq(S)
        /\ \A x \in S : x.type = "export" => x.exports \in Seq(ToSet(x.exports))
    BY DEF IsFile
  <1>2. s \in Seq(S) /\ (~m.short => s = m.sections)
    BY <1>1 DEF SectionsOf
  <1>3. /\ h = Stripped(s) /\ CheckWasmHeader(m)
        /\ \A i \in DOMAIN s : Fits(m.sections[i])
    BY Zenon DEF GetStrippedSource, Held
  <1> HIDE DEF h
  <1>4. /\ h \in Seq(S) /\ NotCustom(h) = c
        /\ \A i \in 1 .. Len(h) : (\E j \in 1 .. Len(s) : h[i] = s[j]) /\ ~Precompiled(h[i])
    <2> HIDE DEF s
    <2> QED BY <1>2, <1>3, StrippedFacts
  <1>5. SameCore(h, s)
    <2> HIDE DEF s
    <2> QED BY <1>2, <1>4, CopyIsCore
  <1>6. DOMAIN h = 1 .. Len(h) /\ DOMAIN s = 1 .. Len(s)
    <2> HIDE DEF s
    <2> QED BY <1>2, <1>4
  <1>7. GetAbiVersion(m) =
         IF First(Stops(s)) = 0 THEN [ok |-> TRUE, abi |-> "Unknown"]
         ELSE IF ~Fits(m.sections[First(Stops(s))]) THEN [ok |-> FALSE, abi |-> "Unknown"]
         ELSE AbiOfExports(m.sections[First(Stops(s))].exports)
    BY <1>3, Searches
  <1>8. First(Stops(s)) # 0
    BY <1>7
  <1>9. ~m.short
    <2>1. ASSUME m.short PROVE FALSE
      <3>1. s = <<>> /\ Len(s) = 0
        BY <2>1 DEF SectionsOf
      <3>2. Stops(s) = {}
        BY <3>1 DEF Stops
      <3>3. First(Stops(s)) = 0
        BY <3>2 DEF First
      <3> QED BY <1>8, <3>3
    <2> QED BY <1>1, <2>1
  <1>10. s = m.sections /\ \A i \in 1 .. Len(s) : Fits(s[i])
    BY <1>2, <1>3, <1>6, <1>9
  <1> HIDE DEF s
  <1>11. /\ First(Stops(s)) = 0 <=> First(Stops(c)) = 0
         /\ s[First(Stops(s))] = c[First(Stops(c))]
         /\ First(Stops(s)) \in 1 .. Len(s) /\ s[First(Stops(s))].type = "export"
    BY <1>2, <1>8, <1>10, FirstExport
  <1>12. \A i \in 1 .. Len(h) : Fits(h[i])
    BY <1>4, <1>10
  <1> HIDE DEF c
  <1>13. /\ First(Stops(h)) # 0 /\ h[First(Stops(h))] = c[First(Stops(c))]
         /\ First(Stops(h)) \in 1 .. Len(h)
    <2>1. /\ First(Stops(h)) = 0 <=> First(Stops(c)) = 0
          /\ First(Stops(h)) # 0 =>
               /\ h[First(Stops(h))] = c[First(Stops(c))]
               /\ First(Stops(h)) \in 1 .. Len(h)
      BY <1>4, <1>12, FirstExport
    <2> QED BY <1>8, <1>11, <2>1
  <1> DEFINE x == s[First(Stops(s))]
  <1>14. x \in S /\ Fits(x) /\ x.type = "export" /\ x.exports \in Seq(ToSet(x.exports))
    <2>1. x \in S /\ Fits(x) /\ x.type = "export"
      BY <1>2, <1>10, <1>11
    <2> HIDE DEF x
    <2> QED BY <1>1, <2>1
  <1>15. GetAbiVersion(m) = AbiOfExports(x.exports)
    BY <1>7, <1>8, <1>10, <1>14
  <1>16. h[First(Stops(h))] = x
    BY <1>11, <1>13
  <1> HIDE DEF x
  <1>17. GetAbiVersion(k) = AbiOfExports(x.exports)
    <2>1. k.sections = h /\ k.short = m.short /\ k.magic = m.magic
      BY <1>1 DEF Kept, h
    <2> HIDE DEF k
    <2>2. SectionsOf(k) = h /\ CheckWasmHeader(k)
      BY <1>3, <1>9, <2>1 DEF SectionsOf, CheckWasmHeader
    <2>3. GetAbiVersion(k) =
         IF First(Stops(h)) = 0 THEN [ok |-> TRUE, abi |-> "Unknown"]
         ELSE IF ~Fits(h[First(Stops(h))]) THEN [ok |-> FALSE, abi |-> "Unknown"]
         ELSE AbiOfExports(h[First(Stops(h))].exports)
      BY <2>1, <2>2, Searches
    <2> QED BY <1>13, <1>14, <1>16, <2>3
  <1>18. /\ AbiOfExports(x.exports) = [ok |-> AbiOfExports(x.exports).ok, abi |-> AbiOfExports(x.exports).abi]
         /\ AbiOfExports(x.exports).abi \in Abis
    BY <1>14, MarkersKnown
  <1>19. AbiOfExports(x.exports).ok = TRUE
    <2>1. AbiOfExports(x.exports).ok \in BOOLEAN
      BY Searches
    <2> QED BY <1>15, <2>1
  <1>20. GetAbiVersion(k) = [ok |-> TRUE, abi |-> GetAbiVersion(m).abi] /\ GetAbiVersion(m).abi \in Abis
    BY <1>15, <1>17, <1>18, <1>19
  <1> QED BY <1>4, <1>5, <1>6, <1>20 DEF h, s

-----------------------------------------------------------------------------
(* The invariant of the code: a VM that holds code has what is left of the configured file, *)
(* which load accepted, and the base VM has the ABI that was found in it.            *)
Configured == Codes[code].file
HoldsCode(w) ==
    engine # "null" /\ w.vm.phase \in {"loaded", "linked"} =>
        Accepted(Configured) /\ w.vm.code = CodeOf(Configured)
KnowsAbi(w) ==
    engine # "null" /\ w.vm.phase \in {"loaded", "linked"} => w.abi = GetAbiVersion(Configured).abi
Kinds(w, s) ==
    /\ w.failed \in FailStates /\ w.abi \in Abis
    /\ w.vm.phase \in {"absent", "new", "loaded", "linked"} /\ Len(s) <= MaxDepth
VmCode(w, s) == Kinds(w, s) /\ HoldsCode(w)
CodeInv ==
    /\ code \in DOMAIN Codes /\ KnowsAbi(wasm[Base])
    /\ \A v \in Vms : VmCode(wasm[v], stack[v])

(* An action of one VM. *)
LEMMA OneVmCode ==
  ASSUME Inv, CodeInv, NEW v \in Vms, NEW w, NEW s,
         Set(v, w), stack' = [stack EXCEPT ![v] = s], VmCode(w, s), v = Base => KnowsAbi(w)
  PROVE  CodeInv'
  <1>1. /\ wasm' = [u \in Vms |-> IF u = v THEN w ELSE wasm[u]]
        /\ stack' = [u \in Vms |-> IF u = v THEN s ELSE stack[u]]
        /\ engine' = engine /\ config' = config /\ code' = code
    BY DEF Set, Inv
  <1>2. Accepted(Configured)' = Accepted(Configured) /\ CodeOf(Configured)' = CodeOf(Configured)
        /\ Configured' = Configured
    BY <1>1 DEF Configured, Accepted, CodeOf, CompiledSection
  <1>3. ASSUME NEW u \in Vms PROVE VmCode(wasm[u], stack[u])'
    <2>1. VmCode(wasm'[u], stack'[u])
      BY <1>1 DEF CodeInv
    <2> QED BY <1>1, <1>2, <2>1 DEF VmCode, Kinds, HoldsCode
  <1>4. KnowsAbi(wasm[Base])'
    <2>1. Base \in Vms
      BY DEF Vms
    <2>2. KnowsAbi(wasm'[Base])
      BY <1>1, <2>1 DEF CodeInv
    <2> QED BY <1>1, <1>2, <2>2 DEF KnowsAbi
  <1> QED BY <1>1, <1>3, <1>4 DEF CodeInv

(* What leaves the code of a VM alone. *)
Keeps(w, w0) ==
    /\ IsWasm(w) /\ w.vm.phase = w0.vm.phase /\ w.vm.code = w0.vm.code /\ w.abi = w0.abi
    /\ w0.failed \in FailStates => w.failed \in FailStates

LEMMA KeepsCode ==
  ASSUME NEW w0, NEW s0, VmCode(w0, s0), NEW w, Keeps(w, w0), NEW s, Len(s) <= MaxDepth
  PROVE  VmCode(w, s) /\ (KnowsAbi(w0) => KnowsAbi(w))
  BY DEF VmCode, Kinds, HoldsCode, KnowsAbi, Keeps

LEMMA KeepsTwice ==
  ASSUME NEW w0, NEW w1, NEW w2, Keeps(w1, w0), Keeps(w2, w1)
  PROVE  Keeps(w2, w0)
  BY DEF Keeps

LEMMA FailuresKeep ==
  ASSUME NEW w, IsWasm(w), NEW f \in FailStates
  PROVE  Keeps(w, w) /\ Keeps(Fails(w, f), w) /\ Keeps(VmFails(w, f), w) /\ Keeps(Reject(w), w)
  <1>1. Keeps(w, w)
    BY DEF Keeps
  <1>2. ASSUME NEW g \in FailStates PROVE Keeps(Fails(w, g), w) /\ Keeps(VmFails(w, g), w)
    <2>1. Fails(w, g).failed = g /\ VmFails(w, g).failed = g
      BY DEF Fails, VmFails, IsWasm
    <2> QED BY <2>1, FailsKeep DEF Keeps
  <1>3. Keeps(Reject(w), w)
    <2> DEFINE x == Fails(w, "UnableToInitializeCode")
    <2>1. Keeps(x, w)
      BY <1>2 DEF FailStates
    <2>2. Reject(w) = [x EXCEPT !.at = "rejected"]
      BY DEF Reject
    <2> HIDE DEF x
    <2>3. Keeps(Reject(w), x)
      BY <2>1, <2>2 DEF Keeps, IsWasm
    <2> QED BY <2>1, <2>3, KeepsTwice
  <1> QED BY <1>1, <1>2, <1>3

LEMMA EndKeeps ==
  ASSUME NEW w, IsWasm(w)
  PROVE  /\ \A r : Keeps([w EXCEPT !.vm.restricted = r], w)
         /\ \A p : Keeps([w EXCEPT !.plan = p], w)
         /\ Keeps(Finish(w), w) /\ Keeps(Start(w), w)
  <1>1. ASSUME NEW r PROVE Keeps([w EXCEPT !.vm.restricted = r], w)
    <2> DEFINE x == [w EXCEPT !.vm.restricted = r]
    <2>1. x.failed = w.failed
      BY DEF IsWasm
    <2>2. SameBut(x, w)
      BY Lifted
    <2> HIDE DEF x
    <2>3. Keeps(x, w)
      BY <2>1, <2>2 DEF SameBut, Keeps
    <2> QED BY <2>3 DEF x
  <1>2. ASSUME NEW p PROVE Keeps([w EXCEPT !.plan = p], w)
    BY DEF IsWasm, Keeps
  <1> DEFINE done == [w EXCEPT !.vm.restricted = AnyFunction]
  <1>3. Keeps(done, w)
    BY <1>1
  <1>4. Finish(w) = [done EXCEPT !.at = "ready"] \/ Finish(w) = Reject(done)
    BY DEF Finish
  <1> HIDE DEF done
  <1>5. Keeps([done EXCEPT !.at = "ready"], done)
    BY <1>3 DEF IsWasm, Keeps
  <1>6. Keeps(Reject(done), done)
    <2>1. "Ok" \in FailStates
      BY DEF FailStates
    <2> QED BY <1>3, <2>1, FailuresKeep DEF Keeps
  <1>7. Keeps(Finish(w), w)
    BY <1>3, <1>4, <1>5, <1>6, KeepsTwice
  <1>8. Keeps(Start(w), w)
    <2>1. CASE StartPlan(w.fns) = <<>>
      BY <1>7, <2>1 DEF Start
    <2>2. CASE StartPlan(w.fns) # <<>>
      <3> DEFINE y == [w EXCEPT !.vm.restricted = AllowedAtStart]
      <3>1. Start(w) = [y EXCEPT !.at = "starting", !.plan = Tail(StartPlan(w.fns)), !.starts = w.starts + 1]
        BY <2>2 DEF Start, IsWasm
      <3>2. Keeps(y, w)
        BY <1>1
      <3> HIDE DEF y
      <3>3. Keeps(Start(w), y)
        BY <3>1, <3>2 DEF IsWasm, Keeps
      <3> QED BY <3>2, <3>3, KeepsTwice
    <2> QED BY <2>1, <2>2
  <1> QED BY <1>1, <1>2, <1>7, <1>8

LEMMA ResolveKeeps ==
  ASSUME NEW w, IsWasm(w), w.failed \in FailStates
  PROVE  Keeps(Resolve(w), w)
  <1> DEFINE got == GetFunctions(Codes[w.vm.code.name], w.abi)
             x == IF got.vmfailed THEN VmFails(w, "UnableToInitializeCode") ELSE w
             r == Resolve(w)
  <1>1. r = [x EXCEPT !.fns = got.fns, !.failed = IF got.failed = "Ok" THEN w.failed ELSE got.failed]
    BY DEF Resolve
  <1>2. Keeps(x, w)
    <2>1. "UnableToInitializeCode" \in FailStates
      BY DEF FailStates
    <2> HIDE DEF got
    <2> QED BY <2>1, FailuresKeep
  <1>3. got.failed \in FailStates
    BY DEF GetFunctions, FailStates
  <1> HIDE DEF x, r, got
  <1>4. Keeps(r, x)
    BY <1>1, <1>2, <1>3 DEF Keeps, IsWasm
  <1>5. Keeps(r, w)
    BY <1>2, <1>4, KeepsTwice
  <1> QED BY <1>5 DEF r

LEMMA CreateBaseCode == ASSUME Inv, CodeInv, CreateBase PROVE CodeInv'
  <1>1. Base \in Vms /\ wasm[Base].at = "none" /\ stack' = stack
    BY DEF CreateBase, Quiet, Vms
  <1>2. wasm[Base] = NoWasm /\ stack[Base] = <<>>
    BY <1>1 DEF Inv, VmInv, Stage
  <1>3. PICK vm \in {NewVm, NoVm} :
            Set(Base, [NoWasm EXCEPT !.at = "created", !.vm = vm,
                                     !.failed = IF vm = NoVm THEN "UnableToCreateVm" ELSE "Ok"])
    BY DEF CreateBase
  <1> DEFINE w == [NoWasm EXCEPT !.at = "created", !.vm = vm,
                                 !.failed = IF vm = NoVm THEN "UnableToCreateVm" ELSE "Ok"]
  <1>4. w.vm = vm /\ w.failed \in {"UnableToCreateVm", "Ok"} /\ w.abi = "Unknown"
    BY DEF NoWasm
  <1>5. Set(Base, w)
    BY <1>3
  <1>6. stack' = [stack EXCEPT ![Base] = <<>>]
    BY <1>1, <1>2 DEF Inv
  <1> HIDE DEF w
  <1>7. w.vm.phase \in {"new", "absent"}
    BY <1>3, <1>4, NewVms
  <1>8. VmCode(w, <<>>) /\ KnowsAbi(w)
    <2>1. Len(<<>>) <= MaxDepth
      BY VmStartAssumption
    <2> QED BY <1>4, <1>7, <2>1 DEF VmCode, Kinds, HoldsCode, KnowsAbi, FailStates, Abis
  <1> QED BY <1>1, <1>5, <1>6, <1>8, OneVmCode

(* What load accepts it can tell the ABI of. *)
LEMMA AcceptedAbi ==
  ASSUME code \in DOMAIN Codes, Accepted(Configured)
  PROVE  /\ SameCore(CodeOf(Configured).sections, SectionsOf(Configured)) \/ engine = "null"
         /\ engine # "null" => \A i \in DOMAIN CodeOf(Configured).sections :
                                  ~Precompiled(CodeOf(Configured).sections[i])
         /\ engine # "null" =>
               GetAbiVersion([Configured EXCEPT !.sections = CodeOf(Configured).sections])
                 = [ok |-> TRUE, abi |-> GetAbiVersion(Configured).abi]
         /\ GetAbiVersion(Configured).abi \in Abis
  <1> DEFINE m == Configured
  <1>1. IsFile(m)
    BY CodesAssumption DEF Configured
  <1>2. GetAbiVersion(m).ok /\ GetAbiVersion(m).abi # "Unknown" /\ GetStrippedSource(m).ok
    BY DEF Accepted
  <1>3. engine # "null" => CodeOf(m).sections = Held(m)
    BY DEF CodeOf, Held
  <1> HIDE DEF m
  <1>4. /\ SameCore(Held(m), SectionsOf(m))
        /\ \A i \in DOMAIN Held(m) : ~Precompiled(Held(m)[i])
        /\ GetAbiVersion(Kept(m)) = [ok |-> TRUE, abi |-> GetAbiVersion(m).abi]
        /\ GetAbiVersion(m).abi \in Abis
    BY <1>1, <1>2, StrippingKeeps
  <1>5. engine # "null" => Kept(m) = [m EXCEPT !.sections = CodeOf(m).sections]
    BY <1>3 DEF Kept
  <1> HIDE DEF Kept, Held
  <1> QED BY <1>3, <1>4, <1>5 DEF m

LEMMA LoadCode == ASSUME Inv, CodeInv, Load PROVE CodeInv'
  <1>1. Base \in Vms /\ wasm[Base].at = "created" /\ stack' = stack
    BY DEF Load, Quiet, Vms
  <1>2. /\ stack[Base] = <<>> /\ IsWasm(wasm[Base]) /\ VmCode(wasm[Base], stack[Base])
        /\ KnowsAbi(wasm[Base])
    BY <1>1 DEF Inv, VmInv, Stage, Shape, CodeInv
  <1>3. stack' = [stack EXCEPT ![Base] = <<>>]
    BY <1>1, <1>2 DEF Inv
  <1>4. Len(<<>>) <= MaxDepth /\ "Ok" \in FailStates
    BY VmStartAssumption DEF FailStates
  <1> DEFINE loaded == CodeOf(Configured)
             abi == IF engine = "null" THEN "0.2.1" ELSE GetAbiVersion(Configured).abi
             kept == IF Cloneable(engine) = "NotCloneable" THEN loaded ELSE NoCode
             new == [wasm[Base] EXCEPT !.at = "loaded", !.vm.phase = "loaded", !.vm.code = loaded,
                         !.abi = abi, !.stored = kept]
  <1>5. \/ Set(Base, Reject(wasm[Base]))
        \/ (engine = "null" \/ Accepted(Configured)) /\ Set(Base, new)
    BY Zenon DEF Load, Configured
  <1>6. CASE Set(Base, Reject(wasm[Base]))
    <2>1. Keeps(Reject(wasm[Base]), wasm[Base])
      BY <1>2, <1>4, FailuresKeep
    <2>2. VmCode(Reject(wasm[Base]), <<>>) /\ KnowsAbi(Reject(wasm[Base]))
      <3> HIDE DEF Reject
      <3> QED BY <1>2, <1>4, <2>1, KeepsCode
    <2> QED BY <1>1, <1>3, <1>6, <2>2, OneVmCode
  <1>7. CASE (engine = "null" \/ Accepted(Configured)) /\ Set(Base, new)
    <2>1. abi \in Abis
      <3>1. CASE engine = "null"
        BY <3>1 DEF Abis
      <3>2. CASE engine # "null"
        <4>1. GetAbiVersion(Configured).abi \in Abis
          BY <1>7, <3>2, AcceptedAbi DEF CodeInv
        <4> QED BY <3>2, <4>1
      <3> QED BY <3>1, <3>2
    <2>2. engine # "null" => abi = GetAbiVersion(Configured).abi
      OBVIOUS
    <2> HIDE DEF loaded, abi, kept
    <2>3. /\ new.vm = [wasm[Base].vm EXCEPT !.phase = "loaded", !.code = loaded]
          /\ new.abi = abi /\ new.failed = wasm[Base].failed
      BY <1>2 DEF IsWasm
    <2>4. new.vm.phase = "loaded" /\ new.vm.code = loaded
      BY <1>2, <2>3 DEF IsWasm, IsVm
    <2>5. Set(Base, new)
      BY <1>7
    <2> HIDE DEF new
    <2>6. VmCode(new, <<>>) /\ KnowsAbi(new)
      BY <1>2, <1>4, <1>7, <2>1, <2>2, <2>3, <2>4 DEF VmCode, Kinds, HoldsCode, KnowsAbi, loaded
    <2> QED BY <1>1, <1>3, <2>5, <2>6, OneVmCode
  <1> QED BY <1>5, <1>6, <1>7

(* A clone is made once the base VM came up, which then holds the code. *)
LEMMA BaseHolds ==
  ASSUME Inv, CodeInv, wasm[Base].at = "ready", engine # "null"
  PROVE  /\ Accepted(Configured) /\ wasm[Base].vm.code = CodeOf(Configured)
         /\ wasm[Base].abi = GetAbiVersion(Configured).abi
         /\ Cloneable(engine) = "NotCloneable" => wasm[Base].stored = CodeOf(Configured)
  <1>1. Base \in Vms
    BY DEF Vms
  <1>2. wasm[Base].vm.phase = "linked" /\ (Cloneable(engine) = "NotCloneable" => wasm[Base].stored = wasm[Base].vm.code)
    BY <1>1 DEF Inv, VmInv, Stage, Origin
  <1> QED BY <1>1, <1>2 DEF CodeInv, VmCode, HoldsCode, KnowsAbi

LEMMA CreateCloneCode == ASSUME Inv, CodeInv, NEW v \in Clones, CreateClone(v) PROVE CodeInv'
  <1>1. v \in Vms /\ v # Base /\ Base \in Vms /\ wasm[v].at = "none" /\ wasm[Base].at = "ready"
        /\ stack' = stack
    BY VmStartAssumption DEF CreateClone, Quiet, Vms, Base
  <1>2. wasm[v] = NoWasm /\ stack[v] = <<>> /\ wasm[Base].vm.phase = "linked"
    BY <1>1 DEF Inv, VmInv, Stage
  <1>3. PICK vm \in IF Cloneable(engine) = "NotCloneable" THEN {NewVm, NoVm}
                     ELSE EngineClone(engine, wasm[Base].vm) :
            Set(v, [NoWasm EXCEPT !.at = "loaded", !.vm = vm,
                       !.failed = IF vm = NoVm THEN "UnableToCreateVm" ELSE "Ok",
                       !.starts = IF vm.phase = "linked" THEN wasm[Base].starts ELSE 0])
    BY DEF CreateClone
  <1> DEFINE w == [NoWasm EXCEPT !.at = "loaded", !.vm = vm,
                       !.failed = IF vm = NoVm THEN "UnableToCreateVm" ELSE "Ok",
                       !.starts = IF vm.phase = "linked" THEN wasm[Base].starts ELSE 0]
  <1>4. Set(v, w) /\ w.vm = vm /\ w.failed \in {"UnableToCreateVm", "Ok"} /\ w.abi = "Unknown"
    BY <1>3 DEF NoWasm
  <1>5. vm # NoVm => /\ vm.phase = LoadedPhase(v)
                     /\ Cloneable(engine) # "NotCloneable" => vm.code = wasm[Base].vm.code
    BY <1>2, <1>3, CloneKinds DEF Inv
  <1>6. stack' = [stack EXCEPT ![v] = <<>>]
    BY <1>1, <1>2 DEF Inv
  <1> HIDE DEF w
  <1>7. Cloneable(engine) = "NotCloneable" => LoadedPhase(v) = "new"
    BY <1>1 DEF LoadedPhase
  <1>8. LoadedPhase(v) \in {"new", "loaded", "linked"}
    BY DEF LoadedPhase
  <1>9. VmCode(w, <<>>)
    <2>1. Len(<<>>) <= MaxDepth
      BY VmStartAssumption
    <2>2. CASE vm = NoVm
      BY <1>4, <2>1, <2>2, NewVms DEF VmCode, Kinds, HoldsCode, FailStates, Abis
    <2>3. CASE vm # NoVm
      <3>1. Kinds(w, <<>>)
        BY <1>4, <1>5, <1>8, <2>1, <2>3 DEF Kinds, FailStates, Abis
      <3>2. HoldsCode(w)
        <4> SUFFICES ASSUME engine # "null", w.vm.phase \in {"loaded", "linked"}
                     PROVE  Accepted(Configured) /\ w.vm.code = CodeOf(Configured)
          BY DEF HoldsCode
        <4>1. Cloneable(engine) # "NotCloneable"
          BY <1>4, <1>5, <1>7, <2>3
        <4> QED BY <1>1, <1>4, <1>5, <2>3, <4>1, BaseHolds
      <3> QED BY <3>1, <3>2 DEF VmCode
    <2> QED BY <2>2, <2>3
  <1> QED BY <1>1, <1>4, <1>6, <1>9, OneVmCode

(* The steps of initialize. *)
LEMMA LoadedCode ==
  ASSUME Inv, CodeInv, NEW v \in Vms, wasm[v].at = "loaded", wasm[v].vm # NoVm, NEW l \in LoadFromBase(v)
  PROVE  IsWasm(l) /\ VmCode(l, <<>>) /\ (v = Base => KnowsAbi(l))
  <1> DEFINE w == wasm[v]
  <1>1. IsWasm(w) /\ IsVm(w.vm) /\ (v # Base => wasm[Base].at = "ready")
    BY DEF Inv, VmInv, Shape, Origin, IsWasm
  <1>2. VmCode(w, stack[v]) /\ (v = Base => KnowsAbi(w)) /\ Len(<<>>) <= MaxDepth /\ "Ok" \in FailStates
    BY VmStartAssumption DEF CodeInv, FailStates
  <1>3. CASE l = w \/ l = Reject(w)
    <2>1. Keeps(l, w)
      BY <1>1, <1>2, <1>3, FailuresKeep
    <2> HIDE DEF w
    <2> QED BY <1>2, <2>1, KeepsCode DEF Keeps
  <1>4. CASE /\ v # Base /\ Cloneable(engine) = "NotCloneable"
             /\ l = [w EXCEPT !.vm.phase = "loaded", !.vm.code = wasm[Base].stored]
    <2>1. /\ l.vm = [w.vm EXCEPT !.phase = "loaded", !.code = wasm[Base].stored]
          /\ l.failed = w.failed /\ l.abi = w.abi
      BY <1>1, <1>4 DEF IsWasm
    <2>2. IsVm(l.vm) /\ l.vm.phase = "loaded" /\ l.vm.code = wasm[Base].stored
      BY <1>1, <2>1 DEF IsVm
    <2>3. IsWasm(l)
      BY <1>1, <1>4, <2>2 DEF IsWasm
    <2>4. HoldsCode(l)
      BY <1>1, <1>4, <2>2, BaseHolds DEF HoldsCode
    <2>5. Kinds(l, <<>>)
      BY <1>2, <2>1, <2>2 DEF VmCode, Kinds
    <2> QED BY <1>4, <2>3, <2>4, <2>5 DEF VmCode
  <1> QED BY <1>3, <1>4 DEF LoadFromBase

(* What states an engine marks a VM with when it links, and when a call ends. *)
LEMMA LinkStates ==
  ASSUME engine \in Engines, NEW m, NEW host, NEW l \in EngineLink(engine, m, host)
  PROVE  l.fail \in FailStates
  <1>1. \A x \in {Linked, Unlinked, LinkFailed("UnableToInitializeCode"), LinkFailed("MissingFunction")} :
            x.fail \in FailStates
    BY DEF Linked, Unlinked, LinkFailed, FailStates
  <1>2. LinkInOrder(m, host) \subseteq {Linked, Unlinked, LinkFailed("UnableToInitializeCode")}
    BY Zenon DEF LinkInOrder
  <1>3. /\ WasmEdgeLink(m, host) \subseteq {Linked, Unlinked, LinkFailed("UnableToInitializeCode")}
        /\ WavmLink(m, host) \subseteq {Linked, Unlinked, LinkFailed("MissingFunction")}
        /\ NullLink \subseteq {Linked}
    BY DEF WasmEdgeLink, WavmLink, NullLink
  <1>4. EngineLink(engine, m, host) \in {LinkInOrder(m, host), WasmEdgeLink(m, host), WavmLink(m, host), NullLink}
    BY DEF EngineLink, Engines, V8Link, WamrLink, WasmtimeLink
  <1> HIDE DEF Linked, Unlinked, LinkFailed, LinkInOrder, WasmEdgeLink, WavmLink, NullLink, EngineLink
  <1> QED BY <1>1, <1>2, <1>3, <1>4

LEMMA CallStates ==
  ASSUME engine \in Engines
  PROVE  EngineCall(engine) \subseteq FailStates
  BY DEF EngineCall, Engines, V8Call, WamrCall, WasmtimeCall, WasmEdgeCall, WavmCall, FailStates

LEMMA LinkedCode ==
  ASSUME engine \in Engines, NEW v \in Vms, NEW l, IsWasm(l), VmCode(l, <<>>), v = Base => KnowsAbi(l),
         ~Instantiates(v) \/ l.vm.phase = "loaded", NEW w \in Link(v, l)
  PROVE  IsWasm(w) /\ VmCode(w, <<>>) /\ (v = Base => KnowsAbi(w))
  <1>1. CASE ~Instantiates(v)
    <2>1. w = l
      BY <1>1, Zenon DEF Link
    <2> QED BY <2>1
  <1>2. CASE Instantiates(v)
    <2>1. \/ \E host : w = [l EXCEPT !.host = host, !.vm.phase = "linked"]
          \/ \E x, f : w = Reject(x) /\ f \in FailStates /\ (x = l \/ x = VmFails(l, f))
      <3> DEFINE h == HostFunctions(l.abi)
                 links == EngineLink(engine, Codes[l.vm.code.name], h)
      <3>1. PICK k \in links :
                w = IF k.ok THEN [l EXCEPT !.host = h, !.vm.phase = "linked"]
                    ELSE Reject(IF k.fail = "Ok" THEN l ELSE VmFails(l, k.fail))
        BY <1>2, Zenon DEF Link
      <3>2. k.fail \in FailStates
        BY <3>1, LinkStates
      <3> HIDE DEF h, links
      <3>3. CASE k.ok
        <4>1. w = [l EXCEPT !.host = h, !.vm.phase = "linked"] /\ l = l
          BY <3>1, <3>3
        <4> QED BY <3>2, <4>1, Zenon
      <3>4. CASE ~k.ok
        <4> DEFINE y == IF k.fail = "Ok" THEN l ELSE VmFails(l, k.fail)
        <4>1. w = Reject(y)
          BY <3>1, <3>4
        <4>2. y = l \/ y = VmFails(l, k.fail)
          OBVIOUS
        <4> HIDE DEF y
        <4> QED BY <3>2, <4>1, <4>2, Zenon
      <3> QED BY <3>3, <3>4
    <2>2. ASSUME NEW host, w = [l EXCEPT !.host = host, !.vm.phase = "linked"]
          PROVE  IsWasm(w) /\ VmCode(w, <<>>) /\ (v = Base => KnowsAbi(w))
      <3>1. w.vm = [l.vm EXCEPT !.phase = "linked"] /\ w.abi = l.abi /\ w.failed = l.failed
        BY <2>2 DEF IsWasm
      <3>2. IsVm(w.vm) /\ w.vm.phase = "linked" /\ w.vm.code = l.vm.code
        BY <3>1 DEF IsWasm, IsVm
      <3>3. IsWasm(w)
        BY <2>2, <3>2 DEF IsWasm
      <3> QED BY <1>2, <3>1, <3>2, <3>3 DEF VmCode, Kinds, HoldsCode, KnowsAbi
    <2>3. ASSUME NEW x, NEW f \in FailStates, w = Reject(x), x = l \/ x = VmFails(l, f)
          PROVE  IsWasm(w) /\ VmCode(w, <<>>) /\ (v = Base => KnowsAbi(w))
      <3>1. Keeps(x, l)
        BY <2>3, FailuresKeep
      <3>2. Keeps(Reject(x), x)
        BY <3>1, FailuresKeep DEF Keeps
      <3>3. Keeps(w, l)
        BY <2>3, <3>1, <3>2, KeepsTwice
      <3>4. Len(<<>>) <= MaxDepth
        BY VmStartAssumption
      <3> QED BY <3>3, <3>4, KeepsCode DEF Keeps
    <2> QED BY <2>1, <2>2, <2>3
  <1> QED BY <1>1, <1>2

LEMMA InitializeCode == ASSUME Inv, CodeInv, NEW v \in Vms, Initialize(v) PROVE CodeInv'
  <1>1. /\ wasm[v].at = "loaded" /\ stack[v] = <<>> /\ IsWasm(wasm[v])
        /\ stack = [stack EXCEPT ![v] = <<>>] /\ engine \in Engines
    BY DEF Initialize, Inv, VmInv, Shape, Stage
  <1>2. Len(<<>>) <= MaxDepth /\ "Ok" \in FailStates
    BY VmStartAssumption DEF FailStates
  <1>3. ASSUME NEW w, Set(v, w), Quiet, VmCode(w, <<>>), v = Base => KnowsAbi(w)
        PROVE  CodeInv'
    <2>1. stack' = [stack EXCEPT ![v] = <<>>]
      BY <1>1, <1>3 DEF Quiet
    <2> QED BY <1>3, <2>1, OneVmCode
  <1>4. CASE wasm[v].vm = NoVm
    <2>1. Set(v, Reject(wasm[v])) /\ Quiet
      BY <1>4 DEF Initialize
    <2>2. Keeps(Reject(wasm[v]), wasm[v])
      BY <1>1, <1>2, FailuresKeep
    <2>3. VmCode(wasm[v], stack[v]) /\ (v = Base => KnowsAbi(wasm[v]))
      BY DEF CodeInv
    <2> HIDE DEF Reject
    <2> QED BY <1>2, <1>3, <2>1, <2>2, <2>3, KeepsCode
  <1>5. CASE wasm[v].vm # NoVm
    <2>1. PICK l \in LoadFromBase(v) :
              IF l.at = "rejected" THEN Set(v, l) /\ Quiet
              ELSE \E w \in Link(v, [l EXCEPT !.abi = AbiOf(v, l)]) :
                 LET r == Resolve(w)
                     begins == Instantiates(v) /\ StartPlan(r.fns) # <<>>
                 IN IF w.at = "rejected" THEN Set(v, w) /\ Quiet
                    ELSE /\ Set(v, IF begins THEN Start(r) ELSE Finish(r))
                         /\ stack' = IF begins
                                     THEN [stack EXCEPT ![v] = <<Head(StartPlan(r.fns))>>]
                                     ELSE stack
      BY <1>5, Zenon DEF Initialize
    <2>2. IsWasm(l) /\ VmCode(l, <<>>) /\ (v = Base => KnowsAbi(l))
      BY <1>1, <1>5, LoadedCode
    <2>3. Midway(v, l, IF Instantiates(v) THEN "loaded" ELSE "linked")
      BY <1>1, <1>5, LoadedMidway
    <2>4. CASE l.at = "rejected"
      <3>1. Set(v, l) /\ Quiet
        BY <2>1, <2>4
      <3> QED BY <1>3, <2>2, <3>1
    <2>5. CASE l.at # "rejected"
      <3> DEFINE m == [l EXCEPT !.abi = AbiOf(v, l)]
      <3>1. PICK w \in Link(v, m) :
                 LET r == Resolve(w)
                     begins == Instantiates(v) /\ StartPlan(r.fns) # <<>>
                 IN IF w.at = "rejected" THEN Set(v, w) /\ Quiet
                    ELSE /\ Set(v, IF begins THEN Start(r) ELSE Finish(r))
                         /\ stack' = IF begins
                                     THEN [stack EXCEPT ![v] = <<Head(StartPlan(r.fns))>>]
                                     ELSE stack
        BY <2>1, <2>5
      <3>2. l.vm.phase = IF Instantiates(v) THEN "loaded" ELSE "linked"
        BY <2>3, <2>5 DEF Midway
      <3>3. AbiOf(v, l) \in Abis /\ (v = Base => AbiOf(v, l) = l.abi)
        <4>1. Base \in Vms
          BY DEF Vms
        <4> QED BY <2>2, <4>1 DEF AbiOf, CodeInv, VmCode, Kinds
      <3>4. /\ IsWasm(m) /\ m.abi = AbiOf(v, l) /\ m.vm = l.vm /\ m.failed = l.failed
        BY <2>2 DEF IsWasm
      <3> HIDE DEF m
      <3>5. VmCode(m, <<>>) /\ (v = Base => KnowsAbi(m))
        BY <2>2, <3>3, <3>4 DEF VmCode, Kinds, HoldsCode, KnowsAbi
      <3>6. IsWasm(w) /\ VmCode(w, <<>>) /\ (v = Base => KnowsAbi(w))
        BY <1>1, <3>2, <3>4, <3>5, LinkedCode
      <3>7. CASE w.at = "rejected"
        <4>1. Set(v, w) /\ Quiet
          BY <3>1, <3>7
        <4> QED BY <1>3, <3>6, <4>1
      <3>8. CASE w.at # "rejected"
        <4> DEFINE r == Resolve(w)
                   begins == Instantiates(v) /\ StartPlan(r.fns) # <<>>
                   x == IF begins THEN Start(r) ELSE Finish(r)
                   s == IF begins THEN <<Head(StartPlan(r.fns))>> ELSE <<>>
        <4>1. /\ Set(v, x)
              /\ stack' = IF begins THEN [stack EXCEPT ![v] = <<Head(StartPlan(r.fns))>>] ELSE stack
          BY <3>1, <3>8
        <4>2. stack' = [stack EXCEPT ![v] = s]
          BY <1>1, <4>1
        <4>3. Keeps(r, w)
          BY <3>6, ResolveKeeps DEF VmCode, Kinds
        <4> HIDE DEF r
        <4>4. Keeps(x, r)
          BY <4>3, EndKeeps DEF Keeps
        <4>5. Len(s) <= MaxDepth
          BY VmStartAssumption
        <4> HIDE DEF x, s
        <4>6. VmCode(x, s) /\ (v = Base => KnowsAbi(x))
          <5>1. Keeps(x, w)
            BY <4>3, <4>4, KeepsTwice
          <5> QED BY <3>6, <4>5, <5>1, KeepsCode
        <4> QED BY <4>1, <4>2, <4>6, OneVmCode
      <3> QED BY <3>7, <3>8
    <2> QED BY <2>4, <2>5
  <1> QED BY <1>4, <1>5

(* Guest calls that end and that begin. *)
LEMMA EndsCode ==
  ASSUME Inv, CodeInv, NEW v \in Vms, stack[v] # <<>>, NEW w0, Keeps(w0, wasm[v]), Ends(v, w0)
  PROVE  CodeInv'
  <1> DEFINE rest == Front(stack[v])
             w == IF Top(v) = "malloc" THEN [w0 EXCEPT !.vm.restricted = AnyFunction] ELSE w0
             next == w.at = "starting" /\ rest = <<>>
             x == IF ~next THEN w ELSE IF w.plan # <<>> THEN [w EXCEPT !.plan = Tail(@)] ELSE Finish(w)
             s == IF next /\ w.plan # <<>> THEN <<Head(w.plan)>> ELSE rest
  <1>1. Set(v, x) /\ stack' = [stack EXCEPT ![v] = s]
    BY DEF Ends
  <1>2. VmCode(wasm[v], stack[v]) /\ (v = Base => KnowsAbi(wasm[v])) /\ stack[v] \in Seq(GuestFunctions)
    BY DEF CodeInv, Inv, VmInv, Shape
  <1>3. Keeps(w0, wasm[v]) /\ IsWasm(w0)
    BY DEF Keeps
  <1>4. Keeps(w, w0)
    <2>1. CASE Top(v) = "malloc"
      BY <1>3, <2>1, EndKeeps
    <2>2. CASE Top(v) # "malloc"
      BY <1>3, <2>2 DEF Keeps
    <2> QED BY <2>1, <2>2
  <1>5. Len(s) <= MaxDepth
    <2>1. Len(stack[v]) \in Nat \ {0} /\ Len(rest) = Len(stack[v]) - 1
      BY <1>2, Popped
    <2>2. Len(stack[v]) <= MaxDepth /\ MaxDepth \in Nat \ {0}
      BY <1>2, VmStartAssumption DEF VmCode, Kinds
    <2> HIDE DEF rest, next, w
    <2>3. Len(rest) <= MaxDepth /\ Len(<<Head(w.plan)>>) <= MaxDepth
      BY <2>1, <2>2
    <2> QED BY <2>3
  <1> HIDE DEF w
  <1>6. Keeps(x, w)
    <2>1. IsWasm(w)
      BY <1>4 DEF Keeps
    <2>2. Keeps(w, w) /\ Keeps([w EXCEPT !.plan = Tail(@)], w) /\ Keeps(Finish(w), w)
      <3>1. [w EXCEPT !.plan = Tail(@)] = [w EXCEPT !.plan = Tail(w.plan)]
        BY <2>1 DEF IsWasm
      <3>2. Keeps([w EXCEPT !.plan = Tail(w.plan)], w) /\ Keeps(Finish(w), w)
        BY <2>1, EndKeeps
      <3> QED BY <2>1, <3>1, <3>2 DEF Keeps
    <2> QED BY <2>2
  <1> HIDE DEF x, s
  <1>7. Keeps(x, wasm[v])
    BY <1>3, <1>4, <1>6, KeepsTwice
  <1>8. VmCode(x, s) /\ (v = Base => KnowsAbi(x))
    BY <1>2, <1>5, <1>7, KeepsCode
  <1> QED BY <1>1, <1>8, OneVmCode

LEMMA PushCode ==
  ASSUME Inv, CodeInv, NEW v \in Vms, NEW f, NEW w, Keeps(w, wasm[v]), Len(stack[v]) # MaxDepth,
         Set(v, w), Push(v, f)
  PROVE  CodeInv'
  <1>1. VmCode(wasm[v], stack[v]) /\ (v = Base => KnowsAbi(wasm[v])) /\ stack[v] \in Seq(GuestFunctions)
    BY DEF CodeInv, Inv, VmInv, Shape
  <1>2. stack' = [stack EXCEPT ![v] = Append(stack[v], f)]
    BY DEF Push
  <1>3. Len(Append(stack[v], f)) <= MaxDepth
    <2>1. Len(stack[v]) \in Nat /\ Len(stack[v]) <= MaxDepth
      BY <1>1 DEF VmCode, Kinds
    <2>2. Len(Append(stack[v], f)) = Len(stack[v]) + 1
      BY <1>1
    <2> QED BY <2>1, <2>2, VmStartAssumption
  <1>4. VmCode(w, Append(stack[v], f)) /\ (v = Base => KnowsAbi(w))
    BY <1>1, <1>3, KeepsCode
  <1> QED BY <1>2, <1>4, OneVmCode

LEMMA GuestCode ==
  ASSUME Inv, CodeInv, NEW v \in Vms,
         \/ GuestEnds(v)
         \/ \E f \in CommonFunctions : CallsHost(v, f)
         \/ \E f \in {"on_vm_start", "on_request_headers", "on_foreign_function"} : HostCalls(v, f)
  PROVE  CodeInv'
  <1>1. IsWasm(wasm[v]) /\ Keeps(wasm[v], wasm[v]) /\ engine \in Engines
    BY DEF Inv, VmInv, Shape, Keeps
  <1>2. CASE GuestEnds(v)
    <2>1. PICK state \in EngineCall(engine) :
              Ends(v, IF state = "Ok" THEN wasm[v] ELSE VmFails(wasm[v], state))
      BY <1>2, Zenon DEF GuestEnds
    <2> DEFINE w0 == IF state = "Ok" THEN wasm[v] ELSE VmFails(wasm[v], state)
    <2>2. Keeps(w0, wasm[v]) /\ stack[v] # <<>>
      BY <1>1, <1>2, CallStates, FailuresKeep DEF GuestEnds
    <2> QED BY <2>1, <2>2, EndsCode
  <1>3. ASSUME NEW f \in CommonFunctions, CallsHost(v, f) PROVE CodeInv'
    <2>1. stack[v] # <<>>
      BY <1>3 DEF CallsHost
    <2>2. CASE Ends(v, VmFails(wasm[v], "RuntimeError"))
      <3>1. Keeps(VmFails(wasm[v], "RuntimeError"), wasm[v])
        BY <1>1, FailuresKeep DEF FailStates
      <3> QED BY <2>1, <2>2, <3>1, EndsCode
    <2>3. CASE /\ Set(v, [wasm[v] EXCEPT !.vm.restricted = AllowedInMalloc])
               /\ Push(v, "malloc") /\ Len(stack[v]) # MaxDepth
      <3> DEFINE w == [wasm[v] EXCEPT !.vm.restricted = AllowedInMalloc]
      <3>1. Keeps(w, wasm[v])
        BY <1>1, EndKeeps
      <3>2. Set(v, w) /\ Push(v, "malloc")
        BY <2>3
      <3> HIDE DEF w
      <3> QED BY <2>3, <3>1, <3>2, PushCode
    <2>4. CASE /\ Push(v, "on_foreign_function") /\ UNCHANGED <<engine, config, code, wasm>>
               /\ Len(stack[v]) # MaxDepth
      <3>1. Set(v, wasm[v]) /\ Push(v, "on_foreign_function")
        BY <2>4 DEF Set, Inv
      <3> QED BY <1>1, <2>4, <3>1, PushCode
    <2> QED BY <1>3, <2>2, <2>3, <2>4 DEF CallsHost
  <1>4. ASSUME NEW f \in {"on_vm_start", "on_request_headers", "on_foreign_function"}, HostCalls(v, f)
        PROVE  CodeInv'
    <2>1. stack[v] = <<>> /\ Push(v, f) /\ UNCHANGED <<engine, config, code, wasm>>
      BY <1>4 DEF HostCalls
    <2>2. Set(v, wasm[v]) /\ Len(stack[v]) # MaxDepth
      BY <2>1, VmStartAssumption DEF Set, Inv
    <2> QED BY <1>1, <2>1, <2>2, PushCode
  <1> QED BY <1>2, <1>3, <1>4

LEMMA CodeKept == Inv /\ CodeInv => CodeIsKept
  <1> SUFFICES ASSUME Inv, CodeInv PROVE CodeIsKept
    OBVIOUS
  <1>1. TypeOK
    <2>1. engine \in Engines /\ code \in DOMAIN Codes
      BY DEF Inv, CodeInv
    <2>2. ASSUME NEW v \in Vms
          PROVE  /\ wasm[v].at \in {"none", "created", "loaded", "starting", "ready", "rejected"}
                 /\ wasm[v].failed \in FailStates /\ wasm[v].abi \in Abis
                 /\ wasm[v].vm.phase \in {"absent", "new", "loaded", "linked"}
                 /\ Len(stack[v]) \in 0 .. MaxDepth
      <3>1. wasm[v].at \in {"none", "created", "loaded", "starting", "ready", "rejected"}
            /\ stack[v] \in Seq(GuestFunctions)
        BY DEF Inv, VmInv, Shape, Stage
      <3>2. Kinds(wasm[v], stack[v])
        BY DEF CodeInv, VmCode
      <3>3. Len(stack[v]) \in Nat
        BY <3>1
      <3> QED BY <3>1, <3>2, <3>3, VmStartAssumption DEF Kinds
    <2> QED BY <2>1, <2>2 DEF TypeOK
  <1>2. ASSUME NEW v \in Vms, engine # "null", wasm[v].vm.phase \in {"loaded", "linked"}
        PROVE  /\ SameCore(wasm[v].vm.code.sections, SectionsOf(Configured))
               /\ \A i \in DOMAIN wasm[v].vm.code.sections : ~Precompiled(wasm[v].vm.code.sections[i])
               /\ GetAbiVersion([Configured EXCEPT !.sections = wasm[v].vm.code.sections])
                    = [ok |-> TRUE, abi |-> wasm[Base].abi]
    <2>1. Accepted(Configured) /\ wasm[v].vm.code = CodeOf(Configured)
      BY <1>2 DEF CodeInv, VmCode, HoldsCode
    <2>2. wasm[Base].abi = GetAbiVersion(Configured).abi
      <3>1. CASE v = Base
        BY <1>2, <3>1 DEF CodeInv, KnowsAbi
      <3>2. CASE v # Base
        <4>1. wasm[v].at # "none"
          <5>1. NoWasm.vm.phase = "absent"
            BY NewVms DEF NoWasm
          <5>2. wasm[v].at = "none" => wasm[v] = NoWasm
            BY DEF Inv, VmInv, Stage
          <5> QED BY <1>2, <5>1, <5>2
        <4>2. wasm[Base].at = "ready"
          BY <3>2, <4>1 DEF Inv, VmInv, Origin
        <4> QED BY <1>2, <4>2, BaseHolds
      <3> QED BY <3>1, <3>2
    <2> QED BY <1>2, <2>1, <2>2, AcceptedAbi DEF CodeInv
  <1> QED BY <1>1, <1>2 DEF CodeIsKept, Configured

(* A VM of whatever engine, cloned or not, is given the sections of the configured module   *)
(* that are not custom, in order and none twice, no compiled code among them, and they tell  *)
(* the ABI that was found in the file (WasmBase::load, getStrippedSource, clone).           *)
THEOREM CodeSurvives == Spec => []CodeIsKept
  <1>1. Init => CodeInv
    <2> SUFFICES ASSUME Init PROVE CodeInv
      OBVIOUS
    <2>1. wasm = [v \in Vms |-> NoWasm] /\ stack = [v \in Vms |-> <<>>] /\ code \in DOMAIN Codes /\ Base \in Vms
      BY DEF Init, Vms
    <2>2. NoWasm.failed = "Ok" /\ NoWasm.abi = "Unknown" /\ NoWasm.vm.phase = "absent" /\ Len(<<>>) <= MaxDepth
      BY VmStartAssumption, NewVms DEF NoWasm
    <2>3. VmCode(NoWasm, <<>>) /\ KnowsAbi(NoWasm)
      BY <2>2 DEF VmCode, Kinds, HoldsCode, KnowsAbi, FailStates, Abis
    <2> QED BY <2>1, <2>3 DEF CodeInv
  <1>2. Inv /\ CodeInv /\ [Next]_vars => CodeInv'
    <2> SUFFICES ASSUME Inv, CodeInv, [Next]_vars PROVE CodeInv'
      OBVIOUS
    <2>1. CASE UNCHANGED vars
      BY <2>1 DEF vars, CodeInv, KnowsAbi, VmCode, Kinds, HoldsCode, Configured, Accepted, CodeOf, CompiledSection
    <2> QED BY <2>1, CreateBaseCode, LoadCode, CreateCloneCode, InitializeCode, GuestCode DEF Next
  <1> QED BY <1>1, <1>2, InitInv, NextInv, CodeKept, PTL DEF Spec
=============================================================================
