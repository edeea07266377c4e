------------------------------ MODULE VmIdHandle ------------------------------
(***************************************************************************)
(* The handle that the base WasmBase objects with one vm_id share           *)
(* (src/vm_id_handle.cc, include/proxy-wasm/vm_id_handle.h; WasmBase holds  *)
(* it in vm_id_handle_; a clone has none and keeps its base VM alive).       *)
(* When the last of them lets go, the destructor of                         *)
(* the handle runs the registered callbacks, which delete what SharedData   *)
(* and SharedQueue keep for the vm_id, and removes the handle from the map. *)
(*                                                                         *)
(* A std::shared_ptr runs the destructor after its count has become 0, and  *)
(* only the destructor takes the mutex: another thread may come in between. *)
(* A thread is in at most one destructor and does nothing else meanwhile.   *)
(*                                                                         *)
(* A handle is named after the WasmBase whose constructor made it.          *)
(* No name here is one of BaseVms.tla, so that both can be extended at once. *)
(***************************************************************************)
EXTENDS Integers, Sequences

CONSTANTS
    Threads,
    Wasms,      \* WasmBase objects; each is created and destroyed at most once
    VmIds,
    WasmVmId,   \* WasmVmId[w]: vm_id of WasmBase w
    Stores,     \* what registers a callback: SharedData, SharedQueue
    NoHandle

ASSUME WasmsAssumption == WasmVmId \in [Wasms -> VmIds]
ASSUME NoHandleAssumption == NoHandle \notin Wasms

VARIABLES
    handles,    \* getVmIdHandles(): vm_id -> weak pointer to a handle
    phase,      \* of each handle: "unborn", "live", then in its destructor "dying" before
                \* it has the mutex and "locked" while it has it, "dead"
    holds,      \* vm_id_handle_ of each WasmBase
    used,       \* WasmBase objects that have been created
    running,    \* the handle whose destructor a thread is in
    callbacks,  \* getVmIdHandlesCallbacks(): the stores that have registered
    next,       \* how many callbacks the locked destructor has run
    stored      \* store, vm_id -> ghost: the handles under which its contents were written

handleVars == <<handles, phase, holds, used, running, callbacks, next, stored>>

HandlesTypeOK ==
    /\ handles \in [VmIds -> Wasms \cup {NoHandle}]
    /\ phase \in [Wasms -> {"unborn", "live", "dying", "locked", "dead"}]
    /\ holds \in [Wasms -> Wasms \cup {NoHandle}]
    /\ used \in SUBSET Wasms
    /\ running \in [Threads -> Wasms \cup {NoHandle}]
    /\ callbacks \in Seq(Stores)
    /\ \A i, j \in 1..Len(callbacks) : callbacks[i] = callbacks[j] => i = j
    /\ next \in 0..Len(callbacks)
    /\ stored \in [Stores \X VmIds -> SUBSET Wasms]

HandlesInit ==
    /\ handles = [v \in VmIds |-> NoHandle]
    /\ phase = [h \in Wasms |-> "unborn"]
    /\ holds = [w \in Wasms |-> NoHandle]
    /\ used = {}
    /\ running = [t \in Threads |-> NoHandle]
    /\ callbacks = <<>>
    /\ next = 0
    /\ stored = [sv \in Stores \X VmIds |-> {}]

-----------------------------------------------------------------------------
Holders(h) == {w \in Wasms : holds[w] = h}
OutsideDtor(t) == running[t] = NoHandle
MutexFree == \A h \in Wasms : phase[h] # "locked"

(* getVmIdHandle returns h: the handle in the map if the weak pointer can    *)
(* still be locked, that is if its count is not 0; otherwise a new one.     *)
GetVmIdHandle(w, h) ==
    LET vm == WasmVmId[w] IN
    IF handles[vm] # NoHandle /\ phase[handles[vm]] = "live"
      THEN h = handles[vm] /\ UNCHANGED <<handles, phase>>
      ELSE /\ h = w
           /\ phase' = [phase EXCEPT ![h] = "live"]
           /\ handles' = [handles EXCEPT ![vm] = h]

(* The constructor of WasmBase. *)
CreateWasm(t, w) ==
    /\ OutsideDtor(t) /\ MutexFree /\ w \notin used
    /\ \E h \in Wasms : GetVmIdHandle(w, h) /\ holds' = [holds EXCEPT ![w] = h]
    /\ used' = used \cup {w}
    /\ UNCHANGED <<running, callbacks, next, stored>>

(* getGlobalSharedData() or getGlobalSharedQueue() for the first time.       *)
BadRegisterCallbackAgain(t, s) ==
    /\ OutsideDtor(t) /\ MutexFree
    /\ callbacks' = Append(callbacks, s)
    /\ UNCHANGED <<handles, phase, holds, used, running, next, stored>>

RegisterCallback(t, s) ==
    /\ OutsideDtor(t) /\ MutexFree
    /\ \A i \in 1..Len(callbacks) : callbacks[i] # s
    /\ callbacks' = Append(callbacks, s)
    /\ UNCHANGED <<handles, phase, holds, used, running, next, stored>>

(* The VM of w stores something: set, or registerQueue and enqueue.          *)
UseStore(t, w, s) ==
    /\ OutsideDtor(t)
    /\ holds[w] # NoHandle
    /\ \E i \in 1..Len(callbacks) : callbacks[i] = s
    /\ stored' = [stored EXCEPT ![<<s, WasmVmId[w]>>] = @ \cup {holds[w]}]
    /\ UNCHANGED <<handles, phase, holds, used, running, callbacks, next>>

(* ~WasmBase releases its reference; the last release enters ~VmIdHandle.    *)
DestroyWasm(t, w) ==
    /\ OutsideDtor(t)
    /\ holds[w] # NoHandle
    /\ holds' = [holds EXCEPT ![w] = NoHandle]
    /\ IF Holders(holds[w]) = {w}
         THEN /\ phase' = [phase EXCEPT ![holds[w]] = "dying"]
              /\ running' = [running EXCEPT ![t] = holds[w]]
         ELSE UNCHANGED <<phase, running>>
    /\ UNCHANGED <<handles, used, callbacks, next, stored>>

DtorLock(t) ==
    /\ ~OutsideDtor(t) /\ phase[running[t]] = "dying" /\ MutexFree
    /\ phase' = [phase EXCEPT ![running[t]] = "locked"]
    /\ next' = 0
    /\ UNCHANGED <<handles, holds, used, running, callbacks, stored>>

(* The callback of one store: SharedData::deleteByVmId and                  *)
(* SharedQueue::deleteByVmId.                                               *)
BadDtorCallbackSkipsOne(t) ==
    /\ ~OutsideDtor(t) /\ phase[running[t]] = "locked" /\ next < Len(callbacks)
    /\ stored' = IF next = 0 THEN [stored EXCEPT ![<<callbacks[1], WasmVmId[running[t]]>>] = {}]
                             ELSE stored
    /\ next' = next + 1
    /\ UNCHANGED <<handles, phase, holds, used, running, callbacks>>

DtorCallback(t) ==
    /\ ~OutsideDtor(t) /\ phase[running[t]] = "locked" /\ next < Len(callbacks)
    /\ stored' = [stored EXCEPT ![<<callbacks[next + 1], WasmVmId[running[t]]>>] = {}]
    /\ next' = next + 1
    /\ UNCHANGED <<handles, phase, holds, used, running, callbacks>>

BadDtorEraseKeepsEntry(t) ==
    /\ ~OutsideDtor(t) /\ phase[running[t]] = "locked" /\ next = Len(callbacks)
    /\ handles' = handles
    /\ phase' = [phase EXCEPT ![running[t]] = "dead"]
    /\ next' = 0
    /\ running' = [running EXCEPT ![t] = NoHandle]
    /\ UNCHANGED <<holds, used, callbacks, stored>>

BadDtorEraseKeepsMutex(t) ==
    /\ ~OutsideDtor(t) /\ phase[running[t]] = "locked" /\ next = Len(callbacks)
    /\ handles' = [handles EXCEPT ![WasmVmId[running[t]]] = NoHandle]
    /\ running' = [running EXCEPT ![t] = NoHandle]
    /\ UNCHANGED <<phase, next, holds, used, callbacks, stored>>

(* The entry of the vm_id is erased, whichever handle it names by now.       *)
DtorErase(t) ==
    /\ ~OutsideDtor(t) /\ phase[running[t]] = "locked" /\ next = Len(callbacks)
    /\ handles' = [handles EXCEPT ![WasmVmId[running[t]]] = NoHandle]
    /\ phase' = [phase EXCEPT ![running[t]] = "dead"]
    /\ next' = 0
    /\ running' = [running EXCEPT ![t] = NoHandle]
    /\ UNCHANGED <<holds, used, callbacks, stored>>

Dtor(t) == DtorLock(t) \/ DtorCallback(t) \/ DtorErase(t)

HandlesNext ==
    \E t \in Threads :
        \/ \E w \in Wasms :
              \/ CreateWasm(t, w)
              \/ DestroyWasm(t, w)
              \/ \E s \in Stores : UseStore(t, w, s)
        \/ \E s \in Stores : RegisterCallback(t, s)
        \/ Dtor(t)

HandlesSpec == HandlesInit /\ [][HandlesNext]_handleVars

(* A thread that is in a destructor goes on. *)
HandlesFairSpec == HandlesSpec /\ \A t \in Threads : WF_handleVars(Dtor(t))

-----------------------------------------------------------------------------
(* Nothing that was stored under a handle is left when the handle's           *)
(* destructor is done, whichever threads and other handles of the vm_id were  *)
(* about: shared data and queues do not leak from one life of a vm_id to the  *)
(* next.                                                                      *)
NothingOutlivesItsHandle ==
    \A sv \in Stores \X VmIds : \A h \in stored[sv] : phase[h] # "dead"

(* The map never names a handle that has been destroyed, and a handle it      *)
(* names is one of that vm_id.                                                *)
MapNamesNoGhost ==
    \A vm \in VmIds : handles[vm] # NoHandle =>
        phase[handles[vm]] # "dead" /\ WasmVmId[handles[vm]] = vm

(* test/vm_id_handle_test.cc: the callbacks are not called while somebody     *)
(* holds a handle of the vm_id: no VM loses the shared data and queues it is  *)
(* using.  The code keeps this on one thread and breaks it on two.            *)
CallbacksOnlyAfterLast ==
    \A h \in Wasms : phase[h] = "locked" =>
        \A w \in Wasms : holds[w] # NoHandle => WasmVmId[w] # WasmVmId[h]

(* A handle that was let go by everybody is destroyed, and its vm_id cleaned. *)
ReleasedHandlesDie == \A h \in Wasms : phase[h] = "dying" ~> phase[h] = "dead"
=============================================================================
