------------------------------ MODULE WasmManager ------------------------------
(***************************************************************************)
(* The command line host (proxy_wasm_cli.cc): the threads of its gRPC service, each     *)
(* with a request, and the WasmManager that they share, whose mutex guards no more than   *)
(* its own creation.  The maps of the library are taken to bear concurrent use; the          *)
(* counter of context ids, which is not atomic, is read and written in steps.              *)
(* No name here is one of ThreadLocalCache.tla, so that both can be extended at once.         *)
(***************************************************************************)
EXTENDS Integers, Sequences, SequencesExt, FiniteSets, Functions

CONSTANTS
    Threads,        \* of the gRPC server
    Projects, Names,    \* that clients send; a name may be empty
    IdSpace,        \* the width of the counter of context ids
    MaxInfos,       \* bound on the VMs launched
    MaxPackets      \* bound on the packets of a request

ASSUME WasmManagerAssumption ==
    /\ IdSpace \in Nat /\ IdSpace > 2
    /\ MaxInfos \in Nat /\ MaxPackets \in Nat
    /\ IsFiniteSet(Threads)

NoName == ""
Levels == {"invalid", "debug", "error"}

VARIABLES
    up,             \* whether the process runs
    vms,            \* _wasmVms: key -> place in infos
    infos,          \* the WasmVmInfo objects, which are never deleted, with their VMs
    thread          \* thread -> its request

managerVars == <<up, vms, infos, thread>>

Idle == [doing |-> "nothing", key |-> <<>>, name |-> NoName, level |-> "invalid",
         todo |-> <<>>, made |-> 0, id |-> 0]

ManagerInit ==
    /\ up = TRUE /\ vms = <<>> /\ infos = <<>>
    /\ thread = [t \in Threads |-> Idle]

Becomes(t, request) == thread' = [thread EXCEPT ![t] = request]
Is(t, doing) == up /\ thread[t].doing = doing

(* What a null pointer or one that was never set is good for: the process ends. *)
Crashes == up' = FALSE /\ UNCHANGED <<vms, infos, thread>>
Restarts == ~up /\ up' = TRUE /\ vms' = <<>> /\ infos' = <<>> /\ thread' = [t \in Threads |-> Idle]

-----------------------------------------------------------------------------
(* toWasmLogLevel, for the levels looked at. *)
ToWasmLogLevel(level) == IF level = "error" THEN "error" ELSE "debug"

(* LaunchInstance and NewWasmVM: without a level it is "debug"; a key that is there is     *)
(* answered with success, and nothing is launched.                                    *)
LaunchInstance(t, project, name, level) ==
    LET key == <<project, name>>
    IN
    /\ Is(t, "nothing")
    /\ Len(infos) + Cardinality({u \in Threads : thread[u].doing = "launch"}) < MaxInfos
    /\ key \notin DOMAIN vms
    /\ Becomes(t, [Idle EXCEPT !.doing = "launch", !.key = key,
                               !.level = IF level = "invalid" THEN "debug" ELSE level])
    /\ UNCHANGED <<up, vms, infos>>

(* LaunchVm: the VM info is filled in when everything has succeeded, and stays as it      *)
(* was made if not: without a name and a VM, its pointers not set.  A VM has its root        *)
(* context, with id 1, when it is up.                                                *)
Empty == [name |-> NoName, ready |-> FALSE, level |-> "debug", nextId |-> 0, given |-> {}]
Filled(name, level) ==
    [name |-> name, ready |-> TRUE, level |-> ToWasmLogLevel(level), nextId |-> 2, given |-> {}]
BadLaunchVm(name, level) ==
    {Filled(name, level), [Empty EXCEPT !.name = name]}
LaunchVm(name, level) == {Filled(name, level), Empty}

(* A root context that does not start is a null pointer, which configure then calls. *)
Launches(t) ==
    /\ Is(t, "launch")
    /\ \/ /\ \E info \in LaunchVm(thread[t].key[2], thread[t].level) : infos' = Append(infos, info)
          /\ Becomes(t, [thread[t] EXCEPT !.doing = "register", !.made = Len(infos) + 1])
          /\ UNCHANGED <<up, vms>>
       \/ Crashes

(* Whatever became of it, the VM info is registered, and the client is told of success. *)
Registers(t) ==
    /\ Is(t, "register")
    /\ vms' = [key \in DOMAIN vms \cup {thread[t].key} |->
                 IF key = thread[t].key THEN thread[t].made ELSE vms[key]]
    /\ Becomes(t, Idle)
    /\ UNCHANGED <<up, infos>>

-----------------------------------------------------------------------------
(* ListInstances: the time stamp of every VM info is followed, set or not. *)
ListInstances(t) ==
    /\ Is(t, "nothing") /\ \E key \in DOMAIN vms : ~infos[vms[key]].ready
    /\ Crashes

(* FilterVms: the project is not looked at, nor is the name if it is empty. *)
FilterVms(name) == SetToSeq({i \in Range(vms) : name \in {NoName, infos[i].name}})

(* WasmSettings: on a VM info without a VM the process ends; those before it have the     *)
(* new level by then, but nobody is left to see it.                                  *)
WasmSettings(t, name, level) ==
    LET chosen == ToSet(FilterVms(name))
    IN
    /\ Is(t, "nothing") /\ level # "invalid"
    /\ IF \A i \in chosen : infos[i].ready
       THEN /\ infos' = [i \in DOMAIN infos |->
                            IF i \in chosen THEN [infos[i] EXCEPT !.level = ToWasmLogLevel(level)]
                            ELSE infos[i]]
            /\ UNCHANGED <<up, vms, thread>>
       ELSE Crashes

(* SendTraffic: each packet goes to each VM that was selected at first, whatever the     *)
(* others said to it.                                                               *)
SendTraffic(t, name, packets) ==
    /\ Is(t, "nothing") /\ FilterVms(name) # <<>>
    /\ Becomes(t, [Idle EXCEPT !.doing = "packet", !.name = name,
                               !.todo = FlattenSeq([j \in 1 .. packets |-> FilterVms(name)])])
    /\ UNCHANGED <<up, vms, infos>>

Goal(t) == Head(thread[t].todo)

(* The VM is done with a packet. *)
Processed(t) ==
    LET todo == Tail(thread[t].todo)
    IN Becomes(t, IF todo = <<>> THEN Idle ELSE [thread[t] EXCEPT !.todo = todo, !.doing = "packet"])

(* ProcessTraffic.  Without a VM the parent's id is read through a pointer that was never    *)
(* set, and the constructor of Context goes through the null VM: the process ends.  The       *)
(* other contexts are never deleted, and never registered under their ids: their             *)
(* constructor puts them in the place of the VM context, which leaves 0 registered.          *)
StartsPacket(t) ==
    /\ Is(t, "packet")
    /\ IF infos[Goal(t)].ready
       THEN /\ Becomes(t, [thread[t] EXCEPT !.doing = "count", !.id = infos[Goal(t)].nextId])
            /\ UNCHANGED <<up, vms, infos>>
       ELSE Crashes

(* allocContextId, in the constructor of Context: next_context_id_++, and once more if the    *)
(* id is registered, which are the root's and that of the VM context.                  *)
BadRegistered(i) == {}
Registered(i) == IF infos[i].ready THEN {0, 1} ELSE {}
CountsId(t) ==
    LET i == Goal(t)
        id == thread[t].id
    IN
    /\ Is(t, "count")
    /\ IF id \in Registered(i)
       THEN /\ infos' = [infos EXCEPT ![i].nextId = (id + 1) % IdSpace]
            /\ Becomes(t, [thread[t] EXCEPT !.doing = "packet"])
       ELSE /\ infos' = [infos EXCEPT ![i].nextId = (id + 1) % IdSpace,
                                      ![i].given = @ \cup {id}]
            /\ Becomes(t, [thread[t] EXCEPT !.doing = "call"])
    /\ UNCHANGED <<up, vms>>

(* onCreate and the handler of the headers run in the guest. *)
CallsGuest(t) == Is(t, "call") /\ Processed(t) /\ UNCHANGED <<up, vms, infos>>

-----------------------------------------------------------------------------
ManagerNext ==
    \/ Restarts
    \/ \E t \in Threads :
        \/ Launches(t) \/ Registers(t) \/ ListInstances(t)
        \/ StartsPacket(t) \/ CountsId(t) \/ CallsGuest(t)
        \/ \E name \in Names, level \in Levels :
            \/ \E project \in Projects : LaunchInstance(t, project, name, level)
            \/ WasmSettings(t, name, level)
        \/ \E name \in Names, packets \in 1 .. MaxPackets : SendTraffic(t, name, packets)

ManagerSpec == ManagerInit /\ [][ManagerNext]_managerVars

-----------------------------------------------------------------------------
ManagerTypeOK ==
    /\ up \in BOOLEAN /\ DOMAIN vms \subseteq Projects \X Names
    /\ Range(vms) \subseteq DOMAIN infos /\ Len(infos) <= MaxInfos
    /\ \A t \in Threads : thread[t].doing \in {"nothing", "launch", "register", "packet", "count", "call"}

(* The VMs to which a request by name sends its packets have come up whole and bear that        *)
(* name, whatever launches failed, raced with it or took their place meanwhile; and however      *)
(* the threads count and the ids come round, no stream has got the id of a root or VM context     *)
(* (NewWasmVM and LaunchVm against FilterVms and ProcessTraffic).                              *)
NamedVmsAreSound ==
    /\ ManagerTypeOK
    /\ \A t \in Threads : up /\ thread[t].name # NoName =>
        \A i \in ToSet(thread[t].todo) : infos[i].ready /\ infos[i].name = thread[t].name
    /\ \A i \in DOMAIN infos : infos[i].given \cap {0, 1} = {}
=============================================================================
