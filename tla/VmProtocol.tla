------------------------------ MODULE VmProtocol ------------------------------
(***************************************************************************)
(* How a WasmVm may be used, as wasm_vm.h tells: code is loaded first, linked   *)
(* once after that, and functions are only called in a linked VM.  A clone has    *)
(* the code of a VM that is loaded.                                            *)
(***************************************************************************)
CONSTANTS Vms

VARIABLES
    phase,      \* VM -> "absent", "new", "loaded" or "linked"
    inside      \* VMs whose guest is being executed

Phases == {"absent", "new", "loaded", "linked"}

Init == phase = [v \in Vms |-> "absent"] /\ inside = {}

Create(v, p) ==
    /\ phase[v] = "absent"
    /\ p = "new" \/ \E b \in Vms : phase[b] \in {"loaded", "linked"} /\ p \in {"loaded", phase[b]}
    /\ phase' = [phase EXCEPT ![v] = p]
    /\ UNCHANGED inside

(* Loading and linking may be done in one step of the host. *)
Advance(v, p) ==
    /\ v \notin inside
    /\ <<phase[v], p>> \in {<<"new", "loaded">>, <<"new", "linked">>, <<"loaded", "linked">>}
    /\ phase' = [phase EXCEPT ![v] = p]

Enter(v) == phase'[v] = "linked" /\ inside' = inside \cup {v}
Leave(v) == inside' = inside \ {v} /\ UNCHANGED phase

Next ==
    \E v \in Vms :
        \/ \E p \in Phases : Create(v, p)
        \/ \E p \in Phases : Advance(v, p) /\ (UNCHANGED inside \/ Enter(v))
        \/ Enter(v) /\ UNCHANGED phase
        \/ Leave(v)

Protocol == Init /\ [][Next]_<<phase, inside>>
=============================================================================
