--------------------------- MODULE MCSharedData ---------------------------
(* Two worker VMs with one vm_id and a third VM with another; a 2-bit cas  *)
(* counter (values 1..3), so that it wraps within MaxWrites stores.        *)
EXTENDS SharedData, TLC

CONSTANTS c1, c2, c3, vmA, vmB, k1, k2, v1

MCVmIdOf == (c1 :> vmA) @@ (c2 :> vmA) @@ (c3 :> vmB)

Symmetry == Permutations({c1, c2}) \cup Permutations({k1, k2})
============================================================================
