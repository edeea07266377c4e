----------------------------- MODULE MCBaseVms -----------------------------
(* Two plugins that share a base VM and one with another vm_key; base VMs    *)
(* come and go, at most three exist at one time.                           *)
EXTENDS BaseVms, TLC

CONSTANTS k1, k2, p1, p2, p3, b1, b2, b3, t1, t2

MCVmKeyOf == (p1 :> k1) @@ (p2 :> k1) @@ (p3 :> k2)
Symmetry == Permutations({b1, b2, b3})
============================================================================
