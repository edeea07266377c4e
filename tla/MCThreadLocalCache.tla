------------------------ MODULE MCThreadLocalCache ------------------------
(* Two plugins that share a VM and a third on another; VMs fail and are    *)
(* created anew without bound, at most three exist at one time.            *)
EXTENDS ThreadLocalCache, TLC

CONSTANTS k1, k2, p1, p2, p3, v1, v2, v3

MCVmKeyOf == (p1 :> k1) @@ (p2 :> k1) @@ (p3 :> k2)
Symmetry == Permutations({v1, v2, v3})
============================================================================
