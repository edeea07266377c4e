--------------------------- MODULE MCSharedQueue ---------------------------
(* Two roots of one vm_id (the same plugin on two threads) and one of       *)
(* another; a token counter that goes round after two registrations.        *)
EXTENDS SharedQueue, TLC

CONSTANTS r1, r2, r3, vmA, vmB, q, m1, m2

MCRootVmId == (r1 :> vmA) @@ (r2 :> vmA) @@ (r3 :> vmB)
============================================================================
