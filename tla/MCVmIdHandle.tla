--------------------------- MODULE MCVmIdHandle ---------------------------
(* Three WasmBase objects of one vm_id: the least with which a destructor  *)
(* can meet a new handle and the new handle's map entry be erased under a  *)
(* third; a fourth of another vm_id.                                       *)
EXTENDS VmIdHandle, TLC

CONSTANTS w1, w2, w3, w4, vmA, vmB

MCWasmVmId == (w1 :> vmA) @@ (w2 :> vmA) @@ (w3 :> vmA) @@ (w4 :> vmB)
============================================================================
