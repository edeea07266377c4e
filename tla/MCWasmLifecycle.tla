-------------------------- MODULE MCWasmLifecycle --------------------------
(* A plugin whose root context is created twice, so that the second may meet  *)
(* the first one waiting, and two whose root contexts are created once.      *)
EXTENDS WasmLifecycle, TLC

CONSTANTS k1, k2, k3, c1, c2, c3, c4

MCKeyOf == (c1 :> k1) @@ (c2 :> k1) @@ (c3 :> k2) @@ (c4 :> k3)
============================================================================
