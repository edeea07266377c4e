----------------------------- MODULE MCWasmManager -----------------------------
(* Two threads, two names and the empty one, and ids that come round. *)
EXTENDS WasmManager, TLC

CONSTANTS t1, t2
MCThreads == {t1, t2}
MCNames == {NoName, "v1"}
Symmetry == Permutations(MCThreads)
=============================================================================
