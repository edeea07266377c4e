----------------------------- MODULE MCHostCalls -----------------------------
(* Two streams, few enough ids that they come round, and header maps within and beyond    *)
(* the limits. *)
EXTENDS HostCalls

MCHosts == {"v8", "wamr", "null"}
CONSTANTS s1, s2
MCStreams == {s1, s2}
Symmetry == Permutations(MCStreams)
MCHeaderMaps == {<<>>, <<<<<<1>>, <<0, 2>>>>>>, <<<<<<1>>, <<>>>>, <<<<>>, <<1>>>>, <<<<2>>, <<2>>>>>>}
=============================================================================
