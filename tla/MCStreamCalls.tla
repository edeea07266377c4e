--------------------------- MODULE MCStreamCalls ---------------------------
(* An HTTP stream and a network stream that close when the VM fails, an HTTP  *)
(* stream that stays open; a root context is a stream with void handlers.    *)
EXTENDS StreamCalls, TLC

CONSTANTS http, open, net

MCKindsOf == (http :> {"headers", "data", "void"}) @@ (open :> {"headers", "trailers", "metadata"})
                @@ (net :> {"network"})
============================================================================
