------------------------------ MODULE StreamCalls ------------------------------
(***************************************************************************)
(* The handlers of the stream contexts of one VM (src/context.cc:           *)
(* onNetworkNewConnection to onResponseMetadata, onHttpCallResponse to       *)
(* onGrpcClose, the CHECK_FAIL macros, DeferAfterCallActions and the          *)
(* conversions of the guest's answer), with the host function               *)
(* send_local_response (src/exports.cc), whose work in the host may call      *)
(* another handler before it returns.                                       *)
(*                                                                         *)
(* A handler that the guest does not export returns Continue and is left     *)
(* out.  The handlers that return nothing are the kind "void".  A status is  *)
(* the number that the ABI gives it; 0 is Continue in all of them.           *)
(***************************************************************************)
EXTENDS Naturals, Sequences, FiniteSets

CONSTANTS
    Streams,
    KindsOf,    \* KindsOf[s]: the kinds of handlers that stream s gets
    FailOpen,   \* the streams whose plugin is fail_open
    MaxDepth,   \* bound on the nesting of handlers
    NoStream

Kinds == {"headers", "data", "trailers", "metadata", "network", "void"}

ASSUME KindsAssumption == KindsOf \in [Streams -> SUBSET Kinds]
ASSUME FailOpenAssumption == FailOpen \subseteq Streams
ASSUME NoStreamAssumption == NoStream \notin Streams
ASSUME MaxDepthAssumption == MaxDepth \in Nat

VARIABLES
    failed,         \* the VM has failed
    stop,           \* stop_iteration_
    streamFailed,   \* streams whose stream_failed_ is set
    closes,         \* how often failStream was called for both directions of a stream
    stack,          \* running handlers, the innermost first
    last            \* ghost: the last handler that has returned

vars == <<failed, stop, streamFailed, closes, stack, last>>

(* The largest status of a kind, and what a handler returns to stop the stream. *)
Largest == [headers |-> 4, data |-> 3, trailers |-> 1, metadata |-> 0, network |-> 1, void |-> 0]
Stopped == [headers |-> 4, data |-> 3, trailers |-> 1, metadata |-> 0, network |-> 1, void |-> 0]
Answers == 0..5

(* A handler is in the guest, in the host (send_local_response), or about to     *)
(* return; replied: it has sent a local response; broken: its last check found   *)
(* the VM failed.                                                              *)
Frame == [ctx : Streams, kind : Kinds, at : {"guest", "host", "return"},
          replied : BOOLEAN, broken : BOOLEAN, value : Answers]
NoCall == [ctx |-> NoStream, kind |-> "void", at |-> "return",
           replied |-> FALSE, broken |-> FALSE, value |-> 0]

TypeOK ==
    /\ failed \in BOOLEAN
    /\ stop \in BOOLEAN
    /\ streamFailed \in SUBSET Streams
    /\ closes \in [Streams -> 0..2]
    /\ stack \in Seq(Frame) /\ Len(stack) <= MaxDepth
    /\ last \in Frame \cup {NoCall}
    /\ \A i \in DOMAIN stack : stack[i].value <= Largest[stack[i].kind]

Init ==
    /\ failed = FALSE
    /\ stop = FALSE
    /\ streamFailed = {}
    /\ closes = [s \in Streams |-> 0]
    /\ stack = <<>>
    /\ last = NoCall

-----------------------------------------------------------------------------
Top == Head(stack)
In(phase) == stack # <<>> /\ Top.at = phase

(* CHECK_FAIL with a failed VM: a stream that is not fail-open is closed, once.  *)
BadFailStream(s) ==
    IF s \in FailOpen
      THEN UNCHANGED <<streamFailed, closes>>
      ELSE /\ closes' = [closes EXCEPT ![s] = @ + 1]
           /\ UNCHANGED streamFailed

FailStream(s) ==
    IF s \in FailOpen \cup streamFailed
      THEN UNCHANGED <<streamFailed, closes>>
      ELSE /\ closes' = [closes EXCEPT ![s] = @ + 1]
           /\ streamFailed' = streamFailed \cup {s}

FailedStatus(s, kind) == IF s \in FailOpen THEN 0 ELSE Stopped[kind]

(* convertVmCallResultTo...: a headers handler that wants to stop stops all;     *)
(* metadata always goes on; the network handlers tell zero from the rest.        *)
Convert(kind, answer) ==
    CASE kind = "headers" -> IF stop \/ answer > 4 \/ answer = 1 THEN 4 ELSE answer
      [] kind \in {"data", "trailers"} ->
            IF stop \/ answer > Largest[kind] THEN Stopped[kind] ELSE answer
      [] kind = "network" -> IF answer = 0 THEN 0 ELSE 1
      [] OTHER -> 0

(* The host calls a handler: outside of any other, or from within a host         *)
(* function.  A failed VM is not called.                                       *)
MayCall(s, kind) ==
    /\ stack = <<>> \/ In("host")
    /\ kind \in KindsOf[s]

Called(s, kind) ==
    [ctx |-> s, kind |-> kind, at |-> "guest", replied |-> FALSE, broken |-> FALSE, value |-> 0]

Replied(f) ==
    [ctx |-> f.ctx, kind |-> f.kind, at |-> "guest", replied |-> TRUE, broken |-> f.broken,
     value |-> f.value]
Returning(f, broken, value) ==
    [ctx |-> f.ctx, kind |-> f.kind, at |-> "return", replied |-> f.replied, broken |-> broken,
     value |-> value]

Call(s, kind) ==
    /\ MayCall(s, kind)
    /\ ~failed
    /\ Len(stack) < MaxDepth
    /\ stack' = <<Called(s, kind)>> \o stack
    /\ UNCHANGED <<failed, stop, streamFailed, closes, last>>

CallOnFailedVm(s, kind) ==
    /\ MayCall(s, kind)
    /\ failed
    /\ IF kind = "void" THEN UNCHANGED <<streamFailed, closes>> ELSE FailStream(s)
    /\ last' = Returning(Called(s, kind), TRUE, FailedStatus(s, kind))
    /\ UNCHANGED <<failed, stop, stack>>

(* send_local_response: the host is called first and the flag raised after it.  *)
BadStopAt(moment) == IF moment = "before" THEN TRUE ELSE stop

StopAt(moment) == IF moment = "after" THEN TRUE ELSE stop

SendLocalResponse ==
    /\ In("guest")
    /\ stack' = <<[Top EXCEPT !.at = "host"]>> \o Tail(stack)
    /\ stop' = StopAt("before")
    /\ UNCHANGED <<failed, streamFailed, closes, last>>

LocalResponseSent ==
    /\ In("host")
    /\ stack' = <<Replied(Top)>> \o Tail(stack)
    /\ stop' = StopAt("after")
    /\ UNCHANGED <<failed, streamFailed, closes, last>>

(* The guest returns an answer or traps.  The VM, which a handler called         *)
(* meanwhile may have broken, is checked again before the answer is converted.  *)
GuestReturns(answer, trap) ==
    /\ In("guest")
    /\ failed' = (failed \/ trap)
    /\ LET status == IF failed' THEN FailedStatus(Top.ctx, Top.kind) ELSE Convert(Top.kind, answer)
       IN stack' = <<Returning(Top, failed', status)>> \o Tail(stack)
    /\ IF failed' /\ Top.kind # "void" THEN FailStream(Top.ctx)
                                       ELSE UNCHANGED <<streamFailed, closes>>
    /\ UNCHANGED <<stop, last>>

(* ~DeferAfterCallActions: the flag is cleared and the deferred actions run       *)
(* (WasmLifecycle.tla), in which the guest may trap.  The status is decided.     *)
BadReturn(trap) ==
    /\ In("return")
    /\ failed' = (failed \/ trap)
    /\ last' = Top
    /\ stack' = Tail(stack)
    /\ UNCHANGED <<stop, streamFailed, closes>>

Return(trap) ==
    /\ In("return")
    /\ stop' = FALSE
    /\ failed' = (failed \/ trap)
    /\ last' = Top
    /\ stack' = Tail(stack)
    /\ UNCHANGED <<streamFailed, closes>>

Next ==
    \/ \E s \in Streams, kind \in Kinds : Call(s, kind) \/ CallOnFailedVm(s, kind)
    \/ SendLocalResponse
    \/ LocalResponseSent
    \/ \E answer \in Answers, trap \in BOOLEAN : GuestReturns(answer, trap)
    \/ \E trap \in BOOLEAN : Return(trap)

Spec == Init /\ [][Next]_vars

-----------------------------------------------------------------------------
(* wasm.h: "we ignore FilterHeadersStatus::Continue after a local reponse is     *)
(* sent by the host": a headers, body or trailers handler in which one was sent  *)
(* stops its stream whatever the guest answers and whatever other handlers ran  *)
(* while it was being sent, unless the VM failed and the plugin is fail-open.    *)
(* context.cc: StopIteration "breaks all assumptions about HTTP processing": no   *)
(* headers handler returns it.                                                 *)
LocalResponseStops ==
    /\ last.kind = "headers" => last.value # 1
    /\ (last.replied /\ last.kind \in {"headers", "data", "trailers"})
         => \/ last.value = Stopped[last.kind]
            \/ last.broken /\ last.ctx \in FailOpen

(* The flag is up only while a handler runs that has sent a local response: it   *)
(* stops no later call of any stream.                                          *)
StopIsOwed == TypeOK /\ (stop => \E i \in DOMAIN stack : stack[i].replied)

(* A stream that met a failed VM goes on if its plugin is fail-open; otherwise    *)
(* its handlers stop it and both its directions have been closed exactly once,  *)
(* also if several handlers of it were nested when the VM failed.              *)
FailedVmStopsOrOpens ==
    (last.broken /\ last.kind # "void")
        => IF last.ctx \in FailOpen
             THEN last.value = 0 /\ closes[last.ctx] = 0
             ELSE last.value = Stopped[last.kind] /\ closes[last.ctx] = 1

=============================================================================
