----------------------------- MODULE WasmLifecycle -----------------------------
(***************************************************************************)
(* The root contexts of one VM, from start to the end (src/wasm.cc:         *)
(* WasmBase::start, startShutdown, done, finishShutdown, ~WasmBase;         *)
(* src/context.cc: onDone, onDelete, DeferAfterCallActions; wasm.h:          *)
(* doAfterVmCallActions, ~WasmHandleBase, ~PluginHandleBase).               *)
(*                                                                         *)
(* A VM runs on one thread, but its functions nest: startShutdown calls     *)
(* on_done in the guest, which calls proxy_done, whose deferred action runs  *)
(* finishShutdown when the call returns and before startShutdown sees the    *)
(* answer, which calls on_delete in the guest, and so on.  The model has the *)
(* stack of these activations.  Every call into the guest is one of three:   *)
(* on_done, on_delete, and any other; the guest exports all of them, and     *)
(* on_context_create, so that in_vm_context_created_ holds from onStart on.  *)
(*                                                                         *)
(* The host does not drop a handle during a call into the guest.            *)
(***************************************************************************)
EXTENDS Naturals, FiniteSets, Sequences

CONSTANTS
    Keys,           \* plugin keys
    Contexts,       \* the root contexts that are ever created
    KeyOf,          \* KeyOf[c]: the key of the plugin that context c is created for
    Impersonates,   \* whether the guest calls proxy_set_effective_context before proxy_done
    None

ASSUME KeyOfAssumption == KeyOf \in [Contexts -> Keys]
ASSUME ContextsAssumption == IsFiniteSet(Contexts)
ASSUME NoneAssumption == None \notin Contexts
ASSUME ImpersonatesAssumption == Impersonates \in BOOLEAN

VARIABLES
    rootContexts,   \* root_contexts_
    pendingDone,    \* pending_done_
    pendingDelete,  \* pending_delete_
    gone,           \* the contexts that have been destroyed
    afterVmCall,    \* number of shutdown handles in after_vm_call_actions_
    failed,         \* the VM has failed
    open,           \* the VM's handle exists
    stack,          \* activations, the running one first
    deletes,        \* ghost: on_delete calls of each context
    agreed          \* ghost: contexts that answered on_done with true or called proxy_done

vars == <<rootContexts, pendingDone, pendingDelete, gone, afterVmCall, failed, open, stack,
          deletes, agreed>>
contexts == <<rootContexts, pendingDone, pendingDelete, gone>>

(* The guest is in a handler; the handler has returned and ~DeferAfterCallActions *)
(* runs; finishShutdown or startShutdown is at context ctx, or between two.       *)
Handlers == {"on_done", "on_delete", "other"}
Frame == [op : {"guest"}, handler : Handlers, ctx : Contexts]
           \cup [op : {"after"}, handler : Handlers, ctx : Contexts, answer : BOOLEAN]
           \cup [op : {"finish"}, ctx : Contexts \cup {None}]
           \cup [op : {"shutdown"}, ctx : Contexts \cup {None}, keys : SUBSET Keys]

TypeOK ==
    /\ rootContexts \in [Keys -> Contexts \cup {None}]
    /\ pendingDone \in [Keys -> Contexts \cup {None}]
    /\ pendingDelete \in SUBSET Contexts
    /\ gone \in SUBSET Contexts
    /\ afterVmCall \in 0..Cardinality(Contexts)
    /\ failed \in BOOLEAN
    /\ open \in BOOLEAN
    /\ stack \in Seq(Frame)
    /\ deletes \in [Contexts -> 0..2]
    /\ agreed \in SUBSET Contexts

Init ==
    /\ rootContexts = [k \in Keys |-> None]
    /\ pendingDone = [k \in Keys |-> None]
    /\ pendingDelete = {}
    /\ gone = {}
    /\ afterVmCall = 0
    /\ failed = FALSE
    /\ open = TRUE
    /\ stack = <<>>
    /\ deletes = [c \in Contexts |-> 0]
    /\ agreed = {}

Values(map) == {map[k] : k \in Keys} \ {None}
Existing == Values(rootContexts) \cup Values(pendingDone) \cup pendingDelete
Idle == stack = <<>> /\ open
Top == Head(stack)
Running(op) == stack # <<>> /\ Top.op = op
Below == Tail(stack)
Push(frame) == stack' = <<frame>> \o stack
Replace(frames) == stack' = frames \o Below
GuestCall(handler, c) == [op |-> "guest", handler |-> handler, ctx |-> c]
CountDelete(c) == deletes' = [deletes EXCEPT ![c] = @ + 1]

-----------------------------------------------------------------------------
(* WasmBase::start for a key that has no root context: one is created, which   *)
(* stays whatever its onStart answers, and the guest is called.               *)
Start(c) ==
    /\ Idle
    /\ c \notin Existing \cup gone
    /\ rootContexts[KeyOf[c]] = None
    /\ rootContexts' = [rootContexts EXCEPT ![KeyOf[c]] = c]
    /\ Push(GuestCall("other", c))
    /\ UNCHANGED <<pendingDone, pendingDelete, gone, afterVmCall, failed, open, deletes, agreed>>

(* Any other call of a root context: onConfigure, onTick, onQueueReady, ...       *)
(* Those skip a failed VM; onStart, when start finds the context, and             *)
(* onForeignFunction do not.                                                   *)
CallContext(c) ==
    /\ Idle
    /\ c \in Values(rootContexts) \cup Values(pendingDone)
    /\ Push(GuestCall("other", c))
    /\ UNCHANGED <<contexts, afterVmCall, failed, open, deletes, agreed>>

(* ~PluginHandleBase: startShutdown(k). *)
ReleasePlugin(k) ==
    /\ Idle
    /\ rootContexts[k] # None
    /\ Push([op |-> "shutdown", ctx |-> None, keys |-> {k}])
    /\ UNCHANGED <<contexts, afterVmCall, failed, open, deletes, agreed>>

(* ~WasmHandleBase: startShutdown(). *)
ReleaseWasm ==
    /\ Idle
    /\ open' = FALSE
    /\ Push([op |-> "shutdown", ctx |-> None, keys |-> {k \in Keys : rootContexts[k] # None}])
    /\ UNCHANGED <<contexts, afterVmCall, failed, deletes, agreed>>

(* The last reference to the VM is gone: ~WasmBase. *)
Destroy ==
    /\ ~open
    /\ stack = <<>>
    /\ Existing # {}
    /\ rootContexts' = [k \in Keys |-> None]
    /\ pendingDone' = [k \in Keys |-> None]
    /\ pendingDelete' = {}
    /\ gone' = gone \cup Existing
    /\ UNCHANGED <<afterVmCall, failed, open, stack, deletes, agreed>>

-----------------------------------------------------------------------------
(* startShutdown goes to the next of its root contexts. The context of a VM     *)
(* that has failed is destroyed without a call.                               *)
BadDestroyed(c) ==
    /\ gone' = gone \cup {c}
    /\ UNCHANGED <<rootContexts, pendingDone, pendingDelete>>

Destroyed(c) ==
    /\ gone' = gone \cup {c}
    /\ rootContexts' = [rootContexts EXCEPT ![KeyOf[c]] = None]
    /\ UNCHANGED <<pendingDone, pendingDelete>>

ShutdownNext(k) ==
    LET next == [Top EXCEPT !.keys = @ \ {k}] IN
    /\ Running("shutdown") /\ Top.ctx = None
    /\ k \in Top.keys
    /\ IF failed
         THEN /\ Destroyed(rootContexts[k])
              /\ Replace(<<next>>)
         ELSE /\ Replace(<<GuestCall("on_done", rootContexts[k]),
                           [next EXCEPT !.ctx = rootContexts[k]]>>)
              /\ UNCHANGED contexts
    /\ UNCHANGED <<afterVmCall, failed, open, deletes, agreed>>

BadShutdownEndsWhenAllAreDone ==
    /\ Running("shutdown") /\ Top.ctx = None
    /\ Top.keys = {} /\ Values(pendingDone) = {}
    /\ stack' = Below
    /\ UNCHANGED <<contexts, afterVmCall, failed, open, deletes, agreed>>

ShutdownEnds ==
    /\ Running("shutdown") /\ Top.ctx = None
    /\ Top.keys = {}
    /\ stack' = Below
    /\ UNCHANGED <<contexts, afterVmCall, failed, open, deletes, agreed>>

(* It has the answer of on_done: a context that is not done waits, and takes    *)
(* the place of the one of the same plugin that is waiting, if there is one.   *)
BadWaits(c) ==
    /\ gone' = gone \cup {c}
    /\ rootContexts' = [rootContexts EXCEPT ![KeyOf[c]] = None]
    /\ UNCHANGED <<pendingDone, pendingDelete>>

Waits(c) ==
    LET older == pendingDone[KeyOf[c]] IN
    /\ pendingDone' = [pendingDone EXCEPT ![KeyOf[c]] = c]
    /\ gone' = IF older = None THEN gone ELSE gone \cup {older}
    /\ rootContexts' = [rootContexts EXCEPT ![KeyOf[c]] = None]
    /\ UNCHANGED pendingDelete

ShutdownAnswered ==
    LET c == Top.ctx
        caller == Below[1]
        idle == [caller EXCEPT !.ctx = None]
    IN
    /\ Running("after") /\ afterVmCall = 0
    /\ Below # <<>> /\ caller.op = "shutdown"
    /\ \/ /\ Top.handler = "on_done" /\ ~Top.answer
          /\ Waits(c)
          /\ stack' = <<idle>> \o Tail(Below)
          /\ UNCHANGED deletes
       \/ /\ Top.handler = "on_done" /\ Top.answer /\ ~failed
          /\ Replace(<<GuestCall("on_delete", c)>>)
          /\ CountDelete(c)
          /\ UNCHANGED contexts
       \/ /\ Top.handler = "on_delete" \/ (Top.answer /\ failed)
          /\ Destroyed(c)
          /\ stack' = <<idle>> \o Tail(Below)
          /\ UNCHANGED deletes
    /\ UNCHANGED <<afterVmCall, failed, open, agreed>>

-----------------------------------------------------------------------------
(* The guest calls proxy_done in the name of context e: the waiting context of   *)
(* its plugin is to be deleted after the call.  Without one nothing happens.    *)
BadDoneNoAction(e) ==
    LET c == pendingDone[KeyOf[e]] IN
    /\ c # None
    /\ pendingDone' = [pendingDone EXCEPT ![KeyOf[e]] = None]
    /\ pendingDelete' = pendingDelete \cup {c}
    /\ agreed' = agreed \cup {e}
    /\ UNCHANGED <<rootContexts, gone, afterVmCall>>

BadDoneTakesRoot(e) ==
    LET k == KeyOf[e]
        c == IF pendingDone[k] # None THEN pendingDone[k] ELSE rootContexts[k]
    IN
    /\ c # None
    /\ pendingDone' = [pendingDone EXCEPT ![k] = None]
    /\ rootContexts' = IF pendingDone[k] # None THEN rootContexts
                       ELSE [rootContexts EXCEPT ![k] = None]
    /\ pendingDelete' = pendingDelete \cup {c}
    /\ afterVmCall' = afterVmCall + 1
    /\ agreed' = agreed \cup {e}
    /\ UNCHANGED gone

Done(e) ==
    LET c == pendingDone[KeyOf[e]] IN
    /\ c # None
    /\ pendingDone' = [pendingDone EXCEPT ![KeyOf[e]] = None]
    /\ pendingDelete' = pendingDelete \cup {c}
    /\ afterVmCall' = afterVmCall + 1
    /\ agreed' = agreed \cup {e}
    /\ UNCHANGED <<rootContexts, gone>>

GuestCallsDone ==
    /\ Running("guest")
    /\ \E e \in IF Impersonates THEN Existing ELSE {Top.ctx} : Done(e)
    /\ UNCHANGED <<failed, open, stack, deletes>>

(* The handler returns; a trap makes the VM fail and the answer false. *)
GuestReturns(answer, trap) ==
    /\ Running("guest")
    /\ trap => ~answer
    /\ Replace(<<[op |-> "after", handler |-> Top.handler, ctx |-> Top.ctx, answer |-> answer]>>)
    /\ failed' = (failed \/ trap)
    /\ agreed' = IF Top.handler = "on_done" /\ answer THEN agreed \cup {Top.ctx} ELSE agreed
    /\ UNCHANGED <<contexts, afterVmCall, open, deletes>>

(* ~DeferAfterCallActions runs the next action, which is finishShutdown; ...      *)
RunAction ==
    /\ Running("after") /\ afterVmCall > 0
    /\ afterVmCall' = afterVmCall - 1
    /\ Push([op |-> "finish", ctx |-> None])
    /\ UNCHANGED <<contexts, failed, open, deletes, agreed>>

(* ... or there is none and the call was the host's own.                        *)
CallEnds ==
    /\ Running("after") /\ afterVmCall = 0
    /\ Below = <<>>
    /\ stack' = <<>>
    /\ UNCHANGED <<contexts, afterVmCall, failed, open, deletes, agreed>>

(* finishShutdown takes the next context, in no particular order, ...            *)
FinishNext(c) ==
    /\ Running("finish") /\ Top.ctx = None
    /\ c \in pendingDelete
    /\ IF failed
         THEN /\ pendingDelete' = pendingDelete \ {c}
              /\ gone' = gone \cup {c}
              /\ UNCHANGED <<rootContexts, pendingDone, stack, deletes>>
         ELSE /\ Replace(<<GuestCall("on_delete", c), [Top EXCEPT !.ctx = c]>>)
              /\ CountDelete(c)
              /\ UNCHANGED contexts
    /\ UNCHANGED <<afterVmCall, failed, open, agreed>>

(* ... and erases it after on_delete.  It is undefined what happens if it has    *)
(* been erased meanwhile; the model ends there.                                *)
FinishErases ==
    /\ Running("after") /\ afterVmCall = 0
    /\ Below # <<>> /\ Below[1].op = "finish"
    /\ Top.ctx \in pendingDelete
    /\ pendingDelete' = pendingDelete \ {Top.ctx}
    /\ gone' = gone \cup {Top.ctx}
    /\ stack' = <<[Below[1] EXCEPT !.ctx = None]>> \o Tail(Below)
    /\ UNCHANGED <<rootContexts, pendingDone, afterVmCall, failed, open, deletes, agreed>>

FinishEnds ==
    /\ Running("finish") /\ Top.ctx = None
    /\ pendingDelete = {}
    /\ stack' = Below
    /\ UNCHANGED <<contexts, afterVmCall, failed, open, deletes, agreed>>

Host ==
    \/ \E c \in Contexts : Start(c) \/ CallContext(c)
    \/ \E k \in Keys : ReleasePlugin(k)
    \/ ReleaseWasm

(* What goes on by itself once the host has made a call. *)
Proceed ==
    \/ \E k \in Keys : ShutdownNext(k)
    \/ ShutdownAnswered
    \/ ShutdownEnds
    \/ \E answer, trap \in BOOLEAN : GuestReturns(answer, trap)
    \/ RunAction
    \/ CallEnds
    \/ \E c \in Contexts : FinishNext(c)
    \/ FinishErases
    \/ FinishEnds
    \/ Destroy

Next == Host \/ GuestCallsDone \/ Proceed

Spec == Init /\ [][Next]_vars

(* Handlers of the guest return: the host runs them to the end. *)
FairSpec == Spec /\ WF_vars(Proceed)

-----------------------------------------------------------------------------
(* context_interface.h: onDelete is called "when no further stream calls will    *)
(* occur": on_delete is the last call that the guest gets for a context, and it  *)
(* gets one at most.  While the VM works, the guest has agreed to, and has been   *)
(* told of, the end of every context that was the only one of its plugin.        *)
OnDeleteIsLast ==
    LET others(c) == {d \in (gone \cup Existing) \ {c} : KeyOf[d] = KeyOf[c]} IN
    /\ \A i \in DOMAIN stack :
        stack[i].op = "guest" =>
            deletes[stack[i].ctx] = (IF stack[i].handler = "on_delete" THEN 1 ELSE 0)
    /\ open /\ ~failed =>
        \A c \in gone : others(c) = {} => c \in agreed /\ deletes[c] = 1

(* The context that a loop of startShutdown or finishShutdown is at is still in   *)
(* the container that the loop goes through, whatever ran inside its iteration.  *)
IteratorsStayValid ==
    \A i \in DOMAIN stack :
        /\ (stack[i].op = "finish" /\ stack[i].ctx # None) => stack[i].ctx \in pendingDelete
        /\ (stack[i].op = "shutdown" /\ stack[i].ctx # None)
              => rootContexts[KeyOf[stack[i].ctx]] = stack[i].ctx

(* A unique_ptr owns each context: it is in one place, or has been destroyed; and  *)
(* when no call is going on, no action is left that would keep the VM alive.       *)
OwnedOnce ==
    /\ TypeOK
    /\ stack = <<>> => afterVmCall = 0 /\ pendingDelete = {}
    /\ Values(rootContexts) \cap Values(pendingDone) = {}
    /\ (Values(rootContexts) \cup Values(pendingDone)) \cap pendingDelete = {}
    /\ Existing \cap gone = {}

(* context_interface.h: "false for Root Context(s) if the VM should wait until     *)
(* the Root Context calls the proxy_done() ABI call": while the VM's handle        *)
(* exists and the VM works, a root context is only destroyed after it agreed.     *)
(* The code breaks it for a plugin that is released twice: see Waits.            *)
RootsWaitForDone == (open /\ ~failed) => gone \subseteq agreed

(* A context for which proxy_done was accepted is destroyed in the end.           *)
DoneLeadsToDestruction == \A c \in Contexts : c \in pendingDelete ~> c \in gone

(* Once the handle is gone everything goes: shutdown does not hang.               *)
ShutdownCompletes == ~open ~> (stack = <<>> /\ Existing = {})
=============================================================================
