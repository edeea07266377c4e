------------------------------- MODULE HostCalls -------------------------------
(***************************************************************************)
(* Calls between a host thread and a VM: guests call host functions (Exports) in     *)
(* the name of the current or of the effective context, the embedder calls guests       *)
(* in turn while it answers, and makes and destroys the contexts of streams meanwhile    *)
(* (context.cc, wasm_vm.h, wasm.h).  The VM is up; what becomes of its root contexts       *)
(* at shutdown is the matter of WasmLifecycle.                                        *)
(***************************************************************************)
EXTENDS EngineVm, Exports, Pairs, NullPlugin, FiniteSets

CONSTANTS
    Hosts,          \* the engines looked at
    Streams,        \* objects that serve as contexts of streams, one after another
    IdSpace,        \* the width of the counter of context ids
    MemorySize,     \* of the guest
    HeaderMaps,     \* that the embedder may have
    MaxDepth,       \* bound on the nesting of guest calls
    MaxCalls        \* bound on the callouts

(* A guest may hold every stream, the root context and the VM context at a time. *)
ASSUME HostCallsAssumption ==
    /\ Hosts \subseteq Engines
    /\ IsFiniteSet(Streams) /\ {"vm", "root"} \cap Streams = {}
    /\ IdSpace \in Nat \ (0 .. 2) /\ IdSpace >= Cardinality(Streams) + 2
    /\ MemorySize \in Nat /\ MaxDepth \in Nat /\ MaxCalls \in Nat
    /\ HeaderMaps \subseteq HeaderMap

VARIABLES
    engine,         \* the engine of this build
    context,        \* object -> its id and how far it has come
    contexts,       \* contexts_: id -> object
    nextId,         \* next_context_id_
    current,        \* current_context_
    effective,      \* effective_context_id_
    stack,          \* the guest calls, innermost last
    vm,             \* the restriction of host functions, and whether the VM failed
    calls,          \* callout -> whether the guest has its token
    headers,        \* a header map of the host, and what the guest made of it
    plugin          \* the guest of a null VM

vars == <<engine, context, contexts, nextId, current, effective, stack, vm, calls, headers, plugin>>

Objects == {"vm", "root"} \cup Streams
Nobody == "nobody"
NoMap == <<<<<<-1>>, <<>>>>>>          \* none that has bytes in it
Living == {o \in Objects : context[o].stage # "dead"}

(* The host function that runs in a frame: the context it acts on and the steps ahead. *)
NoHost == [f |-> "none", acting |-> Nobody, bad |-> "nothing", steps |-> <<>>]

Init ==
    /\ engine \in Hosts
    /\ context = [o \in Objects |->
                    CASE o = "vm"   -> [id |-> 0, stage |-> "created"]
                      [] o = "root" -> [id |-> 1, stage |-> "created"]
                      [] OTHER      -> [id |-> 0, stage |-> "dead"]]
    /\ contexts = [id \in {0, 1} |-> IF id = 0 THEN "vm" ELSE "root"]
    /\ nextId = 2
    /\ current = Nobody /\ effective = 0 /\ stack = <<>>
    /\ vm = [restricted |-> AnyFunction, failed |-> FALSE]
    /\ calls = <<>>
    /\ headers \in {[host |-> m, meant |-> m, copied |-> <<>>] : m \in HeaderMaps \cup {NoMap}}
    /\ plugin \in {OnCreate(NewPlugin(fs), 1, 0) :
                     fs \in IF engine = "null" THEN SUBSET {"stream"} ELSE {{}}}

-----------------------------------------------------------------------------
(* The callouts that are kept count of; those of gRPC are started the same way, without the     *)
(* token being tried first.                                                            *)
Callouts == {"http_call"}

(* Frames.  SaveRestoreContext keeps what was current and effective in the frame; chosen     *)
(* is what the guest has made effective within it.                                     *)
Top == Last(stack)
Frame(o, event) == [object |-> o, event |-> event, chosen |-> 0, host |-> NoHost,
                    saved |-> [current |-> current, effective |-> effective]]

BadSaveContext(o, event) ==
    /\ stack' = Append(stack, Frame(o, event))
    /\ current' = o /\ UNCHANGED effective
SaveContext(o, event) ==
    /\ stack' = Append(stack, Frame(o, event))
    /\ current' = o /\ effective' = 0

RestoreContext(below) ==
    /\ stack' = below
    /\ current' = Top.saved.current /\ effective' = Top.saved.effective

Asking == {"ask", "ask anyway"}
InHost == stack # <<>> /\ Top.host.steps # <<>>
Step == Head(Top.host.steps)
EmbedderRuns == stack = <<>> \/ (InHost /\ Step \in Asking)

WithTop(frame) == [stack EXCEPT ![Len(stack)] = frame]
Abandoned(frame) == [frame EXCEPT !.host = NoHost]

(* One thread runs it all, so the steps of a host function in which neither a guest nor the     *)
(* embedder runs, and which change nothing here, are taken together with the one before.       *)
(* Of what is left of a function, the context and the pointer are kept if they still matter.     *)
Silent == {"type", "find", "self", "read", "write", "raise"}
Rest(h, steps) ==
    IF steps = <<>> THEN NoHost
    ELSE [h EXCEPT !.steps = steps,
                   !.acting = IF Head(steps) \in Asking /\ Len(steps) = 1 THEN Nobody ELSE h.acting,
                   !.bad = IF h.f \in Callouts \/ "pairs" \in ToSet(steps) THEN h.bad ELSE "nothing"]
Onward(frame) ==
    LET h == frame.host
        stop == SelectInSeq(h.steps, LAMBDA step : step \notin Silent)
        passed == ToSet(IF stop = 0 THEN h.steps ELSE SubSeq(h.steps, 1, stop - 1))
        rest == IF stop = 0 THEN <<>> ELSE SubSeq(h.steps, stop, Len(h.steps))
    IN (IF h.bad \in passed THEN {} ELSE {[frame EXCEPT !.host = Rest(h, rest)]})
           \cup (IF h.bad \in passed \/ passed \cap {"type", "find", "self"} # {}
                 THEN {Abandoned(frame)} ELSE {})

(* A step is over and the function goes on. *)
Advanced(frame) == Onward([frame EXCEPT !.host.steps = Tail(@)])

-----------------------------------------------------------------------------
(* The guest. *)
contextOrEffectiveContext ==
    IF effective # 0 /\ effective \in DOMAIN contexts THEN contexts[effective] ELSE current

Pointers == {0, 2, MemorySize}
PointerUses(steps) == {"read", "write", "copy"} \cap ToSet(steps)
Badly(p, use) == IF InMemory(engine, MemorySize, p, 1) THEN "nothing" ELSE use

AllowedInMalloc == {"log", "fd_write", "clock_time_get"}

(* The functions whose names matter here; of the others it is enough to know the steps. *)
Told == {"set_effective_context", "get_header_map_pairs", "set_header_map_pairs",
         "http_call", "call_foreign_function"} \cup AllowedInMalloc
HostCallsOf(f) == [f |-> IF f \in Told THEN f ELSE "other",
                   root |-> HostFunctions[f].root, steps |-> HostFunctions[f].steps]
AllCalls == {HostCallsOf(f) : f \in DOMAIN HostFunctions}

Runs(call) == HostFunctionRuns(engine, [restricted |-> vm.restricted], call.f)

(* Where the engine does not enforce the restriction, an allocator is taken to keep to it. *)
MayCall(call) ==
    /\ Runs(call) /\ call.steps # <<>>
    /\ "pairs" \in ToSet(call.steps) => headers.meant # NoMap
    /\ Top.event = "malloc" /\ ~EnforcesRestriction(engine) => call.f \in AllowedInMalloc

(* What may become of the frame as the guest calls, with a pointer that is good or bad. *)
Started(call) ==
    LET self == contextOrEffectiveContext
        host(bad) == [f |-> call.f, steps |-> call.steps, bad |-> bad,
                      acting |-> IF ~call.root \/ self = "vm" THEN self ELSE "root"]
    IN UNION {Onward([Top EXCEPT !.host = host(Badly(p, use))]) :
                  p \in Pointers, use \in PointerUses(call.steps) \cup {"nothing"}}

CallsHost ==
    /\ stack # <<>> /\ ~InHost
    /\ \E frame \in UNION {Started(call) : call \in {c \in AllCalls : MayCall(c)}} :
           stack' = WithTop(frame)
    /\ UNCHANGED <<engine, context, contexts, nextId, current, effective, vm, calls, headers, plugin>>

(* A guest call ends.  allocMemory lifts the restriction and goes on with copyToPointerSize,    *)
(* which fails if the allocation did; NullPlugin erases a context after its onDelete.          *)
Ends(trap) ==
    LET below == Front(stack)
        caller == Last(below)
        resumed(ok) ==
            IF Head(caller.host.steps) # "copy" THEN {caller}
            ELSE IF ok /\ caller.host.bad # "copy" THEN Advanced(caller) ELSE {Abandoned(caller)}
    IN
    /\ stack # <<>> /\ ~InHost
    /\ trap => "RuntimeError" \in EngineCall(engine)
    /\ IF Top.event # "malloc" THEN RestoreContext(below)
       ELSE \E allocated \in BOOLEAN : \E frame \in resumed(allocated /\ ~trap) :
                RestoreContext([below EXCEPT ![Len(below)] = frame])
    /\ vm' = [failed |-> vm.failed \/ trap,
              restricted |-> IF Top.event = "malloc" THEN AnyFunction ELSE vm.restricted]
    /\ plugin' = IF engine = "null" /\ Top.event = "delete"
                 THEN OnDelete(plugin, context[Top.object].id) ELSE plugin
    /\ UNCHANGED <<engine, context, contexts, nextId, calls, headers>>

(* A host function that is restricted traps. *)
Restricted ==
    /\ stack # <<>> /\ ~InHost /\ \E call \in AllCalls : ~Runs(call)
    /\ Ends(TRUE)

-----------------------------------------------------------------------------
(* The steps of host functions.  The result that the guest is given is not kept. *)
HostSteps(frames) == stack' = frames /\ UNCHANGED <<engine, context, contexts, nextId, current>>

(* set_effective_context: the id may be that of any context that the VM has. *)
SetsEffective ==
    /\ InHost /\ Step = "effective"
    /\ \E id \in DOMAIN contexts :
           /\ effective' = id
           /\ \E frame \in Advanced([Top EXCEPT !.chosen = id]) : HostSteps(WithTop(frame))
    /\ UNCHANGED <<vm, calls, headers, plugin>>

(* copyToPointerSize: nothing is allocated for a value of no bytes; the null VM allocates      *)
(* without a guest call.                                                             *)
CopiesDirectly ==
    /\ InHost /\ Step = "copy"
    /\ \E frame \in IF Top.host.bad = "copy" THEN {Abandoned(Top)} ELSE Advanced(Top) :
           HostSteps(WithTop(frame))
    /\ UNCHANGED <<effective, vm, calls, headers, plugin>>

BadAllocates ==
    /\ InHost /\ (Step = "copy" \/ (Step = "ask anyway" /\ Top.host.f = "call_foreign_function"))
    /\ engine # "null" /\ Len(stack) < MaxDepth
    /\ SaveContext("vm", "malloc")
    /\ UNCHANGED <<engine, context, contexts, nextId, vm, calls, headers, plugin>>
Allocates ==
    /\ InHost /\ (Step = "copy" \/ (Step = "ask anyway" /\ Top.host.f = "call_foreign_function"))
    /\ engine # "null" /\ Len(stack) < MaxDepth
    /\ SaveContext("vm", "malloc")
    /\ vm' = [vm EXCEPT !.restricted = AllowedInMalloc]
    /\ UNCHANGED <<engine, context, contexts, nextId, calls, headers, plugin>>

(* A header map goes to the guest, or comes back from it, as it was or damaged. *)
MovesPairs ==
    /\ InHost /\ Step = "pairs" /\ headers.meant # NoMap
    /\ \E whole \in BOOLEAN :
           LET sent == MarshalPairs(headers.copied)
               back == IF whole THEN sent ELSE [sent EXCEPT !.text = Append(@, 0)]
           IN headers' =
                  IF Top.host.f = "get_header_map_pairs"
                  THEN [headers EXCEPT !.copied = headers.host]
                  ELSE [headers EXCEPT !.host = ToPairs(back),
                                       !.meant = IF whole THEN headers.copied ELSE <<>>]
    /\ \E frame \in Advanced(Top) : HostSteps(WithTop(frame))
    /\ UNCHANGED <<effective, vm, calls, plugin>>

-----------------------------------------------------------------------------
(* The embedder, outside of any call or while it is asked. *)
Answers ==
    LET f == Top.host.f
        starts(ok) == ok /\ f \in Callouts
        told == Top.host.bad # "write"          \* the token is written after that
    IN
    /\ InHost /\ Step \in Asking
    /\ \E ok \in BOOLEAN :
        /\ \E frame \in IF ok \/ Step = "ask anyway" THEN Advanced(Top) ELSE {Abandoned(Top)} :
               stack' = WithTop(frame)
        /\ starts(ok) => Len(calls) < MaxCalls
        /\ calls' = IF starts(ok) THEN Append(calls, [f |-> f, told |-> told]) ELSE calls
    /\ UNCHANGED <<engine, context, contexts, nextId, current, effective, vm, headers, plugin>>

(* allocContextId: ids go round, those in use are left out; that of the VM context is 0. *)
BadAllocContextId == nextId
AllocContextId ==
    LET free(k) == (nextId + k) % IdSpace \notin DOMAIN contexts
    IN (nextId + CHOOSE k \in 0 .. IdSpace - 1 : free(k) /\ \A j \in 0 .. k - 1 : ~free(j)) % IdSpace

(* The context of a new stream, a child of the root context. *)
MakesContext(s) ==
    LET id == AllocContextId
    IN
    /\ EmbedderRuns /\ s \in Streams /\ context[s].stage = "dead"
    /\ headers.meant = NoMap                 \* bound: header maps without streams
    /\ context' = [context EXCEPT ![s] = [id |-> id, stage |-> "new"]]
    /\ contexts' = [i \in DOMAIN contexts \cup {id} |-> IF i = id THEN s ELSE contexts[i]]
    /\ nextId' = (id + 1) % IdSpace
    /\ UNCHANGED <<engine, current, effective, stack, vm, calls, headers, plugin>>

(* The embedder spares a context in whose call it is, that it is asked about in a call which      *)
(* goes on with it, or that the guest still knows.                                     *)
AskedAbout(o) ==
    \E k \in DOMAIN stack :
        LET h == stack[k].host
        IN h.acting = o /\ Len(h.steps) > 1 /\ Head(h.steps) \in Asking
DestroysContext(s) ==
    /\ EmbedderRuns /\ s \in Streams /\ context[s].stage # "dead"
    /\ context[s].stage \in {"new", "deleted"} \/ vm.failed
    /\ \A k \in DOMAIN stack : stack[k].object # s
    /\ ~AskedAbout(s)
    /\ contexts' = Restrict(contexts, DOMAIN contexts \ {context[s].id})
    /\ context' = [context EXCEPT ![s] = [id |-> 0, stage |-> "dead"]]
    /\ UNCHANGED <<engine, nextId, current, effective, stack, vm, calls, headers, plugin>>

(* What an event does to a context: from which stage to which. *)
Events == [create |-> <<"new", "created">>, handle |-> <<"created", "created">>,
           delete |-> <<"created", "deleted">>]

(* NullPlugin looks its context up as the event has it. *)
Dispatch(o, event) ==
    LET id == context[o].id
    IN CASE event = "create" -> OnCreate(plugin, id, IF o = "root" THEN 0 ELSE 1)
         [] event = "handle" -> IF o = "root" THEN GetRootContext(plugin, id) ELSE GetContext(plugin, id)
         [] OTHER            -> GetContextBase(plugin, id)

(* Handlers of the root context are those of timers, queues and callouts. *)
CallsGuest(o, event) ==
    /\ EmbedderRuns /\ ~vm.failed /\ Len(stack) < MaxDepth /\ ~plugin.fell
    /\ InHost => Top.host.f # "call_foreign_function"
    /\ o \in Streams \cup {"root"} /\ context[o].stage = Events[event][1]
    /\ o = "root" => event = "handle"
    /\ context' = [context EXCEPT ![o].stage = Events[event][2]]
    /\ SaveContext(o, IF event = "delete" THEN event ELSE "handle")
    /\ plugin' = IF engine = "null" THEN Dispatch(o, event) ELSE plugin
    /\ UNCHANGED <<engine, contexts, nextId, vm, calls, headers>>

(* The answer to a callout; the embedder does not give it within the call that starts it. *)
AnswersCallout ==
    /\ EmbedderRuns /\ ~vm.failed /\ Len(stack) < MaxDepth /\ ~plugin.fell
    /\ InHost => Top.host.f # "call_foreign_function"
    /\ \E c \in DOMAIN calls :
           calls' = RemoveAt(calls, c)
    /\ SaveContext("root", "handle")
    /\ plugin' = IF engine = "null" THEN GetRootContext(plugin, 1) ELSE plugin
    /\ UNCHANGED <<engine, context, contexts, nextId, vm, headers>>
-----------------------------------------------------------------------------
Next ==
    \/ CallsHost \/ Restricted
    \/ \E trap \in BOOLEAN : Ends(trap)
    \/ SetsEffective \/ CopiesDirectly \/ Allocates
    \/ MovesPairs \/ Answers \/ AnswersCallout
    \/ \E s \in Streams : MakesContext(s) \/ DestroysContext(s)
    \/ \E o \in Objects, event \in DOMAIN Events : CallsGuest(o, event)

Spec == Init /\ [][Next]_vars
-----------------------------------------------------------------------------
TypeOK ==
    /\ context \in [Objects -> [id : 0 .. IdSpace - 1,
                                stage : {"dead", "new", "created", "deleted"}]]
    /\ nextId \in 0 .. IdSpace - 1
    /\ current \in Objects \cup {Nobody} /\ effective \in 0 .. IdSpace - 1
    /\ Len(stack) <= MaxDepth /\ Len(calls) <= MaxCalls
    /\ vm.failed \in BOOLEAN /\ plugin.fell \in BOOLEAN

(* contexts_ has the living contexts and no other, each under its own id; the ids come        *)
(* round and never meet one that is in use, nor the 0 of the VM context (allocContextId,       *)
(* the constructors and the destructor of ContextBase).                                   *)
IdsAreUnique ==
    /\ TypeOK
    /\ Range(contexts) = Living
    /\ \A id \in DOMAIN contexts : context[contexts[id]].id = id
    /\ \A o \in Living : context[o].id \in DOMAIN contexts /\ contexts[context[o].id] = o

(* A host function finds its context once and uses it to its end, whatever guests and            *)
(* embedder have done in between: it must still be there, as must the contexts of the          *)
(* guest calls under way (context pointers of exports.cc, current_context_).                  *)
ActsOnLivingContext ==
    \A k \in DOMAIN stack :
        stack[k].object \in Living /\ stack[k].host.acting \in Living \cup {Nobody}

(* However calls nest and end, the current context is that of the innermost guest call,            *)
(* the effective one is what that call itself has chosen, and what it will restore is what        *)
(* its caller had (SaveRestoreContext, set_effective_context).                                *)
EffectiveStaysInItsCall ==
    LET seen(k) == IF k = 0 THEN [current |-> Nobody, effective |-> 0]
                   ELSE [current |-> stack[k].object, effective |-> stack[k].chosen]
    IN /\ [current |-> current, effective |-> effective] = seen(Len(stack))
       /\ \A k \in DOMAIN stack : stack[k].saved = seen(k - 1)

(* A callout that is under way is one whose token its guest was given, however bad the             *)
(* pointer it passed was (http_call tries the token's memory before it starts the call).         *)
HttpCallsAreKnown == \A c \in DOMAIN calls : calls[c].told

(* A null plugin that has a factory for streams holds the contexts that were created and            *)
(* whose onDelete has not ended, each as what it is, and never takes the context of another         *)
(* stream for one whose id came round (NullPlugin's context_map_ against contexts_).              *)
PluginFollowsHost ==
    engine = "null" /\ "stream" \in plugin.factories =>
        LET held == {o \in Objects \ {"vm"} :
                        \/ context[o].stage = "created"
                        \/ \E k \in DOMAIN stack : stack[k].object = o /\ stack[k].event = "delete"}
        IN /\ ~plugin.fell
           /\ plugin.map = [id \in {context[o].id : o \in held} |->
                               IF id = context["root"].id THEN "root" ELSE "stream"]

(* The header map that the host ends up with is the one that the guest meant: all of what it         *)
(* read and wrote back, if that keeps to the limits, and nothing of a buffer that is damaged        *)
(* (marshalPairs against toPairs).                                                             *)
PairsSurvive == WithinLimits(headers.meant) => headers.host = headers.meant
=============================================================================
