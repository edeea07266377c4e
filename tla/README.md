# A formal model of the Proxy-Wasm C++ host

This directory holds TLA+ specifications of the Proxy-Wasm C++ host
(`src/`), the TLC configurations that check them on small instances,
and proofs, checked by TLAPS, that some of the properties hold for every
instance. Paths below are relative to the repository; `wasm.cc` is
`src/src/wasm.cc` in `PROJECT.json`, and so on.

Contents:

1. [The system](#1-the-system): components, state, operations, interactions
2. [What is hard about it](#2-what-is-hard-about-it)
3. [The modules](#3-the-modules) and how they correspond to the code
4. [The runs](#4-the-runs), their bounds, and what each shows
5. [Fairness](#5-fairness)
6. [The proofs](#6-the-proofs)
7. [Disagreements found](#7-disagreements-found)
8. [What is not modelled](#8-what-is-not-modelled)
9. [What is left to do](#9-what-is-left-to-do)

## 1. The system

A proxy links this library, which runs WebAssembly plugins. The proxy is
called the *host* here and code in the VM the *guest*. A *base VM* is loaded
once for a `vm_key` and cloned for each worker thread that needs it. One VM
serves several *plugins*; each has a *root context* in it, and each stream
(request or connection) of a plugin has a *stream context*. VMs that were
configured with one `vm_id` share data and queues across threads.

| Component | State | Operations | Interacts with |
|---|---|---|---|
| SharedData (`shared_data.cc`) | `data_`: vm_id → key → (value, cas); counter `cas_` | get, set, remove, keys, deleteByVmId | called from every VM's thread under one mutex; deleteByVmId is a callback of VmIdHandle |
| SharedQueue (`shared_queue.cc`) | `queue_tokens_`, `queues_`, `vm_queue_keys_`, `next_queue_token_` | registerQueue, resolveQueue, enqueue, dequeue, deleteByVmId | enqueue posts a notification to the owner's thread, where onQueueReady runs in the owner's VM |
| VmIdHandle (`vm_id_handle.cc`) | map vm_id → weak handle; list of callbacks | getVmIdHandle, registerVmIdHandleCallback, ~VmIdHandle | a base `WasmBase` holds one; its destructor calls the two stores |
| Base VMs (`wasm.cc`: createWasm, canary) | `base_wasms`; each base VM's `plugin_canary_cache_` and fail state | createWasm, canary, clearWasmCachesForTesting | any thread; a canary is a clone that is started and configured |
| Thread-local caches (`wasm.cc`) | `local_wasms`, `local_plugins` (weak) and their key queues | getThreadLocalWasm, getOrCreateThreadLocalPlugin, removeStaleLocalCacheEntries | fail callbacks of the VMs erase entries; handles' destructors shut VMs down |
| WasmBase, coming up (`wasm.cc`, `wasm_vm.h`) | ABI version, functions of the guest, `vm_context_`, allowed capabilities, restriction of host functions, fail state, the stored code | load, initialize, registerCallbacks, getFunctions, startVm, the cloning constructor | the engines; the guest's start functions call back |
| WasmBase, going down (`wasm.cc`, `wasm.h`) | `root_contexts_`, `pending_done_`, `pending_delete_`, `after_vm_call_actions_` | start, configure, startShutdown, done, finishShutdown, doAfterVmCallActions | nests with the guest: host → guest → host function → host |
| ContextBase (`context.cc`) | id, parent, in_vm_context_created_, stream_failed_ | handlers onCreate … onDelete, failStream, conversions of statuses | calls the guest through the VM; the VM's failure decides what happens |
| Host functions (`exports.cc`) | thread-local `current_context_`, `effective_context_id_`; `contexts_`, `next_context_id_` | the ABI: proxy_*, allocContextId, onCreate, onDelete, copyToPointerSize | find the context, copy arguments, call ContextBase and the embedder, which may call guests |
| Engines (`v8`, `wamr`, `wasmtime`, `wavm`, `wasmedge`), NullVm | module, store, memory | load, link, clone, getFunction, memory access | WasmVm interface; NullVm runs guests linked into the host |
| NullPlugin (`null/null_plugin.cc`) | `context_map_`, `root_context_map_` | guest-side dispatch | NullVm |
| Command line host (`proxy-wasm-cli`) | map of VMs, lock | launch, list, send traffic over gRPC | everything above |
| Pairs, Bytecode, signatures, hash | none | readers and writers | load (Bytecode, signatures) and the header-map host functions (Pairs) |

What makes each of them correct:

- **SharedData**: a conditional store happens only over the entry that its
  caller read, and is refused only if the entry is another one by now.
- **SharedQueue**: the three maps agree; a token means one queue; messages leave
  in the order they came in, and each has its notification.
- **VmIdHandle**: the stores are cleaned when the last base VM of a vm_id goes,
  completely, and under nobody who still uses them.
- **Base VMs**: one base VM a vm_key, handed out only after a canary of that
  plugin succeeded on it.
- **Caches**: every entry is found by the clean-up; no failed VM is handed out;
  one working VM a thread and vm_key, and one handle a plugin on it.
- **WasmBase, coming up**: whatever the engine and its way of cloning, a clone is
  what its base VM is, its start functions have run once, the engine is used in
  the order it asks for, and host functions are restricted exactly while the guest
  starts or allocates.
- **WasmBase, going down**: each root context is told of its end once, after it
  agreed; containers do not change under the loops that go through them; shutdown
  ends.
- **ContextBase**: a failed VM closes or opens each stream once; a local
  response stops its own stream and no other.
- **Host functions**: an id names one living context though ids come round; a host
  function acts on a context that is there to its end; nesting leaves the caller's
  current and effective context as they were; a callout that runs is one that its
  guest knows of.
- **NullPlugin**: the guest side has the contexts that the host has.
- **Pairs, Bytecode**: what is written is what is read; nothing but what is to be
  cut out of a module is.
- **Command line host**: a request by name goes to a VM of that name that came up.

## 2. What is hard about it

- *Threads*: the two stores, the vm_id map and the base VMs are shared. Each
  locks, but a lock covers one call: reading a value and storing it, copying a
  queue's owner and notifying it, counting references down and running the
  destructor, and looking up a canary's verdict and storing it are two steps. The
  command line host's threads share VMs with no lock at all.
- *Nesting*: within one VM all runs on one thread, but host and guest call each
  other: a handler may send a local response, which calls another handler; a host
  function that copies a result calls the guest's malloc; a call that returns runs
  deferred actions, which call the guest.
- *State kept in one place for a nest of calls*: the iteration flag, the effective
  context and the restriction of host functions are single variables.
- *Failure*: the guest may trap in every call. The VM is then marked, its
  callbacks change the caches at once, and the calls that are still on the stack
  see a failed VM when they go on. An engine may fail at each step of coming up.
- *Engines*: six adapters that clone in three ways, enforce restrictions or not,
  look functions up and report failures differently, behind one interface.
- *Ownership*: weak pointers in three maps, references kept by deferred actions,
  destructors that call the guest.
- *Counters that go round*: cas numbers, queue tokens, context ids.

`PROJECT.json` lists these as hazards, each at its line, with the properties
that would catch it going wrong.

## 3. The modules

Ghost variables, which the program does not have and which no guard reads, are
marked `ghost` in the modules. Definitions named `Bad…` are plausible mistakes;
they are used by no specification and exist to show that the properties would
notice them.

### What VMs share

**SharedData.tla** — `shared_data.cc`. One action per method, since each holds
the mutex throughout. What interleaves are the clients: `seen` is the last entry
each has read, and a conditional call passes the cas number of `seen`. The cas
counter has `CasMod` values in place of 2^32. Values are opaque. Each entry
carries the number of the store that wrote it (`stamp`), so that "the entry it had
read" has a meaning although cas numbers come back.

**VersionedStore.tla** — the abstract specification of the shared data, as
`context_interface.h` documents them: a store in which each write has a version of its
own. A conditional call goes through only on an entry with the version that its
caller read, or on a caller whom `Horizon` writes have passed by; a refused one changes
nothing. What was asked and answered last is part of the state, so that an implementation
cannot pass a conditional call off as an unconditional one. Under the mapping at its end
(`Versions`), with `Horizon` = CasMod − 1, every step of `SharedData` is one of this
store, but one: a conditional store on an absent key (`Revives`), which this store refuses
and the code carries out (section 7). `ImplementsStoreButRevives` names that exception;
code that refused such stores would satisfy it too.

**SharedQueue.tla** — `shared_queue.cc` with `ContextBase::registerSharedQueue`,
`lookupSharedQueue`, `enqueueSharedQueue`, `dequeueSharedQueue` and
`onQueueReady`. A *root* is the address that a queue stores. enqueue is one action
that also counts a notification for the owner it copied out; delivering it is
another, at any later time, which finds the VM or does not; the handler's dequeue
is a third. VMs go away and come back, vm_ids are deleted. `TokMod` stands for
2^32.

**Channels.tla** — the abstract specification of the queues: a FIFO channel per
(vm_id, name) that opens, and closes with its contents. `SharedQueue` implements
it under the mapping at its end (`Chan`).

**VmIdHandle.tla** — `vm_id_handle.cc` as used by `WasmBase` and the stores. The
destructor has three steps: the reference count is 0 but the mutex is not held;
the callbacks, one at a time under the mutex; the erasure. Threads interleave at
these. A handle has the name of the `WasmBase` that made it. Only base VMs hold
handles: a clone keeps its base VM instead. That a clone's use of the stores goes
through the handle of its base VM is how `UseStore` is read.

### Which VMs there are

**BaseVms.tla** — `createWasm` and `WasmHandleBase::canary`. The locked part is an
action; the canary look-up, its run and the verdict are steps without a lock.
Weak pointers expire with the last reference (`Leave`).

**ThreadLocalCache.tla** — the caches of one worker thread. Each function is one
action because nothing else of that thread can touch the caches meanwhile; the
traps that happen inside are part of it (`CreatePluginOn`), in the order in which
the code does things: the failing VM erases its own entry and those of plugins whose
callback is registered, and only a created plugin registers one. `start` and
`configure` appear as far as they decide success and failure.

**WasmManager.tla** — the command line host: the threads of its gRPC service, each
with a request in hand (launch, list, change a log level, send traffic), and the
map of VMs, which they read and write in steps, since the mutex of `WasmManager`
guards nothing but its own creation. A null pointer, or one that was never set,
ends the process where the code follows it (`Crashes`), and a new one begins with
nothing. Contexts of packets take their ids from `next_context_id_`, read and
written in two steps.

### How a VM comes up

**EngineVm.tla** — the six adapters (`v8.cc`, `wamr.cc`, `wasmtime.cc`,
`wasmedge.cc`, `wavm.cc`, `null/null_vm.cc`) behind `WasmVm`: for `load`, `clone`,
`link`, `getFunction`, a call of the guest, a call of a host function, and access
to memory, the set of outcomes of each, by engine. The engines themselves are
third-party libraries and appear as that choice.

**Bytecode.tla** — `bytecode_util.cc` and `signature_util.cc`: a file is the
sequence of the sections a reader meets in it, with the bytes of their lengths
(`ParseVarint` reads those), and each reader of the code is an operator that gives
up at the first section that it cannot read.

**VmStart.tla** — `WasmBase`'s constructors, `load`, `initialize`,
`registerCallbacks`, `getFunctions` and `startVm`, over EngineVm and Bytecode, for a
base VM and its clones. `Initialize` takes the steps of the code one after another
up to the first guest call; from then on the guest runs (`stack`): it returns, traps,
or calls a host function, which may be forbidden, may be a stub, may allocate in the
guest or call it again. `Ends` is what the host goes on with.

**VmProtocol.tla** — the abstract specification of how `wasm_vm.h` wants a VM to be
used: loaded, linked once, entered only when linked; a clone has the state of a VM
that has one. `VmStart` implements it.

### How calls go between host and guest

**Exports.tla** — every host function of `exports.cc` as the sequence of its steps:
reading what the guest points at, finding what it names, asking the embedder,
copying into the guest, writing a word. The order is the code's, and so is what an
error in a step leaves done.

**Pairs.tla** — `pairs_util.cc`: `pairsSize`, `marshalPairs` and `toPairs` over
header maps, with the lengths, the null bytes and the two limits.

**NullPlugin.tla** — `null/null_plugin.cc`: the map of contexts of a guest that is
linked into the host, with every look-up its handlers make.

**HostCalls.tla** — one VM that is up, with its root context and streams that come and
go: `contexts_`, `allocContextId`, `onCreate`, `onDelete`, destruction,
`SaveRestoreContext`, the current and the effective context, `copyToPointerSize` with
the guest's malloc under its restriction, http callouts and their answers, and the steps of
the host functions of Exports, one frame of `stack` for each guest call under way. Steps in
which neither a guest nor the embedder runs are taken together with the one before
(`Onward`). On the null VM the guest is NullPlugin.

**WasmLifecycle.tla** — the root contexts of one VM with the stack of activations:
a call into the guest (`guest`), the end of a call with its deferred actions
(`after`), and the two loops (`finish`, `shutdown`) with the context they are at.
A loop goes on only when what it called has returned, so that an action that
changes the container in between shows.

**StreamCalls.tla** — the handlers of stream contexts: which status the host gets
under local responses, nesting, traps and fail-open, for all kinds of handlers. A
status is the number of the ABI.

Each component `X` has `MCX.tla`, which gives the constants, and one or more
configurations. `X_proofs.tla` holds theorems and proofs.

How they fit together: VmStart composes EngineVm and Bytecode; HostCalls composes
EngineVm, Exports, Pairs and NullPlugin. VmIdHandle's callbacks are the `DeleteByVmId`
actions of SharedData and SharedQueue; SharedQueue's VmGone and VmCreated are what
ThreadLocalCache does to a VM; ThreadLocalCache's ReleasePlugin is
WasmLifecycle's; Return in StreamCalls runs WasmLifecycle's deferred actions; what
HostCalls does in "raise" is StreamCalls' flag. Each module has the others' actions
possible at any time at which the code can perform them, which is more than the
others' guards would allow together.

## 4. The runs

Every run checks a property of its own; for each property of a passing run there
is a mutation of the model, listed in `PROJECT.json`, that violates it. Where a
module's `TypeOK` is not among the properties it is a conjunct of one of them
(NoLostUpdate, QueuesCoverCaches, OwnedOnce, StopIsOwed, CodeIsKept, IdsAreUnique,
NamedVmsAreSound).

| Run | Configuration | Properties | Bounds and why they are enough |
|---|---|---|---|
| shared_data | MCSharedData | NoLostUpdate, NoSpuriousMismatch, ImplementsStoreButRevives | two VMs of one vm_id and one of another, two keys, counter of 3 values, 4 stores: the counter goes round once with a reader that slept through it |
| shared_data_absent | MCSharedDataAbsent | ConditionalStoreMatched (violated) | as above |
| shared_queue | MCSharedQueue | TypeOK, MapsAgree, TokenKeepsMeaning, NoStrandedMessage, ImplementsChannels, QueuesDrain | two roots that contend for one queue name, one of another vm_id, 2 tokens, 2 messages, 1 death of a VM: the token counter goes round and skips 0 and the token in use. No symmetry, since one property is about liveness |
| vm_id_handle | MCVmIdHandle | HandlesTypeOK, NothingOutlivesItsHandle, MapNamesNoGhost, ReleasedHandlesDie | 2 threads, 3 base VMs of one vm_id and 1 of another, 2 stores: a destructor can meet a second handle, whose entry it erases, and a third |
| thread_local_cache | MCThreadLocalCache | QueuesCoverCaches, CachesAgree, NoFailedVmCached, OneHealthyVm | 2 plugins on a shared VM, 1 on another; at most 3 VMs at one time but any number one after another; a clean-up of 3 keys |
| base_vms | MCBaseVms | TypeOK, OneBasePerVmKey, HandedOutWereCanaried | 2 threads, 2 plugins that share a vm_key and 1 other, 3 base VMs at one time |
| wasm_lifecycle | MCWasmLifecycle | OnDeleteIsLast, IteratorsStayValid, OwnedOnce, DoneLeadsToDestruction, ShutdownCompletes | 3 plugins, one of which is created a second time: loops over 2 and 3 contexts, and a second context that finds the first one waiting |
| wasm_lifecycle_reuse | MCWasmLifecycleReuse | RootsWaitForDone (violated) | as above |
| stream_calls | MCStreamCalls | LocalResponseStops, StopIsOwed, FailedVmStopsOrOpens | 3 streams that together have all kinds of handlers, one of them fail-open, nesting up to 3 |
| vm_start | MCVmStart | RestrictionFollowsStack, CloneMatchesBase, StartedOnce, CodeIsKept, ImplementsVmProtocol | 17 modules (reactor and command, each ABI, with compiled code of two engines, lengths of five bytes, and each kind of damage that a reader or an engine rejects), 6 engines, every mode of configuration, a base VM and a clone, nesting up to 3 |
| host_calls | MCHostCalls | IdsAreUnique, ActsOnLivingContext, EffectiveStaysInItsCall, HttpCallsAreKnown, PluginFollowsHost, PairsSurvive | V8 (which enforces restrictions), WAMR and the null VM; 2 streams and a root context with 4 ids, so that ids come round while held; nesting up to 2; one callout at a time; header maps at and beyond limits of 2 pairs and 30 bytes |
| wasm_manager | MCWasmManager | NamedVmsAreSound | 2 threads, 2 projects, a name and the empty one, 2 launches, 2 packets, 4 ids; the process may end and start again |

Bounds are constants (`MaxWrites`, `MaxSends`, `MaxDeaths`, `MaxQueue`,
`MaxDepth`, `MaxCalls`, `MaxInfos`, `MaxPackets`, `GcChunk`, `CasMod`, `TokMod`,
`IdSpace`) or the sizes of the sets. Properties about counters that go round say by
how much or until when (`TokenKeepsMeaning`). The largest runs are wasm_manager with
1.6 million and host_calls with 1.0 million distinct states. `CHECK_DEADLOCK FALSE` is in
the configurations of VmIdHandle and WasmLifecycle, where everything has been created and
destroyed in the end, of VmStart, where a VM that was rejected or whose calls are over
may be the end, and of HostCalls, where a failed VM with nothing left in it is.

What the modules assume of guests, hosts and libraries:

- *WasmLifecycle*: the guest calls proxy_done in its own name
  (`Impersonates = FALSE`), and the host drops no handle during a call into the
  guest.
- *ThreadLocalCache*: the host makes no foreign call to a VM that has failed
  (`ForeignCalls = FALSE`): onForeignFunction is the one call that does not ask
  isFailed, a second trap runs the fail callbacks again, and they erase whatever is
  cached under the key by then. A thread has no more keys than one clean-up looks at
  (64 in the code), or a key that comes and fails is queued again and again.
- *HostCalls*: the embedder destroys no context in whose guest call it is, nor one that it
  is being asked about in a host function that goes on with that context (`AskedAbout`);
  it destroys streams that are new or whose onDelete has run, or any if the VM failed.
  Foreign functions that it provides do not call guests. An answer to a callout is
  not given within the call that starts it. On engines that do not enforce restrictions,
  a guest's allocator keeps to what it may call. wasmtime, wasmedge and wavm differ from
  WAMR in nothing that this module tells apart. Header maps are explored without streams,
  since nothing connects the two. Results of host functions are not kept by guests.
- *NullPlugin*: the plugin provides context classes; handlers that override the
  registry are not covered. The embedder knows the property `plugin_root_id`: without it
  ensureRootContext returns a null pointer that onCreate uses, while the VM comes up.
- *WasmManager*: the library's own maps are taken to bear concurrent use, which they do not
  promise; only the counter of ids is split into read and write. Names have no ":".
- *EngineVm*: an engine may refuse what it accepts at other times (memory), and never
  accepts what its specification rejects.

## 5. Fairness

Liveness is stated under weak fairness of what the program does by itself:

- QueuesDrain: a posted notification is run by its thread, and the plugin's
  onQueueReady dequeues one message. No fairness of sends or registrations. A VM that
  goes away loses its notifications, and as many messages may stay (`dropped`).
- ReleasedHandlesDie: a thread that is in a destructor goes on when it can.
  The mutex is not assumed to be fair; each destructor holds it for a
  finite time and there are finitely many.
- DoneLeadsToDestruction, ShutdownCompletes: the host runs on, and guest handlers
  return or trap (`Proceed`). Nothing makes the guest call proxy_done.

Nothing is claimed of progress in VmStart, HostCalls, StreamCalls and WasmManager: what
goes on there is up to guests and clients.

## 6. The proofs

**SharedData_proofs** proves TypeOK, NoLostUpdate, NoSpuriousMismatch and
CasIdentifiesStore for any number of clients, vm_ids, keys and stores, and every
width of the counter (`CasModAssumption`: at least one number besides 0). None is
inductive: a single state says nothing of what a client has read earlier. The
invariant `Inv` adds

- the *n*-th store gives the number `CasAt(n)` = *n* mod (CasMod − 1) + 1, so the
  counter is a function of the number of stores (`Counter`, `EntriesWritten`);
- an entry is identified by its stamp, whether it is in the store or in a client's
  hands (`StampIdentifies`), and two places never have the same one
  (`SlotsDiffer`);
- what a client has read is not newer than what is stored (`SeenNotNewer`).

Two equal cas numbers then mean stamps a multiple of CasMod − 1 apart
(`CasCycle`), which is `NoLostUpdate`; different ones mean different stamps,
of which the reader's is the older, which is `NoSpuriousMismatch`. The lemmas
`GetStep`, `SetStep`, `RemoveStep` and `DeleteStep` do one action each.
CasIdentifiesStore is proved only, and no run checks it.

ImplementsStoreButRevives follows from the same invariant: `ComparedVersions` turns the
comparison of numbers into one of versions, up to a cycle; `SlotChange` and `CopyChange`
carry a change of one entry through the mapping; one lemma per action then gives the
step of the store, or `Revives`. It says more than the two invariants: nothing but the
entry a call is for changes, and nothing at all when it is refused. NoLostUpdate is about
calls that met an entry, and says nothing of a conditional store on a removed key.

**SharedQueue_proofs** proves TypeOK, MapsAgree, TokenKeepsMeaning, and that the
queues implement `Channels!ChanSpec`. The invariant adds `KnownBehind`: until the
token counter has gone round, every token that anyone knows lies behind it, so
that the next one is new to all. One lemma per action shows that it keeps the
invariant; `TablesKept` serves all that leave the tables alone. The refinement
has one lemma per action as well: it maps to one step of a channel, or to none.
NoStrandedMessage compares the length of a queue with the notifications that are under
way to *all* roots of its owner: the number of those is a sum over the roots, so what an
action does to it is found by induction on a set of roots, in the form of a least
counterexample (`RootsFinite`).

**BaseVms_proofs** proves TypeOK, OneBasePerVmKey and HandedOutWereCanaried for any
number of threads, plugins, vm_keys and base VMs. The invariant adds `MapIsExact`
(`base_wasms` names exactly the base VMs that exist, which is why a second one is
never made) and `AcceptedPassed` (a verdict "accepted" in the canary cache was
earned on that very base VM; it is not enough that the handles in the host's hands
were). `LeaveStep` is the lemma of the weak pointers: what goes with the last
reference is what expires in the map. The second part of the module is about
VmIdHandle, whose base VMs these are: HandlesTypeOK, NothingOutlivesItsHandle and
MapNamesNoGhost for any number of threads, base VMs and stores, and
CallbacksOnlyAfterLast for programs that create and destroy base VMs on one thread
(with two it is false, see section 7).

**WasmLifecycle_proofs** proves OwnedOnce, IteratorsStayValid and OnDeleteIsLast for any
finite set of root contexts and any plugins (`ContextsAssumption`), for guests that
call proxy_done in their own name (`~Impersonates`; with TRUE, TLC shows how all three
fail, so the theorems say no more than is so). What is inductive is about the whole
stack of activations:

- `Nesting`: the stack has one of five shapes. The deferred finishShutdown runs after
  an outermost call or after an on_delete that it made itself, and under it there is
  at most one call into the guest, with the startShutdown that this may be part of.
- `Scheduled`: at most one context is due for deletion at any time, its key has
  nothing pending and exactly one handle is deferred for it. This is why
  finishShutdown never runs inside another, although nothing in the code says so.
- `Looping`: what the shutdown loop has yet to visit is still in its map; `Keyed`:
  contexts are under their own keys; `Counted`: on_delete was called once at most, and
  while it runs it is the only time; `Agreement`: who is due for deletion has agreed,
  or had a successor of its plugin.

There is one lemma for each action and part, on lemmas about what Push, Replace and
the returns do to the frames.

**StreamCalls_proofs** proves all three of its run's properties for any streams, handlers
and nesting (`IInv`). LocalResponseStops speaks of a handler that has ended; it is
inductive together with `Nesting` (everybody but the innermost is in the host) and
`FlagIsUp` (a handler that has sent a local response and is in the guest again finds
the flag up): handlers that ran meanwhile took the flag down, but it is raised after
them, which is why the order of the two lines in `send_local_response` matters.
FailedVmStopsOrOpens needs `ClosedOnce`.

**HostCalls_proofs** proves IdsAreUnique and EffectiveStaysInItsCall for any streams, width
of the ids (`HostCallsAssumption`: more ids than contexts), engines and nesting. For the
first, `Registered` says that the map of contexts and the ids in the contexts are each
other's inverse; that `allocContextId` ends and finds a free id is a pigeonhole argument
(`FreeId`) and a least element (the loop of the code takes the first). For the second, each
frame keeps what its caller had, all the way down (`Nesting`).

The other four properties of the run are theorems as well. For ActsOnLivingContext and
HttpCallsAreKnown the invariant `Guests` says what each frame of the stack waits for:
every one below the innermost is in a host function that asks the embedder or needs an
allocation (`Stands`), the contexts that they go on with live (`Uses`: a function
that asks as its last step has let go of its context, which is what `AskedAbout`
leaves to the embedder), an allocator runs restricted (`Allocator`) and the root and VM
contexts are there throughout (`Lasting`). For PluginFollowsHost `Null` says that a null
VM never fails, that a context is in one onDelete at most (`DeletesOnce`) and that the
plugin's map is `MapOf(Held)` for those who hold an entry. PairsSurvive is about the
wire format: `PairsComeBack` holds for every header map of any bytes, since
`RoundTrip` shows that toPairs of marshalPairs is the map itself if it is within the
limits and no map otherwise, and `DamageShows` that bytes after the last pair make it
no map. The recursions of `PairsSize`, `Names` and `FlattenSeq` are functions over
1 .. n: a solution is given (`Turns`, `JoinedTurns`) and compared turn by turn with
`CountUp`, which says that a set of numbers with 0 and with every successor is Nat.
This is how all loops in these proofs are done without an induction theorem.

**VmStart_proofs** proves RestrictionFollowsStack, CloneMatchesBase, StartedOnce and the
refinement ImplementsVmProtocol for any modules, any number of clones and any nesting
(`VmStartAssumption`: the base VM is no clone). The invariant is one of each VM with
respect to the base VM (`VmInv`), in five parts: the values are of their kinds
(`Shape`); how far the VM has come and who is in it (`Stage`); the restriction is that of
the innermost call and no restricted call has another above it (`Restriction`), which is
why one variable is enough; the code, the ABI and the functions are those of the base VM,
or of the copy it keeps where the engine cannot clone (`Origin`); how often the start
functions have run on this memory (`Starts`). `OneVm` reduces an action to the VM it is of:
once there are clones, the base VM does not change. For the refinement, `OneVmUse`
says which changes of a VM's phase and stack are steps of the protocol.

The second part of the module is CodeIsKept: whatever the engine and however a VM came by
its code, what it runs is the configured file less what was to be cut out of it. Files
are any that `CodesAssumption` allows: a header and sections of any number, with any
damage that the readers look for. It takes two steps.

- *What stripping does to one file* (`StrippingKeeps`): of a file that load accepted,
  `Stripped` has the same core (`SameCore`), no compiled code and the same ABI. SameCore
  is stated by ranks, that is by how many kept sections precede one, and knows nothing of
  the loop that cuts and copies. Searches are least elements (`First`, `FirstFacts`); the
  filter of custom sections is taken turn by turn (`Copied`, `CopiedTurns`), with the
  sections before the first compiled one put in front (`CopiedJoin`); `CopiedPlaced`
  says at which place each section arrives, which is its rank. `FirstExport` finds the
  first export section again where stripping has moved it, hence the ABI.
- *That every VM got its code that way* (`CodeInv`, on top of the first invariant, whose
  `Origin` has the copy that a base VM keeps for its clones): the code that a VM holds is
  `CodeOf` of the configured file, which load accepted (`HoldsCode`), and the base VM
  knows the ABI of that file (`KnowsAbi`). CodeIsKept alone is not inductive: that the
  sections are alike does not say that load accepted the file, without which the ABI may
  not be found in it.

**ThreadLocalCache_proofs** proves CachesAgree, NoFailedVmCached and OneHealthyVm for any
plugins, vm_keys and VMs, any chunk of the clean-up and any length of the queues, for a
host that makes no foreign call to a failed VM (`~ForeignCalls`: with one, the fail
callbacks erase the entries of the VM's successor). The invariant says that the entry of
a vm_key is the one VM of that key that works (`WorkingVmIsCached`), that a VM has a
handle as long as it exists (`VmsAreUsed`), that handles and fail callbacks are of
plugins of the VM's key (`KeysMatch`, why a trap does not take the entries of other VMs)
and that the handles of a VM that works are the cached ones (`HandlesAreCached`).
`CleanedSame` says that a clean-up takes no live entry; `OneVmKeepsInv` states what all
actions but clean-ups do, which change one VM and the entries that name it.

QueuesCoverCaches needs no VM, only each cache with its queue (`KeysInv`): every entry
is queued and, as long as one clean-up looks at all keys, no key twice. The clean-up's
loop is the function `KeptKeys` of the turns made, of which `KeptFacts` says what stays
in the queue and in what order; with no key twice a queue is no longer than there are
keys (`NoLongerThan`, for which `FiniteAssumption` is needed), so one clean-up goes
through all of it.

The second part of the module proves NamedVmsAreSound of WasmManager, for any number of
threads, projects, names, VMs and packets. `ManagerInv` says what a request holds between
its steps (`Holds`: the infos it has yet to visit exist and bear the name it asked for),
that an info has a name only if its VM is up and that no stream has the id of a root or
VM context (`InfosSound`), that the map of names has existing infos (`MapSound`), and that
there is room for what the launches under way will add (`Room`). The filter of names is
unfolded with the lemmas about concatenation that the first part needs.

Only model-checked: liveness (QueuesDrain, ReleasedHandlesDie, DoneLeadsToDestruction,
ShutdownCompletes), which is out of the prover's reach as ENABLED is. Every other
property of a passing run is a theorem. No
module that is proved about has a RECURSIVE operator. Two modules share a module of
proofs where there are more components than modules of proofs; their names are
disjoint.

## 7. Disagreements found

Two runs show the code at odds with what it says of itself:

- `wasm_lifecycle_reuse`: a root context that waits for proxy_done is destroyed
  when another of the same plugin is shut down (`wasm.cc:451`), against
  `context_interface.h:175`.
- `shared_data_absent`: a store that is conditional on a cas number succeeds on a key
  that was removed after the number was read (`shared_data.cc:91`), where
  `context_interface.h:619` says that the number "must match". The removal is undone and
  the caller is told Ok.

Others that the modules contain as the code has them, without a run of their own:

- Between the last release of a vm_id's handle and its destructor's lock another
  thread may make a new handle; the callbacks then delete what its VM has stored
  (`vm_id_handle.cc:65`).
- A plugin may be cached on a VM that trapped in on_context_create
  (`wasm.cc:651`), against the comment at `wasm.cc:656`.
- `getStrippedSource` keeps the custom sections before the first compiled one, while
  `bytecode_util.h` speaks of a source without custom sections; `checkWasmHeader`
  takes what is shorter than eight bytes for sound (no later step does).
- `grpc_call` and `grpc_stream` start the call before they try the memory of the token,
  which `http_call` does first.
- A header map beyond the limits goes to the guest whole, and is empty for the host if
  the guest gives it back, since only `toPairs` asks for the limits.
- Deferred actions run at the end of every call, also of one that is nested in another:
  finishShutdown may run while an outer guest call has not returned.
- Command line host: `FilterVms` does not look at the project, which
  `proxy-wasm-cli/README.md` and `proxy_wasm_cli.py:150` say it filters by;
  LaunchInstance answers success whatever happened; a launch that failed, or lost a
  race, may replace a working VM's entry; "Stop further processing" is printed and
  the traffic goes on.

## 8. What is not modelled

- `terminate` of the engines, which no code of the library calls; the engines' own
  libraries; logging and trace output of the adapters; conversion of numbers between
  engines' types, which templates generate.
- Timers, metrics, properties and foreign functions beyond the host functions' own
  steps: the base class answers "unimplemented" and the embedder has the rest.
- gRPC streams of guests beyond their first call; their answers go the way of those of http
  calls.
- Registry overrides and `root_context_map_` of NullPlugin, which only plugin code uses.
- The cryptography of signatures, and hashes: a library's. VmStart takes a signature to be
  good or bad.
- Reading files and printing in the command line host; the C++ types and
  macros (`word.h`, `exports.h`), which hold no state.
- Data: contents of values, messages, bodies and configurations; metrics; the wording of
  errors. Header maps have bytes in Pairs because the conversion is what matters there.
- The data race on `plugin_canary_cache_` is given its ordinary outcomes.
- clearWasmCachesForTesting, which only tests call.

## 9. What is left to do

- One VM as a whole: HostCalls with WasmLifecycle and StreamCalls on one stack.
- VmIdHandle with SharedData: the clean-up's race as a client sees it.
