------------------------------ MODULE SharedQueue ------------------------------
(***************************************************************************)
(* The message queues that the VMs of one process share                    *)
(* (src/shared_queue.cc, src/shared_queue.h), with the host functions that  *)
(* reach them (ContextBase::registerSharedQueue and the others).            *)
(*                                                                         *)
(* A queue is found by name, (vm_id, name), and used by token.  Every       *)
(* operation holds mutex_, so each is one action, except that enqueue       *)
(* copies the target out and notifies it after it has let go of the mutex:  *)
(* by the time the callback runs the queue may have a new owner, or be      *)
(* gone, and so may the VM that is called.                                  *)
(*                                                                         *)
(* A root is the address the queue stores, (vm_key, context_id) on one      *)
(* thread.  It is alive while getThreadLocalWasm finds a VM there and       *)
(* that VM has the root context; the VM may go away and be created anew.    *)
(***************************************************************************)
EXTENDS Integers, FiniteSets, Sequences, FiniteSetsExt

CONSTANTS
    Roots,
    VmIds,
    RootVmId,   \* RootVmId[r]: vm_id of the VM of root r
    Names,
    Msgs,
    NoQueue,
    TokMod,     \* next_queue_token_ is a uint32_t: TokMod is 2^32 in the program
    MaxSends,   \* bound on the number of enqueued messages
    MaxDeaths   \* bound on the number of times a VM goes away

ASSUME TokModAssumption == TokMod \in Nat /\ TokMod > 1
ASSUME RootsFinite == IsFiniteSet(Roots)
ASSUME RootsAssumption == RootVmId \in [Roots -> VmIds]
ASSUME NoQueueAssumption == NoQueue \notin [owner : Roots, msgs : Seq(Msgs)]

VARIABLES
    nextToken,      \* next_queue_token_
    queueTokens,    \* queue_tokens_: key -> token, 0 where there is none
    vmQueueKeys,    \* vm_queue_keys_: vm_id -> keys
    queues,         \* queues_: token -> its owner and its messages
    known,          \* the (key, token) pairs that register or lookup returned to a VM
    wrapped,        \* ghost: next_queue_token_ has gone round
    alive,          \* roots whose VM exists
    posted,         \* root, token -> notifications that enqueue has started and
                    \* that have not run: about to be posted, or posted
    ready,          \* root, token -> onQueueReady calls whose dequeue is to come
    dropped,        \* ghost: token -> notifications that found no VM
    sends, deaths   \* ghost: the bounded counts

vars == <<nextToken, queueTokens, vmQueueKeys, queues, known, wrapped,
          alive, posted, ready, dropped, sends, deaths>>

tableVars == <<nextToken, queueTokens, vmQueueKeys, wrapped>>
callVars == <<posted, ready, dropped>>

Key == VmIds \X Names
Token == 1..(TokMod - 1)
Queue == [owner : Roots, msgs : Seq(Msgs)]

TypeOK ==
    /\ nextToken \in 0..(TokMod - 1)
    /\ queueTokens \in [Key -> Token \cup {0}]
    /\ vmQueueKeys \in [VmIds -> SUBSET Key]
    /\ queues \in [Token -> Queue \cup {NoQueue}]
    /\ known \in SUBSET (Key \X Token)
    /\ wrapped \in BOOLEAN
    /\ alive \in SUBSET Roots
    /\ posted \in [Roots \X Token -> Nat]
    /\ ready \in [Roots \X Token -> Nat]
    /\ dropped \in [Token -> Nat]
    /\ sends \in Nat /\ deaths \in Nat

Init ==
    /\ nextToken = 1
    /\ queueTokens = [k \in Key |-> 0]
    /\ vmQueueKeys = [v \in VmIds |-> {}]
    /\ queues = [t \in Token |-> NoQueue]
    /\ known = {}
    /\ wrapped = FALSE
    /\ alive = Roots
    /\ posted = [rt \in Roots \X Token |-> 0]
    /\ ready = [rt \in Roots \X Token |-> 0]
    /\ dropped = [t \in Token |-> 0]
    /\ sends = 0 /\ deaths = 0

-----------------------------------------------------------------------------
(* How many increments of next_queue_token_ lead to t. *)
Distance(t) == (t - nextToken) % TokMod

(* SharedQueue::nextQueueToken returns t: the first token in cyclic order,  *)
(* from next_queue_token_ on, that is neither 0 nor in use.  When every      *)
(* token is in use the loop never ends; no t qualifies.                     *)
IsNextToken(t) ==
    /\ queues[t] = NoQueue
    /\ \A u \in Token : queues[u] = NoQueue => Distance(t) <= Distance(u)

BadRegisterNewNoWrap(r, k) ==
    /\ queueTokens[k] = 0
    /\ \E t \in Token :
          /\ IsNextToken(t)
          /\ nextToken' = t + 1
          /\ wrapped' = (wrapped \/ nextToken = 0 \/ t < nextToken)
          /\ queueTokens' = [queueTokens EXCEPT ![k] = t]
          /\ vmQueueKeys' = [vmQueueKeys EXCEPT ![k[1]] = @ \cup {k}]
          /\ queues' = [queues EXCEPT ![t] = [owner |-> r, msgs |-> <<>>]]
          /\ known' = known \cup {<<k, t>>}

(* registerSharedQueue: a key that is known keeps its token and its messages *)
(* and only changes its owner.                                              *)
RegisterNew(r, k) ==
    /\ queueTokens[k] = 0
    /\ \E t \in Token :
          /\ IsNextToken(t)
          /\ nextToken' = (t + 1) % TokMod
          /\ wrapped' = (wrapped \/ nextToken = 0 \/ t < nextToken)
          /\ queueTokens' = [queueTokens EXCEPT ![k] = t]
          /\ vmQueueKeys' = [vmQueueKeys EXCEPT ![k[1]] = @ \cup {k}]
          /\ queues' = [queues EXCEPT ![t] = [owner |-> r, msgs |-> <<>>]]
          /\ known' = known \cup {<<k, t>>}

RegisterAgain(r, k) ==
    LET t == queueTokens[k] IN
    /\ t # 0
    /\ queues' = [queues EXCEPT ![t].owner = r]
    /\ known' = known \cup {<<k, t>>}
    /\ UNCHANGED tableVars

RegisterSharedQueue(r, name) ==
    LET k == <<RootVmId[r], name>> IN
    /\ r \in alive
    /\ RegisterNew(r, k) \/ RegisterAgain(r, k)
    /\ UNCHANGED <<alive, posted, ready, dropped, sends, deaths>>

(* lookupSharedQueue (resolveQueue) finds the queue. *)
LookupSharedQueue(k) ==
    /\ queueTokens[k] # 0
    /\ known' = known \cup {<<k, queueTokens[k]>>}
    /\ UNCHANGED <<tableVars, queues, alive, callVars, sends, deaths>>

BadEnqueueNotifiesOnce(t, m) ==
    /\ sends < MaxSends
    /\ queues[t] # NoQueue
    /\ queues' = [queues EXCEPT ![t].msgs = Append(@, m)]
    /\ posted' = IF queues[t].msgs = <<>>
                   THEN [posted EXCEPT ![<<queues[t].owner, t>>] = @ + 1]
                   ELSE posted
    /\ sends' = sends + 1
    /\ UNCHANGED <<tableVars, known, alive, ready, dropped, deaths>>

(* enqueue on a token that somebody holds; the owner to notify is the one    *)
(* the queue has now.  A token without a queue is NotFound.                 *)
Enqueue(t, m) ==
    /\ sends < MaxSends
    /\ queues[t] # NoQueue
    /\ queues' = [queues EXCEPT ![t].msgs = Append(@, m)]
    /\ posted' = [posted EXCEPT ![<<queues[t].owner, t>>] = @ + 1]
    /\ sends' = sends + 1
    /\ UNCHANGED <<tableVars, known, alive, ready, dropped, deaths>>

(* The lambda of enqueue on the owner's thread: getThreadLocalWasm and       *)
(* getContext find the root and onQueueReady is called, or they do not.     *)
DeliverNotification(r, t) ==
    /\ posted[<<r, t>>] > 0
    /\ posted' = [posted EXCEPT ![<<r, t>>] = @ - 1]
    /\ IF r \in alive
         THEN ready' = [ready EXCEPT ![<<r, t>>] = @ + 1] /\ UNCHANGED dropped
         ELSE dropped' = [dropped EXCEPT ![t] = @ + 1] /\ UNCHANGED ready
    /\ UNCHANGED <<tableVars, queues, known, alive, sends, deaths>>

(* dequeue: Ok when there is a message; Empty and NotFound change nothing.  *)
BadTakeNewest(t) ==
    queues' = IF queues[t] # NoQueue /\ queues[t].msgs # <<>>
                THEN [queues EXCEPT ![t].msgs = SubSeq(@, 1, Len(@) - 1)]
                ELSE queues

Take(t) ==
    queues' = IF queues[t] # NoQueue /\ queues[t].msgs # <<>>
                THEN [queues EXCEPT ![t].msgs = Tail(@)]
                ELSE queues

(* The plugin's onQueueReady dequeues one message of the queue it is told of. *)
DequeueWhenReady(r, t) ==
    /\ ready[<<r, t>>] > 0
    /\ ready' = [ready EXCEPT ![<<r, t>>] = @ - 1]
    /\ Take(t)
    /\ UNCHANGED <<tableVars, known, alive, posted, dropped, sends, deaths>>

(* A VM polls a queue whose token it has. *)
DequeueUnasked(t) ==
    /\ queues[t] # NoQueue
    /\ Take(t)
    /\ UNCHANGED <<tableVars, known, alive, callVars, sends, deaths>>

BadDeleteForgetsIndex(vm) ==
    LET keys == {k \in Key : k[1] = vm}
        tokens == {queueTokens[k] : k \in keys}
    IN
    /\ queueTokens' = [k \in Key |-> IF k \in keys THEN 0 ELSE queueTokens[k]]
    /\ queues' = queues
    /\ vmQueueKeys' = [vmQueueKeys EXCEPT ![vm] = {}]
    /\ UNCHANGED <<nextToken, wrapped, known, alive, callVars, sends, deaths>>

BadDeleteResetsTokens(vm) ==
    LET keys == vmQueueKeys[vm]
        tokens == {queueTokens[k] : k \in keys}
    IN
    /\ queueTokens' = [k \in Key |-> IF k \in keys THEN 0 ELSE queueTokens[k]]
    /\ queues' = [t \in Token |-> IF t \in tokens THEN NoQueue ELSE queues[t]]
    /\ vmQueueKeys' = [vmQueueKeys EXCEPT ![vm] = {}]
    /\ nextToken' = 1
    /\ UNCHANGED <<wrapped, known, alive, callVars, sends, deaths>>

(* The callback of the last VmIdHandle of vm (see VmIdHandle.tla). *)
DeleteByVmId(vm) ==
    LET keys == vmQueueKeys[vm]
        tokens == {queueTokens[k] : k \in keys}
    IN
    /\ queueTokens' = [k \in Key |-> IF k \in keys THEN 0 ELSE queueTokens[k]]
    /\ queues' = [t \in Token |-> IF t \in tokens THEN NoQueue ELSE queues[t]]
    /\ vmQueueKeys' = [vmQueueKeys EXCEPT ![vm] = {}]
    /\ UNCHANGED <<nextToken, wrapped, known, alive, callVars, sends, deaths>>

(* The VM of r goes away (so do the calls it is in), or is created again.   *)
VmGone(r) ==
    /\ r \in alive /\ deaths < MaxDeaths
    /\ alive' = alive \ {r}
    /\ ready' = [rt \in Roots \X Token |-> IF rt[1] = r THEN 0 ELSE ready[rt]]
    /\ dropped' = [t \in Token |-> dropped[t] + ready[<<r, t>>]]
    /\ deaths' = deaths + 1
    /\ UNCHANGED <<tableVars, queues, known, posted, sends>>

VmCreated(r) ==
    /\ r \notin alive
    /\ alive' = alive \cup {r}
    /\ UNCHANGED <<tableVars, queues, known, callVars, sends, deaths>>

HostCall ==
    \/ \E r \in Roots, name \in Names : RegisterSharedQueue(r, name)
    \/ \E k \in Key : LookupSharedQueue(k)
    \/ \E kt \in known :
          \/ \E m \in Msgs : Enqueue(kt[2], m)
          \/ DequeueUnasked(kt[2])

Notification ==
    \E r \in Roots, t \in Token : DeliverNotification(r, t) \/ DequeueWhenReady(r, t)

Lifecycle ==
    \/ \E vm \in VmIds : DeleteByVmId(vm)
    \/ \E r \in Roots : VmGone(r) \/ VmCreated(r)

Next == HostCall \/ Notification \/ Lifecycle

Spec == Init /\ [][Next]_vars

(* The thread of an owner runs what was posted to it, and the plugin's       *)
(* onQueueReady dequeues.                                                   *)
Fairness ==
    \A r \in Roots, t \in Token :
        WF_vars(DeliverNotification(r, t)) /\ WF_vars(DequeueWhenReady(r, t))

FairSpec == Spec /\ Fairness

-----------------------------------------------------------------------------
(* The three maps tell one story: a token names one queue, every queue has a  *)
(* name, and vm_queue_keys_ lists all keys of a vm_id and no others, so that *)
(* deleteByVmId leaves nothing behind that no name reaches.                  *)
MapsAgree ==
    /\ \A k1, k2 \in Key : (queueTokens[k1] = queueTokens[k2] /\ queueTokens[k1] # 0) => k1 = k2
    /\ \A k \in Key : queueTokens[k] # 0 => queues[queueTokens[k]] # NoQueue
    /\ \A t \in Token : queues[t] # NoQueue => \E k \in Key : queueTokens[k] = t
    /\ \A vm \in VmIds : vmQueueKeys[vm] = {k \in Key : k[1] = vm /\ queueTokens[k] # 0}

(* A token that a VM got for a name never comes to mean another queue: it is *)
(* that queue's token or, once the queue was deleted, nobody's, even if the  *)
(* name is registered anew.  Until the 32-bit counter has gone round.        *)
TokenKeepsMeaning ==
    ~wrapped => \A kt \in known : queues[kt[2]] # NoQueue => queueTokens[kt[1]] = kt[2]

(* Every message still in a queue has a notification to come, a callback that *)
(* is about to dequeue it, or lost its notification to a VM that went away.   *)
(* The owner may have changed, and the queue been deleted, in between.        *)
PendingFor(t) ==
    MapThenSumSet(LAMBDA r : posted[<<r, t>>] + ready[<<r, t>>], Roots)

NoStrandedMessage ==
    \A t \in Token : queues[t] # NoQueue =>
        Len(queues[t].msgs) <= PendingFor(t) + dropped[t]

(* Again and again a queue has no more messages than notifications for it     *)
(* were lost to VMs that went away, so it is emptied if none were: one       *)
(* notification a message is enough for a plugin that dequeues one message a *)
(* notification, whoever owns the queue by then.                             *)
QueuesDrain ==
    \A t \in Token :
        []<>(queues[t] = NoQueue \/ Len(queues[t].msgs) <= dropped[t])

(* The queues are FIFO channels, one a name, whatever the tokens, the owners  *)
(* and the notifications do.                                                 *)
Chan == INSTANCE Channels WITH
    open <- {k \in Key : queueTokens[k] # 0},
    chan <- [k \in Key |-> IF queueTokens[k] = 0 THEN <<>> ELSE queues[queueTokens[k]].msgs]

ImplementsChannels == Chan!ChanSpec
=============================================================================
