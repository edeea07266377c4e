-------------------------- MODULE SharedQueue_proofs --------------------------
(***************************************************************************)
(* Proofs about SharedQueue for every set of roots, vm_ids, names and       *)
(* messages, every width of the token counter and every bound.              *)
(*                                                                         *)
(* MapsAgree is inductive with TypeOK.  For TokenKeepsMeaning one more fact  *)
(* is needed: before the counter has gone round, every token in use or   *)
(* known is behind it (KnownBehind), so that a fresh token is new to all.    *)
(* NoStrandedMessage is inductive with them; its proof first shows what the  *)
(* sum over all roots in PendingFor is and how it changes with one of them.   *)
(***************************************************************************)
EXTENDS SharedQueue, TLAPS, FiniteSetTheorems, WellFoundedInduction

Behind(t) == nextToken = 0 \/ t < nextToken

KnownBehind ==
    ~wrapped => /\ \A kt \in known : Behind(kt[2])
                /\ \A t \in Token : queues[t] # NoQueue => Behind(t)

Inv == TypeOK /\ MapsAgree /\ KnownBehind /\ TokenKeepsMeaning

-----------------------------------------------------------------------------
LEMMA InitInv == Init => Inv
  <1> SUFFICES ASSUME Init PROVE Inv
    OBVIOUS
  <1>1. TypeOK
    <2>1. nextToken \in 0..(TokMod - 1)
      BY TokModAssumption DEF Init
    <2>2. /\ posted \in [Roots \X Token -> Nat]
          /\ ready \in [Roots \X Token -> Nat]
          /\ dropped \in [Token -> Nat]
      BY DEF Init
    <2>3. /\ queueTokens \in [Key -> Token \cup {0}]
          /\ vmQueueKeys \in [VmIds -> SUBSET Key]
          /\ queues \in [Token -> Queue \cup {NoQueue}]
      BY DEF Init
    <2> QED BY <2>1, <2>2, <2>3 DEF Init, TypeOK
  <1>2. MapsAgree
    BY DEF Init, MapsAgree, Token
  <1>3. KnownBehind /\ TokenKeepsMeaning
    BY DEF Init, KnownBehind, TokenKeepsMeaning
  <1> QED BY <1>1, <1>2, <1>3 DEF Inv

(* A step that gives no token away leaves what is known of tokens alone.      *)
LEMMA TablesKept ==
  ASSUME Inv, UNCHANGED tableVars,
         \A t \in Token : (queues'[t] = NoQueue) <=> (queues[t] = NoQueue),
         \A kt \in known' : kt \in known \/ (kt \in Key \X Token /\ queueTokens[kt[1]] = kt[2])
  PROVE  MapsAgree' /\ KnownBehind' /\ TokenKeepsMeaning'
  <1>1. \A k \in Key : queueTokens[k] \in Token \cup {0}
    BY DEF Inv, TypeOK
  <1>2. MapsAgree'
    BY <1>1 DEF Inv, MapsAgree, tableVars
  <1>3. TokenKeepsMeaning'
    BY DEF Inv, TypeOK, TokenKeepsMeaning, tableVars
  <1>4. KnownBehind'
    <2>1. \A k \in Key : queueTokens[k] \in Token => queues[queueTokens[k]] # NoQueue
      BY DEF Inv, MapsAgree, Token
    <2> QED BY <2>1 DEF Inv, KnownBehind, Behind, tableVars
  <1> QED BY <1>2, <1>3, <1>4

LEMMA RegisterNewStep ==
  ASSUME Inv, NEW r \in Roots, NEW k \in Key, RegisterNew(r, k),
         UNCHANGED <<alive, posted, ready, dropped, sends, deaths>>
  PROVE  Inv'
  <1>1. PICK t \in Token :
          /\ IsNextToken(t)
          /\ nextToken' = (t + 1) % TokMod
          /\ wrapped' = (wrapped \/ nextToken = 0 \/ t < nextToken)
          /\ queueTokens' = [queueTokens EXCEPT ![k] = t]
          /\ vmQueueKeys' = [vmQueueKeys EXCEPT ![k[1]] = @ \cup {k}]
          /\ queues' = [queues EXCEPT ![t] = [owner |-> r, msgs |-> <<>>]]
          /\ known' = known \cup {<<k, t>>}
    BY DEF RegisterNew
  <1>2. queues[t] = NoQueue /\ queueTokens[k] = 0
    BY <1>1 DEF IsNextToken, RegisterNew
  <1>3. k[1] \in VmIds
    BY DEF Key
  <1>4. [owner |-> r, msgs |-> <<>>] \in Queue
    BY DEF Queue
  <1>5. t \in 1..(TokMod - 1) /\ (t + 1) % TokMod \in 0..(TokMod - 1)
        /\ ((t + 1) % TokMod = 0 \/ (t + 1) % TokMod = t + 1)
    BY TokModAssumption DEF Token
  <1>6. TypeOK'
    BY <1>1, <1>3, <1>4, <1>5 DEF Inv, TypeOK
  <1>7. \A u \in Token : queues'[u] = IF u = t THEN [owner |-> r, msgs |-> <<>>] ELSE queues[u]
    BY <1>1 DEF Inv, TypeOK
  <1>8. \A j \in Key : queueTokens'[j] = IF j = k THEN t ELSE queueTokens[j]
    BY <1>1 DEF Inv, TypeOK
  <1>9. \A j \in Key : queueTokens[j] # t
    BY <1>2, <1>5 DEF Inv, MapsAgree
  <1>10. [owner |-> r, msgs |-> <<>>] # NoQueue
    BY <1>4, NoQueueAssumption DEF Queue
  <1>11. MapsAgree'
    <2>1. \A j1, j2 \in Key :
             (queueTokens'[j1] = queueTokens'[j2] /\ queueTokens'[j1] # 0) => j1 = j2
      BY <1>8, <1>9 DEF Inv, MapsAgree
    <2>2. \A j \in Key : queueTokens'[j] # 0 => queues'[queueTokens'[j]] # NoQueue
      <3> SUFFICES ASSUME NEW j \in Key, queueTokens'[j] # 0
                   PROVE  queues'[queueTokens'[j]] # NoQueue
        OBVIOUS
      <3>1. CASE j = k
        BY <1>7, <1>8, <1>10, <3>1
      <3>2. CASE j # k
        <4>1. queueTokens'[j] = queueTokens[j] /\ queueTokens[j] \in Token
          BY <1>8, <3>2 DEF Inv, TypeOK
        <4> QED BY <1>7, <1>10, <4>1 DEF Inv, MapsAgree
      <3> QED BY <3>1, <3>2
    <2>3. \A u \in Token : queues'[u] # NoQueue => \E j \in Key : queueTokens'[j] = u
      <3> SUFFICES ASSUME NEW u \in Token, queues'[u] # NoQueue
                   PROVE  \E j \in Key : queueTokens'[j] = u
        OBVIOUS
      <3>1. CASE u = t
        BY <1>8, <3>1
      <3>2. CASE u # t
        <4>1. PICK j \in Key : queueTokens[j] = u
          BY <1>7, <3>2 DEF Inv, MapsAgree
        <4>2. j # k
          BY <1>2, <4>1 DEF Token
        <4> QED BY <1>8, <4>1, <4>2
      <3> QED BY <3>1, <3>2
    <2>4. \A vm \in VmIds : vmQueueKeys'[vm] = {j \in Key : j[1] = vm /\ queueTokens'[j] # 0}
      <3> SUFFICES ASSUME NEW vm \in VmIds
                   PROVE  vmQueueKeys'[vm] = {j \in Key : j[1] = vm /\ queueTokens'[j] # 0}
        OBVIOUS
      <3>1. vmQueueKeys[vm] = {j \in Key : j[1] = vm /\ queueTokens[j] # 0}
        BY DEF Inv, MapsAgree
      <3>2. vmQueueKeys'[vm] = IF vm = k[1] THEN vmQueueKeys[vm] \cup {k} ELSE vmQueueKeys[vm]
        BY <1>1 DEF Inv, TypeOK
      <3>3. t # 0
        BY <1>5
      <3> QED BY <1>8, <3>1, <3>2, <3>3
    <2> QED BY <2>1, <2>2, <2>3, <2>4 DEF MapsAgree
  <1>12. ASSUME ~wrapped'
         PROVE  ~wrapped /\ nextToken # 0 /\ ~(t < nextToken)
    BY <1>1, <1>12
  <1>13. KnownBehind'
    <2> SUFFICES ASSUME ~wrapped', nextToken' # 0
                 PROVE  /\ \A kt \in known' : kt[2] < nextToken'
                        /\ \A u \in Token : queues'[u] # NoQueue => u < nextToken'
      BY DEF KnownBehind, Behind
    <2>1. nextToken' = t + 1
      BY <1>1, <1>5
    <2>2. \A u \in Token : u < nextToken => u < t + 1
      <3> SUFFICES ASSUME NEW u \in Token, u < nextToken PROVE u < t + 1
        OBVIOUS
      <3>1. u \in Int /\ nextToken \in Int
        BY TokModAssumption DEF Inv, TypeOK, Token
      <3> QED BY <1>5, <1>12, <3>1
    <2>3. ASSUME NEW kt \in known'
          PROVE  kt[2] < nextToken'
      <3>1. CASE kt \in known
        <4>1. kt[2] \in Token /\ kt[2] < nextToken
          BY <1>12, <3>1 DEF Inv, TypeOK, KnownBehind, Behind
        <4> QED BY <2>1, <2>2, <4>1
      <3>2. CASE kt = <<k, t>>
        BY <1>5, <2>1, <3>2
      <3> QED BY <1>1, <2>3, <3>1, <3>2
    <2>4. ASSUME NEW u \in Token, queues'[u] # NoQueue
          PROVE  u < nextToken'
      <3>1. CASE u = t
        BY <1>5, <2>1, <3>1
      <3>2. CASE u # t
        BY <1>7, <1>12, <2>1, <2>2, <2>4, <3>2 DEF Inv, KnownBehind, Behind
      <3> QED BY <3>1, <3>2
    <2> QED BY <2>3, <2>4
  <1>14. TokenKeepsMeaning'
    <2> SUFFICES ASSUME ~wrapped', NEW kt \in known', queues'[kt[2]] # NoQueue
                 PROVE  queueTokens'[kt[1]] = kt[2]
      BY DEF TokenKeepsMeaning
    <2>1. CASE kt \in known
      <3>1. kt[2] < nextToken /\ kt[2] \in Token /\ kt[1] \in Key /\ nextToken \in 0..(TokMod - 1)
        BY <1>12, <2>1 DEF Inv, TypeOK, KnownBehind, Behind
      <3>2. kt[2] # t
        BY <1>5, <1>12, <3>1 DEF Token
      <3>3. queues[kt[2]] # NoQueue
        BY <1>7, <3>1, <3>2
      <3>4. queueTokens[kt[1]] = kt[2]
        BY <1>12, <2>1, <3>3 DEF Inv, TokenKeepsMeaning
      <3>5. kt[1] # k
        BY <1>2, <3>1, <3>4 DEF Token
      <3> QED BY <1>8, <3>1, <3>4, <3>5
    <2>2. CASE kt = <<k, t>>
      BY <1>8, <2>2
    <2> QED BY <1>1, <2>1, <2>2
  <1> QED BY <1>6, <1>11, <1>13, <1>14 DEF Inv

LEMMA RegisterAgainStep ==
  ASSUME Inv, NEW r \in Roots, NEW k \in Key, RegisterAgain(r, k),
         UNCHANGED <<alive, posted, ready, dropped, sends, deaths>>
  PROVE  Inv'
  <1> DEFINE t == queueTokens[k]
  <1>1. t \in Token /\ queues' = [queues EXCEPT ![t].owner = r]
        /\ known' = known \cup {<<k, t>>} /\ UNCHANGED tableVars
    BY DEF RegisterAgain, Inv, TypeOK
  <1>2. queues[t] \in Queue
    BY <1>1 DEF Inv, TypeOK, MapsAgree, Token
  <1>3. [queues[t] EXCEPT !.owner = r] \in Queue
    BY <1>2 DEF Queue
  <1>4. \A u \in Token : queues'[u] = IF u = t THEN [queues[t] EXCEPT !.owner = r] ELSE queues[u]
    BY <1>1 DEF Inv, TypeOK
  <1>5. TypeOK'
    BY <1>1, <1>3 DEF Inv, TypeOK, tableVars
  <1>6. \A u \in Token : (queues'[u] = NoQueue) <=> (queues[u] = NoQueue)
    BY <1>2, <1>3, <1>4, NoQueueAssumption DEF Queue
  <1>7. MapsAgree' /\ KnownBehind' /\ TokenKeepsMeaning'
    BY <1>1, <1>6, TablesKept
  <1> QED BY <1>5, <1>7 DEF Inv

LEMMA LookupStep ==
  ASSUME Inv, NEW k \in Key, LookupSharedQueue(k)
  PROVE  Inv'
  <1>1. queueTokens[k] \in Token /\ known' = known \cup {<<k, queueTokens[k]>>}
        /\ UNCHANGED <<tableVars, queues, alive, callVars, sends, deaths>>
    BY DEF LookupSharedQueue, Inv, TypeOK
  <1>2. TypeOK'
    BY <1>1 DEF Inv, TypeOK, tableVars, callVars
  <1>3. MapsAgree' /\ KnownBehind' /\ TokenKeepsMeaning'
    BY <1>1, TablesKept
  <1> QED BY <1>2, <1>3 DEF Inv

LEMMA QueueUpdate ==
  ASSUME NEW q \in Queue, NEW s \in Seq(Msgs)
  PROVE  [q EXCEPT !.msgs = s] \in Queue
  BY DEF Queue

LEMMA EnqueueStep ==
  ASSUME Inv, NEW t \in Token, NEW m \in Msgs, Enqueue(t, m)
  PROVE  Inv'
  <1>1. queues[t] \in Queue
    BY DEF Inv, TypeOK, Enqueue
  <1>2. [queues[t] EXCEPT !.msgs = Append(@, m)] \in Queue
    <2>1. Append(queues[t].msgs, m) \in Seq(Msgs)
      BY <1>1 DEF Queue
    <2> QED BY <1>1, <2>1, QueueUpdate
  <1>3. \A u \in Token : queues'[u] =
           IF u = t THEN [queues[t] EXCEPT !.msgs = Append(@, m)] ELSE queues[u]
    BY DEF Inv, TypeOK, Enqueue
  <1>4. TypeOK'
    <2>1. queues' \in [Token -> Queue \cup {NoQueue}]
      BY <1>2 DEF Inv, TypeOK, Enqueue
    <2>2. posted' \in [Roots \X Token -> Nat] /\ sends' \in Nat
      <3>1. <<queues[t].owner, t>> \in Roots \X Token
        BY <1>1 DEF Queue
      <3> QED BY <3>1 DEF Inv, TypeOK, Enqueue
    <2> QED BY <2>1, <2>2 DEF Inv, TypeOK, Enqueue, tableVars
  <1>5. \A u \in Token : (queues'[u] = NoQueue) <=> (queues[u] = NoQueue)
    BY <1>1, <1>2, <1>3, NoQueueAssumption DEF Queue
  <1>6. MapsAgree' /\ KnownBehind' /\ TokenKeepsMeaning'
    BY <1>5, TablesKept DEF Enqueue
  <1> QED BY <1>4, <1>6 DEF Inv

(* What a dequeue leaves of the queues. *)
LEMMA TakeTypes ==
  ASSUME Inv, NEW t \in Token, Take(t)
  PROVE  /\ queues' \in [Token -> Queue \cup {NoQueue}]
         /\ \A u \in Token : (queues'[u] = NoQueue) <=> (queues[u] = NoQueue)
  <1>1. CASE queues[t] # NoQueue /\ queues[t].msgs # <<>>
    <2>1. queues[t] \in Queue
      BY <1>1 DEF Inv, TypeOK
    <2>2. [queues[t] EXCEPT !.msgs = Tail(@)] \in Queue
      <3>1. Tail(queues[t].msgs) \in Seq(Msgs)
        BY <1>1, <2>1 DEF Queue
      <3> QED BY <2>1, <3>1, QueueUpdate
    <2>3. queues' = [queues EXCEPT ![t].msgs = Tail(@)]
      BY <1>1 DEF Take
    <2>4. \A u \in Token : queues'[u] =
             IF u = t THEN [queues[t] EXCEPT !.msgs = Tail(@)] ELSE queues[u]
      BY <2>3 DEF Inv, TypeOK
    <2> QED BY <2>1, <2>2, <2>3, <2>4, NoQueueAssumption DEF Inv, TypeOK, Queue
  <1>2. CASE ~(queues[t] # NoQueue /\ queues[t].msgs # <<>>)
    BY <1>2 DEF Inv, TypeOK, Take
  <1> QED BY <1>1, <1>2

LEMMA DequeueStep ==
  ASSUME Inv, NEW t \in Token,
         DequeueUnasked(t) \/ \E r \in Roots : DequeueWhenReady(r, t)
  PROVE  Inv'
  <1>1. Take(t) /\ UNCHANGED <<tableVars, known, alive, posted, dropped, sends, deaths>>
    BY DEF DequeueUnasked, DequeueWhenReady, callVars
  <1>2. ready' \in [Roots \X Token -> Nat]
    <2>1. CASE DequeueUnasked(t)
      BY <2>1 DEF Inv, TypeOK, DequeueUnasked, callVars
    <2>2. ASSUME NEW r \in Roots, DequeueWhenReady(r, t)
          PROVE  ready' \in [Roots \X Token -> Nat]
      <3>1. ready[<<r, t>>] - 1 \in Nat
        BY <2>2 DEF Inv, TypeOK, DequeueWhenReady
      <3> QED BY <2>2, <3>1 DEF Inv, TypeOK, DequeueWhenReady
    <2> QED BY <2>1, <2>2
  <1>3. TypeOK'
    BY <1>1, <1>2, TakeTypes DEF Inv, TypeOK, tableVars
  <1>4. MapsAgree' /\ KnownBehind' /\ TokenKeepsMeaning'
    BY <1>1, TakeTypes, TablesKept
  <1> QED BY <1>3, <1>4 DEF Inv

LEMMA DeliverStep ==
  ASSUME Inv, NEW r \in Roots, NEW t \in Token, DeliverNotification(r, t)
  PROVE  Inv'
  <1>1. UNCHANGED <<tableVars, queues, known, alive, sends, deaths>>
    BY DEF DeliverNotification
  <1>2. posted' \in [Roots \X Token -> Nat]
    <2>1. posted[<<r, t>>] - 1 \in Nat
      BY DEF Inv, TypeOK, DeliverNotification
    <2> QED BY <2>1 DEF Inv, TypeOK, DeliverNotification
  <1>3. ready' \in [Roots \X Token -> Nat] /\ dropped' \in [Token -> Nat]
    <2>1. CASE r \in alive
      <3>1. dropped' = dropped /\ ready' = [ready EXCEPT ![<<r, t>>] = @ + 1]
        BY <2>1 DEF DeliverNotification
      <3> QED BY <3>1 DEF Inv, TypeOK
    <2>2. CASE r \notin alive
      <3>1. ready' = ready /\ dropped' = [dropped EXCEPT ![t] = @ + 1]
        BY <2>2 DEF DeliverNotification
      <3> QED BY <3>1 DEF Inv, TypeOK
    <2> QED BY <2>1, <2>2
  <1>4. TypeOK'
    BY <1>1, <1>2, <1>3 DEF Inv, TypeOK, tableVars
  <1>5. MapsAgree' /\ KnownBehind' /\ TokenKeepsMeaning'
    BY <1>1, TablesKept
  <1> QED BY <1>4, <1>5 DEF Inv

LEMMA DeleteStep ==
  ASSUME Inv, NEW vm \in VmIds, DeleteByVmId(vm)
  PROVE  Inv'
  <1> DEFINE keys == vmQueueKeys[vm]
             tokens == {queueTokens[k] : k \in keys}
  <1>1. /\ queueTokens' = [k \in Key |-> IF k \in keys THEN 0 ELSE queueTokens[k]]
        /\ queues' = [t \in Token |-> IF t \in tokens THEN NoQueue ELSE queues[t]]
        /\ vmQueueKeys' = [vmQueueKeys EXCEPT ![vm] = {}]
        /\ UNCHANGED <<nextToken, wrapped, known, alive, callVars, sends, deaths>>
    BY DEF DeleteByVmId
  <1>2. keys = {k \in Key : k[1] = vm /\ queueTokens[k] # 0}
    BY DEF Inv, MapsAgree
  <1>3. TypeOK'
    <2>1. queueTokens' \in [Key -> Token \cup {0}]
      BY <1>1 DEF Inv, TypeOK
    <2>2. queues' \in [Token -> Queue \cup {NoQueue}]
      BY <1>1 DEF Inv, TypeOK
    <2> QED BY <1>1, <2>1, <2>2 DEF Inv, TypeOK, callVars
  <1> HIDE DEF keys
  <1>4. \A k \in Key : queueTokens'[k] = IF k \in keys THEN 0 ELSE queueTokens[k]
    BY <1>1
  <1>5. \A t \in Token : queues'[t] = IF t \in tokens THEN NoQueue ELSE queues[t]
    BY <1>1
  <1>6. \A k \in Key : queueTokens[k] \in tokens => k \in keys
    BY <1>2 DEF Inv, MapsAgree
  <1>7. MapsAgree'
    <2>1. \A j1, j2 \in Key :
             (queueTokens'[j1] = queueTokens'[j2] /\ queueTokens'[j1] # 0) => j1 = j2
      BY <1>4 DEF Inv, MapsAgree
    <2>2. \A j \in Key : queueTokens'[j] # 0 => queues'[queueTokens'[j]] # NoQueue
      <3> SUFFICES ASSUME NEW j \in Key, queueTokens'[j] # 0
                   PROVE  queues'[queueTokens'[j]] # NoQueue
        OBVIOUS
      <3>1. queueTokens'[j] = queueTokens[j] /\ j \notin keys /\ queueTokens[j] \in Token
        BY <1>4 DEF Inv, TypeOK
      <3> QED BY <1>5, <1>6, <3>1 DEF Inv, MapsAgree
    <2>3. \A u \in Token : queues'[u] # NoQueue => \E j \in Key : queueTokens'[j] = u
      <3> SUFFICES ASSUME NEW u \in Token, queues'[u] # NoQueue
                   PROVE  \E j \in Key : queueTokens'[j] = u
        OBVIOUS
      <3>1. u \notin tokens /\ queues[u] # NoQueue
        BY <1>5
      <3>2. PICK j \in Key : queueTokens[j] = u
        BY <3>1 DEF Inv, MapsAgree
      <3>3. j \notin keys
        BY <3>1, <3>2
      <3> QED BY <1>4, <3>2, <3>3
    <2>4. \A v \in VmIds : vmQueueKeys'[v] = {j \in Key : j[1] = v /\ queueTokens'[j] # 0}
      <3> SUFFICES ASSUME NEW v \in VmIds
                   PROVE  vmQueueKeys'[v] = {j \in Key : j[1] = v /\ queueTokens'[j] # 0}
        OBVIOUS
      <3>1. vmQueueKeys'[v] = IF v = vm THEN {} ELSE vmQueueKeys[v]
        BY <1>1 DEF Inv, TypeOK
      <3>2. vmQueueKeys[v] = {j \in Key : j[1] = v /\ queueTokens[j] # 0}
        BY DEF Inv, MapsAgree
      <3> QED BY <1>2, <1>4, <3>1, <3>2
    <2> QED BY <2>1, <2>2, <2>3, <2>4 DEF MapsAgree
  <1>8. KnownBehind'
    BY <1>1, <1>5 DEF Inv, KnownBehind, Behind
  <1>9. TokenKeepsMeaning'
    <2> SUFFICES ASSUME ~wrapped, NEW kt \in known, queues'[kt[2]] # NoQueue
                 PROVE  queueTokens'[kt[1]] = kt[2]
      BY <1>1 DEF TokenKeepsMeaning
    <2>1. kt[1] \in Key /\ kt[2] \in Token
      BY DEF Inv, TypeOK
    <2>2. kt[2] \notin tokens /\ queues[kt[2]] # NoQueue
      BY <1>5, <2>1
    <2>3. queueTokens[kt[1]] = kt[2]
      BY <2>2 DEF Inv, TokenKeepsMeaning
    <2> QED BY <1>4, <2>1, <2>2, <2>3
  <1> QED BY <1>3, <1>7, <1>8, <1>9 DEF Inv

LEMMA VmStep ==
  ASSUME Inv, NEW r \in Roots, VmGone(r) \/ VmCreated(r)
  PROVE  Inv'
  <1>1. UNCHANGED <<tableVars, queues, known, posted, sends>>
    BY DEF VmGone, VmCreated, callVars
  <1>2. /\ alive' \in SUBSET Roots
        /\ ready' \in [Roots \X Token -> Nat]
        /\ dropped' \in [Token -> Nat]
        /\ deaths' \in Nat
    <2>1. CASE VmGone(r)
      BY <2>1 DEF Inv, TypeOK, VmGone
    <2>2. CASE VmCreated(r)
      BY <2>2 DEF Inv, TypeOK, VmCreated, callVars
    <2> QED BY <2>1, <2>2
  <1>3. TypeOK'
    BY <1>1, <1>2 DEF Inv, TypeOK, tableVars
  <1>4. MapsAgree' /\ KnownBehind' /\ TokenKeepsMeaning'
    BY <1>1, TablesKept
  <1> QED BY <1>3, <1>4 DEF Inv

LEMMA InvStep == Inv /\ [Next]_vars => Inv'
  <1> SUFFICES ASSUME Inv, [Next]_vars PROVE Inv'
    OBVIOUS
  <1>1. CASE HostCall
    <2>1. ASSUME NEW r \in Roots, NEW name \in Names, RegisterSharedQueue(r, name)
          PROVE  Inv'
      <3>1. <<RootVmId[r], name>> \in Key
        BY RootsAssumption DEF Key
      <3> QED BY <2>1, <3>1, RegisterNewStep, RegisterAgainStep DEF RegisterSharedQueue
    <2>2. ASSUME NEW k \in Key, LookupSharedQueue(k) PROVE Inv'
      BY <2>2, LookupStep
    <2>3. ASSUME NEW kt \in known, NEW m \in Msgs, Enqueue(kt[2], m) PROVE Inv'
      BY <2>3, EnqueueStep DEF Inv, TypeOK
    <2>4. ASSUME NEW kt \in known, DequeueUnasked(kt[2]) PROVE Inv'
      BY <2>4, DequeueStep DEF Inv, TypeOK
    <2> QED BY <1>1, <2>1, <2>2, <2>3, <2>4 DEF HostCall
  <1>2. CASE Notification
    BY <1>2, DeliverStep, DequeueStep DEF Notification
  <1>3. CASE Lifecycle
    BY <1>3, DeleteStep, VmStep DEF Lifecycle
  <1>4. CASE UNCHANGED vars
    BY <1>4 DEF vars, Inv, TypeOK, MapsAgree, KnownBehind, Behind, TokenKeepsMeaning
  <1> QED BY <1>1, <1>2, <1>3, <1>4 DEF Next

-----------------------------------------------------------------------------
(* Every state of SharedQueue is well-typed; no queue ever has token 0, the   *)
(* value resolveQueue returns for "not found".                               *)
THEOREM TypeCorrect == Spec => []TypeOK
  <1>1. Inv => TypeOK
    BY DEF Inv
  <1> QED BY <1>1, InitInv, InvStep, PTL DEF Spec

(* queue_tokens_, queues_ and vm_queue_keys_ always agree.                    *)
THEOREM MapsAlwaysAgree == Spec => []MapsAgree
  <1>1. Inv => MapsAgree
    BY DEF Inv
  <1> QED BY <1>1, InitInv, InvStep, PTL DEF Spec

(* Before the counter has gone round, a token stays its queue's or nobody's.  *)
THEOREM TokensAreStable == Spec => []TokenKeepsMeaning
  <1>1. Inv => TokenKeepsMeaning
    BY DEF Inv
  <1> QED BY <1>1, InitInv, InvStep, PTL DEF Spec

-----------------------------------------------------------------------------
(* The refinement: the channel of a key is the queue its token names.          *)
OpenBar == {k \in Key : queueTokens[k] # 0}
ChanBar == [k \in Key |-> IF queueTokens[k] = 0 THEN <<>> ELSE queues[queueTokens[k]].msgs]

AbstractStep == Chan!ChanNext \/ UNCHANGED <<OpenBar, ChanBar>>

LEMMA SameChannels ==
  ASSUME UNCHANGED queueTokens,
         \A k \in Key : queueTokens[k] # 0
             => queues'[queueTokens[k]].msgs = queues[queueTokens[k]].msgs
  PROVE  AbstractStep
  BY DEF AbstractStep, OpenBar, ChanBar

LEMMA RegisterNewOpens ==
  ASSUME Inv, NEW r \in Roots, NEW k \in Key, RegisterNew(r, k)
  PROVE  AbstractStep
  <1>1. PICK t \in Token :
          /\ IsNextToken(t)
          /\ queueTokens' = [queueTokens EXCEPT ![k] = t]
          /\ queues' = [queues EXCEPT ![t] = [owner |-> r, msgs |-> <<>>]]
    BY DEF RegisterNew
  <1>2. queues[t] = NoQueue /\ queueTokens[k] = 0 /\ t # 0
    BY <1>1 DEF IsNextToken, RegisterNew, Token
  <1>3. \A j \in Key : queueTokens'[j] = IF j = k THEN t ELSE queueTokens[j]
    BY <1>1 DEF Inv, TypeOK
  <1>4. \A j \in Key : queueTokens[j] # t
    BY <1>2 DEF Inv, MapsAgree
  <1>5. \A u \in Token : queues'[u] = IF u = t THEN [owner |-> r, msgs |-> <<>>] ELSE queues[u]
    BY <1>1 DEF Inv, TypeOK
  <1>6. OpenBar' = OpenBar \cup {k} /\ k \notin OpenBar
    BY <1>2, <1>3 DEF OpenBar
  <1>7. ChanBar' = ChanBar
    <2> SUFFICES ASSUME NEW j \in Key
                 PROVE  (IF queueTokens'[j] = 0 THEN <<>> ELSE queues'[queueTokens'[j]].msgs)
                          = (IF queueTokens[j] = 0 THEN <<>> ELSE queues[queueTokens[j]].msgs)
      BY DEF ChanBar
    <2>1. CASE j = k
      BY <1>2, <1>3, <1>5, <2>1
    <2>2. CASE j # k
      <3>1. queueTokens'[j] = queueTokens[j] /\ queueTokens[j] \in Token \cup {0}
        BY <1>3, <2>2 DEF Inv, TypeOK
      <3> QED BY <1>4, <1>5, <3>1
    <2> QED BY <2>1, <2>2
  <1>8. Chan!Open(k)
    BY <1>6, <1>7 DEF Chan!Open, OpenBar, ChanBar
  <1> QED BY <1>8 DEF AbstractStep, Chan!ChanNext, Chan!Key, Key

LEMMA RegisterAgainStutters ==
  ASSUME Inv, NEW r \in Roots, NEW k \in Key, RegisterAgain(r, k)
  PROVE  AbstractStep
  <1> DEFINE t == queueTokens[k]
  <1>1. t \in Token /\ UNCHANGED tableVars /\ queues' = [queues EXCEPT ![t].owner = r]
    BY DEF RegisterAgain, Inv, TypeOK
  <1>2. queues[t] \in Queue
    BY <1>1 DEF Inv, TypeOK, MapsAgree, Token
  <1>3. \A u \in Token : queues'[u] = IF u = t THEN [queues[t] EXCEPT !.owner = r] ELSE queues[u]
    BY <1>1 DEF Inv, TypeOK
  <1>4. [queues[t] EXCEPT !.owner = r].msgs = queues[t].msgs
    BY <1>2 DEF Queue
  <1>5. \A j \in Key : queueTokens[j] # 0 => queueTokens[j] \in Token
    BY DEF Inv, TypeOK
  <1> QED BY <1>1, <1>3, <1>4, <1>5, SameChannels DEF tableVars

(* A change of the messages of one queue is a change of one channel. *)
LEMMA OneChannel ==
  ASSUME Inv, NEW t \in Token, NEW k \in Key, queueTokens[k] = t,
         UNCHANGED queueTokens,
         \A u \in Token : u # t => queues'[u] = queues[u]
  PROVE  /\ k \in OpenBar
         /\ ChanBar[k] = queues[t].msgs
         /\ UNCHANGED OpenBar
         /\ ChanBar' = [ChanBar EXCEPT ![k] = queues'[t].msgs]
  <1>1. t # 0
    BY DEF Token
  <1>2. \A j \in Key : j # k => queueTokens[j] # t
    BY <1>1 DEF Inv, MapsAgree
  <1>3. \A j \in Key : queueTokens[j] # 0 => queueTokens[j] \in Token
    BY DEF Inv, TypeOK
  <1>4. ASSUME NEW j \in Key
        PROVE  (IF queueTokens[j] = 0 THEN <<>> ELSE queues'[queueTokens[j]].msgs)
                 = IF j = k THEN queues'[t].msgs
                   ELSE IF queueTokens[j] = 0 THEN <<>> ELSE queues[queueTokens[j]].msgs
    <2>1. CASE j = k
      BY <1>1, <2>1
    <2>2. CASE j # k
      BY <1>2, <1>3, <2>2
    <2> QED BY <2>1, <2>2
  <1>5. ChanBar' = [ChanBar EXCEPT ![k] = queues'[t].msgs]
    BY <1>4 DEF ChanBar
  <1> QED BY <1>1, <1>5 DEF OpenBar, ChanBar

LEMMA QueueChange ==
  ASSUME Inv, NEW t \in Token, queues[t] # NoQueue, NEW s,
         queues' = [queues EXCEPT ![t].msgs = s]
  PROVE  /\ queues'[t].msgs = s
         /\ \A u \in Token : u # t => queues'[u] = queues[u]
  <1>1. queues[t] \in Queue
    BY DEF Inv, TypeOK
  <1>2. [queues[t] EXCEPT !.msgs = s].msgs = s
    BY <1>1 DEF Queue
  <1> QED BY <1>2 DEF Inv, TypeOK

LEMMA EnqueueSends ==
  ASSUME Inv, NEW t \in Token, NEW m \in Msgs, Enqueue(t, m)
  PROVE  AbstractStep
  <1>1. PICK k \in Key : queueTokens[k] = t
    BY DEF Inv, MapsAgree, Enqueue
  <1>2. /\ queues'[t].msgs = Append(queues[t].msgs, m)
        /\ \A u \in Token : u # t => queues'[u] = queues[u]
    BY QueueChange DEF Enqueue
  <1>3. /\ k \in OpenBar /\ UNCHANGED OpenBar
        /\ ChanBar[k] = queues[t].msgs
        /\ ChanBar' = [ChanBar EXCEPT ![k] = queues'[t].msgs]
    BY <1>1, <1>2, OneChannel DEF Enqueue, tableVars
  <1>4. Chan!Send(k, m)
    BY <1>2, <1>3 DEF Chan!Send, OpenBar, ChanBar
  <1> QED BY <1>4 DEF AbstractStep, Chan!ChanNext, Chan!Key, Key

LEMMA TakeReceives ==
  ASSUME Inv, NEW t \in Token, Take(t), UNCHANGED queueTokens
  PROVE  AbstractStep
  <1>1. CASE queues[t] # NoQueue /\ queues[t].msgs # <<>>
    <2>1. PICK k \in Key : queueTokens[k] = t
      BY <1>1 DEF Inv, MapsAgree
    <2>2. /\ queues'[t].msgs = Tail(queues[t].msgs)
          /\ \A u \in Token : u # t => queues'[u] = queues[u]
      BY <1>1, QueueChange DEF Take
    <2>3. /\ k \in OpenBar /\ UNCHANGED OpenBar
          /\ ChanBar[k] = queues[t].msgs
          /\ ChanBar' = [ChanBar EXCEPT ![k] = queues'[t].msgs]
      BY <2>1, <2>2, OneChannel
    <2>4. Chan!Receive(k)
      BY <1>1, <2>2, <2>3 DEF Chan!Receive, OpenBar, ChanBar
    <2> QED BY <2>4 DEF AbstractStep, Chan!ChanNext, Chan!Key, Key
  <1>2. CASE ~(queues[t] # NoQueue /\ queues[t].msgs # <<>>)
    BY <1>2, SameChannels DEF Take
  <1> QED BY <1>1, <1>2

LEMMA DeleteCloses ==
  ASSUME Inv, NEW vm \in VmIds, DeleteByVmId(vm)
  PROVE  AbstractStep
  <1> DEFINE keys == vmQueueKeys[vm]
             tokens == {queueTokens[k] : k \in keys}
  <1>1. keys = {k \in Key : k[1] = vm /\ queueTokens[k] # 0}
    BY DEF Inv, MapsAgree
  <1>2. \A k \in Key : queueTokens'[k] = IF k[1] = vm THEN 0 ELSE queueTokens[k]
    BY <1>1 DEF DeleteByVmId
  <1>3. \A t \in Token : queues'[t] = IF t \in tokens THEN NoQueue ELSE queues[t]
    BY DEF DeleteByVmId
  <1>4. \A k \in Key : (k[1] # vm /\ queueTokens[k] # 0)
           => queueTokens[k] \in Token /\ queueTokens[k] \notin tokens
    BY <1>1 DEF Inv, TypeOK, MapsAgree
  <1>5. OpenBar' = {k \in OpenBar : k[1] # vm}
    BY <1>2 DEF OpenBar
  <1>6. ChanBar' = [k \in Key |-> IF k[1] = vm THEN <<>> ELSE ChanBar[k]]
    <2> SUFFICES ASSUME NEW k \in Key
                 PROVE  (IF queueTokens'[k] = 0 THEN <<>> ELSE queues'[queueTokens'[k]].msgs)
                          = IF k[1] = vm THEN <<>>
                            ELSE IF queueTokens[k] = 0 THEN <<>> ELSE queues[queueTokens[k]].msgs
      BY DEF ChanBar
    <2>1. CASE k[1] = vm
      BY <1>2, <2>1
    <2>2. CASE k[1] # vm
      BY <1>2, <1>3, <1>4, <2>2
    <2> QED BY <2>1, <2>2
  <1>7. Chan!Close(vm)
    BY <1>5, <1>6 DEF Chan!Close, Chan!Key, Key, OpenBar, ChanBar
  <1> QED BY <1>7 DEF AbstractStep, Chan!ChanNext

LEMMA StepSimulation == Inv /\ [Next]_vars => AbstractStep
  <1> SUFFICES ASSUME Inv, [Next]_vars PROVE AbstractStep
    OBVIOUS
  <1>1. CASE HostCall
    <2>1. ASSUME NEW r \in Roots, NEW name \in Names, RegisterSharedQueue(r, name)
          PROVE  AbstractStep
      <3>1. <<RootVmId[r], name>> \in Key
        BY RootsAssumption DEF Key
      <3> QED BY <2>1, <3>1, RegisterNewOpens, RegisterAgainStutters DEF RegisterSharedQueue
    <2>2. ASSUME NEW k \in Key, LookupSharedQueue(k) PROVE AbstractStep
      BY <2>2, SameChannels DEF LookupSharedQueue, tableVars
    <2>3. ASSUME NEW kt \in known, NEW m \in Msgs, Enqueue(kt[2], m) PROVE AbstractStep
      BY <2>3, EnqueueSends DEF Inv, TypeOK
    <2>4. ASSUME NEW kt \in known, DequeueUnasked(kt[2]) PROVE AbstractStep
      BY <2>4, TakeReceives DEF Inv, TypeOK, DequeueUnasked, tableVars
    <2> QED BY <1>1, <2>1, <2>2, <2>3, <2>4 DEF HostCall
  <1>2. CASE Notification
    <2>1. ASSUME NEW r \in Roots, NEW t \in Token, DeliverNotification(r, t)
          PROVE  AbstractStep
      BY <2>1, SameChannels DEF DeliverNotification, tableVars
    <2>2. ASSUME NEW r \in Roots, NEW t \in Token, DequeueWhenReady(r, t)
          PROVE  AbstractStep
      BY <2>2, TakeReceives DEF DequeueWhenReady, tableVars
    <2> QED BY <1>2, <2>1, <2>2 DEF Notification
  <1>3. CASE Lifecycle
    <2>1. ASSUME NEW r \in Roots, VmGone(r) \/ VmCreated(r) PROVE AbstractStep
      BY <2>1, SameChannels DEF VmGone, VmCreated, tableVars
    <2> QED BY <1>3, <2>1, DeleteCloses DEF Lifecycle
  <1>4. CASE UNCHANGED vars
    BY <1>4, SameChannels DEF vars
  <1> QED BY <1>1, <1>2, <1>3, <1>4 DEF Next

(* The token tables, the owners and the notifications together behave as one  *)
(* FIFO channel a name.                                                       *)
THEOREM QueuesAreChannels == Spec => ImplementsChannels
  <1>1. Init => Chan!ChanInit
    BY DEF Init, Chan!ChanInit, Chan!Key, Key
  <1>2. Inv /\ [Next]_vars => [Chan!ChanNext]_<<OpenBar, ChanBar>>
    BY StepSimulation DEF AbstractStep
  <1> QED BY <1>1, <1>2, InitInv, InvStep, PTL
          DEF Spec, ImplementsChannels, Chan!ChanSpec, OpenBar, ChanBar

-----------------------------------------------------------------------------
(* The sum of w over Roots, the way MapThenSumSet computes it: one chosen     *)
(* root after the other.                                                     *)
First(s) == CHOOSE r \in s : TRUE
IsPartialSum(w, f) ==
    f = [s \in SUBSET Roots |-> IF s = {} THEN 0 ELSE w[First(s)] + f[s \ {First(s)}]]
PartialSum(w) == CHOOSE f : IsPartialSum(w, f)
Total(w) == PartialSum(w)[Roots]

Pending == [t \in Token |-> [r \in Roots |-> posted[<<r, t>>] + ready[<<r, t>>]]]

LEMMA PendingIsTotal ==
  ASSUME NEW t \in Token
  PROVE  /\ PendingFor(t) = Total(Pending[t])
         /\ PendingFor(t)' = Total(Pending'[t])
  <1>1. PendingFor(t) = Total([r \in Roots |-> posted[<<r, t>>] + ready[<<r, t>>]])
    BY DEF PendingFor, MapThenSumSet, MapThenFoldSet, Total, PartialSum, IsPartialSum, First
  <1>2. PendingFor(t)' = Total([r \in Roots |-> posted'[<<r, t>>] + ready'[<<r, t>>]])
    BY DEF PendingFor, MapThenSumSet, MapThenFoldSet, Total, PartialSum, IsPartialSum, First
  <1> QED BY <1>1, <1>2 DEF Pending

LEMMA CountUp ==
  ASSUME NEW G \in SUBSET Nat, 0 \in G, \A n \in G : n + 1 \in G
  PROVE  G = Nat
  <1> DEFINE R == {ss \in Nat \X Nat : ss[1] < ss[2]}
             B == Nat \ G
  <1>1. R = OpToRel(<, Nat)
    BY DEF OpToRel
  <1>2. IsWellFoundedOn(R, Nat)
    BY <1>1, NatLessThanWellFounded
  <1>3. ASSUME B # {} PROVE FALSE
    <2>1. PICK m \in B : \A k \in B : <<k, m>> \notin R
      <3> HIDE DEF R
      <3> QED BY <1>2, <1>3, WFMin
    <2>2. m \in Nat /\ m # 0 /\ m - 1 \in Nat /\ m - 1 < m /\ m - 1 + 1 = m
      OBVIOUS
    <2>3. m - 1 \notin B
      BY <2>1, <2>2
    <2> QED BY <2>1, <2>2, <2>3
  <1> QED BY <1>3

LEMMA Smaller ==
  ASSUME NEW s \in SUBSET Roots, s # {}
  PROVE  /\ First(s) \in s
         /\ s \ {First(s)} \in SUBSET Roots
         /\ Cardinality(s) \in Nat /\ Cardinality(s) # 0
         /\ Cardinality(s \ {First(s)}) = Cardinality(s) - 1
  <1>1. First(s) \in s
    BY DEF First
  <1>2. IsFiniteSet(s)
    BY RootsFinite, FS_Subset
  <1> HIDE DEF First
  <1>3. Cardinality(s) \in Nat
    BY <1>2, FS_CardinalityType
  <1>4. Cardinality(s) # 0
    BY <1>2, FS_EmptySet
  <1>5. Cardinality(s \ {First(s)}) = Cardinality(s) - 1
    BY <1>1, <1>2, FS_RemoveElement
  <1> QED BY <1>1, <1>3, <1>4, <1>5

(* What holds of no root, and of a set if it does with its first root left     *)
(* out, holds of every set of roots.                                         *)
LEMMA RootByRoot ==
  ASSUME NEW Good \in SUBSET SUBSET Roots,
         {} \in Good,
         \A s \in SUBSET Roots : (s # {} /\ s \ {First(s)} \in Good) => s \in Good
  PROVE  Good = SUBSET Roots
  <1> DEFINE G == {n \in Nat : \A s \in SUBSET Roots : Cardinality(s) = n => s \in Good}
  <1>1. 0 \in G
    BY Smaller
  <1>2. ASSUME NEW n \in G PROVE n + 1 \in G
    <2>1. ASSUME NEW s \in SUBSET Roots, Cardinality(s) = n + 1 PROVE s \in Good
      <3>1. s # {}
        BY <2>1, FS_EmptySet
      <3>2. Cardinality(s \ {First(s)}) = n /\ s \ {First(s)} \in SUBSET Roots
        BY <2>1, <3>1, Smaller
      <3>3. s \ {First(s)} \in Good
        BY <3>2
      <3> QED BY <3>1, <3>3
    <2> QED BY <2>1
  <1>3. G = Nat
    <2>1. G \in SUBSET Nat
      OBVIOUS
    <2> HIDE DEF G
    <2> QED BY <1>1, <1>2, <2>1, CountUp
  <1>4. ASSUME NEW s \in SUBSET Roots PROVE s \in Good
    <2>1. Cardinality(s) \in Nat
      BY RootsFinite, FS_Subset, FS_CardinalityType
    <2> QED BY <1>3, <2>1
  <1> QED BY <1>4

LEMMA PartialSumExists ==
  ASSUME NEW w \in [Roots -> Nat]
  PROVE  IsPartialSum(w, PartialSum(w))
  <1> DEFINE Adds(f, s) == f[s] = IF s = {} THEN 0 ELSE w[First(s)] + f[s \ {First(s)}]
             G == {n \in Nat : \E f \in [SUBSET Roots -> Nat] :
                      \A s \in SUBSET Roots : Cardinality(s) <= n => Adds(f, s)}
  <1>1. 0 \in G
    <2> DEFINE z == [s \in SUBSET Roots |-> 0]
    <2>1. \A s \in SUBSET Roots : Cardinality(s) <= 0 => Adds(z, s)
      <3> SUFFICES ASSUME NEW s \in SUBSET Roots, Cardinality(s) <= 0 PROVE Adds(z, s)
        OBVIOUS
      <3>1. s = {}
        <4>1. ASSUME s # {} PROVE FALSE
          <5>1. Cardinality(s) \in Nat /\ Cardinality(s) # 0
            BY <4>1, Smaller
          <5> QED BY <5>1
        <4> QED BY <4>1
      <3> QED BY <3>1
    <2>2. z \in [SUBSET Roots -> Nat]
      OBVIOUS
    <2> HIDE DEF z, Adds
    <2> QED BY <2>1, <2>2
  <1>2. ASSUME NEW n \in G PROVE n + 1 \in G
    <2>1. PICK f \in [SUBSET Roots -> Nat] :
             \A s \in SUBSET Roots : Cardinality(s) <= n => Adds(f, s)
      OBVIOUS
    <2> DEFINE g == [s \in SUBSET Roots |->
                       IF Cardinality(s) <= n THEN f[s] ELSE
                       IF s = {} THEN 0 ELSE w[First(s)] + f[s \ {First(s)}]]
    <2>2. g \in [SUBSET Roots -> Nat]
      <3> SUFFICES ASSUME NEW s \in SUBSET Roots, s # {}
                   PROVE  w[First(s)] + f[s \ {First(s)}] \in Nat
        OBVIOUS
      <3>1. First(s) \in Roots /\ s \ {First(s)} \in SUBSET Roots
        BY Smaller
      <3>2. w[First(s)] \in Nat /\ f[s \ {First(s)}] \in Nat
        BY <3>1
      <3> QED BY <3>2
    <2>3. ASSUME NEW s \in SUBSET Roots, Cardinality(s) <= n + 1 PROVE Adds(g, s)
      <3>1. CASE s = {}
        <4>1. Cardinality(s) <= n
          BY <3>1, FS_EmptySet
        <4> QED BY <2>1, <3>1, <4>1
      <3>2. CASE s # {}
        <4> DEFINE u == s \ {First(s)}
        <4>1. u \in SUBSET Roots /\ Cardinality(s) \in Nat /\ Cardinality(u) = Cardinality(s) - 1
          BY <3>2, Smaller
        <4>2. Cardinality(u) <= n
          BY <2>3, <4>1
        <4>3. g[u] = f[u]
          BY <4>1, <4>2
        <4>4. g[s] = w[First(s)] + f[u]
          <5>1. CASE Cardinality(s) <= n
            BY <2>1, <3>2, <5>1
          <5>2. CASE ~(Cardinality(s) <= n)
            BY <3>2, <5>2
          <5> QED BY <5>1, <5>2
        <4> HIDE DEF g
        <4> QED BY <3>2, <4>3, <4>4
      <3> QED BY <3>1, <3>2
    <2> HIDE DEF g, Adds
    <2> QED BY <2>2, <2>3
  <1>3. G = Nat
    <2>1. G \in SUBSET Nat
      OBVIOUS
    <2> HIDE DEF G
    <2> QED BY <1>1, <1>2, <2>1, CountUp
  <1>4. Cardinality(Roots) \in Nat
        /\ \A s \in SUBSET Roots : Cardinality(s) <= Cardinality(Roots)
    BY RootsFinite, FS_Subset, FS_CardinalityType
  <1>5. PICK f \in [SUBSET Roots -> Nat] : \A s \in SUBSET Roots : Adds(f, s)
    <2>1. Cardinality(Roots) \in G
      BY <1>3, <1>4
    <2> QED BY <1>4, <2>1
  <1>6. IsPartialSum(w, f)
    BY <1>5 DEF IsPartialSum
  <1> QED BY <1>6 DEF PartialSum

LEMMA PartialSumAdds ==
  ASSUME NEW w \in [Roots -> Nat]
  PROVE  /\ PartialSum(w)[{}] = 0
         /\ \A s \in SUBSET Roots : s # {} =>
               PartialSum(w)[s] = w[First(s)] + PartialSum(w)[s \ {First(s)}]
         /\ \A s \in SUBSET Roots : PartialSum(w)[s] \in Nat
  <1> DEFINE f == PartialSum(w)
             Good == {s \in SUBSET Roots : f[s] \in Nat}
  <1>1. f = [s \in SUBSET Roots |-> IF s = {} THEN 0 ELSE w[First(s)] + f[s \ {First(s)}]]
    BY PartialSumExists DEF IsPartialSum
  <1> HIDE DEF f
  <1>2. f[{}] = 0
    BY <1>1
  <1>3. \A s \in SUBSET Roots : s # {} => f[s] = w[First(s)] + f[s \ {First(s)}]
    BY <1>1
  <1>4. ASSUME NEW s \in SUBSET Roots, s # {}, s \ {First(s)} \in Good PROVE s \in Good
    <2>1. w[First(s)] \in Nat
      BY <1>4, Smaller
    <2>2. f[s \ {First(s)}] \in Nat
      BY <1>4
    <2>3. w[First(s)] + f[s \ {First(s)}] \in Nat
      BY <2>1, <2>2
    <2> QED BY <1>3, <1>4, <2>3
  <1>5. Good = SUBSET Roots
    <2>1. {} \in Good
      BY <1>2
    <2> HIDE DEF Good
    <2>2. Good \in SUBSET SUBSET Roots
      BY DEF Good
    <2> QED BY <1>4, <2>1, <2>2, RootByRoot
  <1> QED BY <1>2, <1>3, <1>5 DEF f

(* A change of one root's count changes the total by as much. *)
LEMMA TotalChange ==
  ASSUME NEW v \in [Roots -> Nat], NEW w \in [Roots -> Nat], NEW r \in Roots,
         \A q \in Roots : q # r => w[q] = v[q]
  PROVE  /\ Total(v) \in Nat /\ Total(w) \in Nat
         /\ Total(w) = Total(v) + w[r] - v[r]
  <1> DEFINE f == PartialSum(v)
             g == PartialSum(w)
             Good == {s \in SUBSET Roots : g[s] = f[s] + (IF r \in s THEN w[r] - v[r] ELSE 0)}
  <1>1. /\ f[{}] = 0 /\ g[{}] = 0
        /\ \A s \in SUBSET Roots : f[s] \in Nat /\ g[s] \in Nat
        /\ \A s \in SUBSET Roots : s # {} => /\ f[s] = v[First(s)] + f[s \ {First(s)}]
                                             /\ g[s] = w[First(s)] + g[s \ {First(s)}]
    BY PartialSumAdds
  <1> HIDE DEF f, g
  <1>2. ASSUME NEW s \in SUBSET Roots, s # {}, s \ {First(s)} \in Good PROVE s \in Good
    <2> DEFINE u == s \ {First(s)}
    <2>1. First(s) \in s /\ u \in SUBSET Roots
      BY <1>2, Smaller
    <2>2. f[u] \in Nat /\ g[u] \in Nat /\ v[r] \in Nat /\ w[r] \in Nat
          /\ v[First(s)] \in Nat /\ w[First(s)] \in Nat
      BY <1>1, <2>1
    <2>3. g[u] = f[u] + (IF r \in u THEN w[r] - v[r] ELSE 0)
      BY <1>2
    <2>4. f[s] = v[First(s)] + f[u] /\ g[s] = w[First(s)] + g[u]
      BY <1>1, <1>2
    <2>5. CASE First(s) = r
      <3>1. r \in s /\ r \notin u
        BY <2>1, <2>5
      <3>2. g[s] = f[s] + (w[r] - v[r])
        BY <2>2, <2>3, <2>4, <2>5, <3>1
      <3> QED BY <3>1, <3>2
    <2>6. CASE First(s) # r
      <3>1. (r \in s <=> r \in u) /\ w[First(s)] = v[First(s)]
        BY <2>1, <2>6
      <3> QED BY <2>2, <2>3, <2>4, <3>1
    <2> QED BY <2>5, <2>6
  <1>3. Good = SUBSET Roots
    <2>1. {} \in Good
      BY <1>1
    <2>2. Good \in SUBSET SUBSET Roots
      OBVIOUS
    <2> HIDE DEF Good
    <2> QED BY <1>2, <2>1, <2>2, RootByRoot
  <1>4. g[Roots] = f[Roots] + (w[r] - v[r])
    BY <1>3
  <1>5. f[Roots] \in Nat /\ g[Roots] \in Nat /\ v[r] \in Nat /\ w[r] \in Nat
    BY <1>1
  <1> QED BY <1>4, <1>5 DEF Total, f, g

-----------------------------------------------------------------------------
(* NoStrandedMessage is inductive with TypeOK.                               *)
Length(t) == Len(queues[t].msgs)

LEMMA StrandedMeans ==
  /\ NoStrandedMessage <=> \A t \in Token : queues[t] # NoQueue =>
                              Length(t) <= Total(Pending[t]) + dropped[t]
  /\ NoStrandedMessage' <=> \A t \in Token : queues'[t] # NoQueue =>
                              Length(t)' <= Total(Pending'[t]) + dropped'[t]
  <1>1. NoStrandedMessage <=> \A t \in Token : queues[t] # NoQueue =>
                                 Length(t) <= Total(Pending[t]) + dropped[t]
    BY PendingIsTotal DEF NoStrandedMessage, Length
  <1>2. NoStrandedMessage' <=> \A t \in Token : queues'[t] # NoQueue =>
                                  Length(t)' <= Total(Pending'[t]) + dropped'[t]
    <2>1. \A t \in Token : PendingFor(t)' = Total(Pending'[t])
      BY PendingIsTotal
    <2> QED BY <2>1 DEF NoStrandedMessage, Length
  <1> QED BY <1>1, <1>2

(* The counts of one root change; those of the others do not. *)
LEMMA PendingChange ==
  ASSUME TypeOK, TypeOK', NEW r \in Roots,
         \A q \in Roots, t \in Token : q # r =>
            posted'[<<q, t>>] = posted[<<q, t>>] /\ ready'[<<q, t>>] = ready[<<q, t>>]
  PROVE  \A t \in Token :
            /\ Total(Pending[t]) \in Nat /\ Total(Pending'[t]) \in Nat
            /\ Total(Pending'[t]) = Total(Pending[t])
                 + (posted'[<<r, t>>] + ready'[<<r, t>>]) - (posted[<<r, t>>] + ready[<<r, t>>])
  <1> SUFFICES ASSUME NEW t \in Token
               PROVE  /\ Total(Pending[t]) \in Nat /\ Total(Pending'[t]) \in Nat
                      /\ Total(Pending'[t]) = Total(Pending[t])
                           + (posted'[<<r, t>>] + ready'[<<r, t>>])
                           - (posted[<<r, t>>] + ready[<<r, t>>])
    OBVIOUS
  <1> DEFINE v == Pending[t]
             w == Pending'[t]
  <1>1. v \in [Roots -> Nat] /\ w \in [Roots -> Nat]
    <2>1. \A q \in Roots : /\ posted[<<q, t>>] \in Nat /\ ready[<<q, t>>] \in Nat
                           /\ posted'[<<q, t>>] \in Nat /\ ready'[<<q, t>>] \in Nat
      BY DEF TypeOK
    <2>2. \A q \in Roots : /\ posted[<<q, t>>] + ready[<<q, t>>] \in Nat
                           /\ posted'[<<q, t>>] + ready'[<<q, t>>] \in Nat
      BY <2>1
    <2> QED BY <2>2 DEF Pending
  <1>2. \A q \in Roots : /\ v[q] = posted[<<q, t>>] + ready[<<q, t>>]
                         /\ w[q] = posted'[<<q, t>>] + ready'[<<q, t>>]
    BY DEF Pending
  <1>3. \A q \in Roots : q # r => w[q] = v[q]
    BY <1>2
  <1> HIDE DEF v, w
  <1>4. /\ Total(v) \in Nat /\ Total(w) \in Nat
        /\ Total(w) = Total(v) + w[r] - v[r]
    BY <1>1, <1>3, TotalChange
  <1> QED BY <1>2, <1>4 DEF v, w

LEMMA PendingNat ==
  ASSUME TypeOK, NEW t \in Token
  PROVE  Total(Pending[t]) \in Nat
  <1>1. Pending[t] \in [Roots -> Nat]
    <2>1. \A q \in Roots : posted[<<q, t>>] \in Nat /\ ready[<<q, t>>] \in Nat
      BY DEF TypeOK
    <2>2. \A q \in Roots : posted[<<q, t>>] + ready[<<q, t>>] \in Nat
      BY <2>1
    <2> QED BY <2>2 DEF Pending
  <1>2. Roots \in SUBSET Roots
    OBVIOUS
  <1> HIDE DEF Pending
  <1> QED BY <1>1, <1>2, PartialSumAdds DEF Total

(* Queues that are shorter or gone, with the same counts. *)
LEMMA NoLonger ==
  ASSUME TypeOK, NoStrandedMessage, UNCHANGED <<posted, ready, dropped>>,
         \A t \in Token : queues'[t] # NoQueue =>
            /\ Length(t)' \in Nat
            /\ \/ Length(t)' = 0
               \/ queues[t] # NoQueue /\ Length(t) \in Nat /\ Length(t)' <= Length(t)
  PROVE  NoStrandedMessage'
  <1>1. Pending' = Pending
    BY DEF Pending
  <1> SUFFICES ASSUME NEW t \in Token, queues'[t] # NoQueue
               PROVE  Length(t)' <= Total(Pending'[t]) + dropped'[t]
    BY StrandedMeans
  <1>2. Total(Pending[t]) \in Nat /\ dropped[t] \in Nat
    BY PendingNat DEF TypeOK
  <1>3. queues[t] # NoQueue => Length(t) <= Total(Pending[t]) + dropped[t]
    BY StrandedMeans
  <1> HIDE DEF Pending
  <1> DEFINE a == Length(t)
             b == Length(t)'
             p == Total(Pending[t])
  <1>4. b \in Nat /\ (b = 0 \/ (queues[t] # NoQueue /\ a \in Nat /\ b <= a))
    OBVIOUS
  <1>5. b <= p + dropped[t]
    <2> HIDE DEF a, b, p
    <2> QED BY <1>2, <1>3, <1>4 DEF a, p
  <1> QED BY <1>1, <1>5

LEMMA QueueLength ==
  ASSUME TypeOK, NEW t \in Token, queues[t] # NoQueue
  PROVE  /\ queues[t] \in Queue /\ queues[t].msgs \in Seq(Msgs)
         /\ Length(t) \in Nat
  BY DEF TypeOK, Queue, Length

LEMMA RegisterStrandsNone ==
  ASSUME Inv, Inv', NoStrandedMessage, NEW r \in Roots, NEW k \in Key,
         RegisterNew(r, k) \/ RegisterAgain(r, k), UNCHANGED <<posted, ready, dropped>>
  PROVE  NoStrandedMessage'
  <1>1. ASSUME NEW u \in Token, queues'[u] # NoQueue
        PROVE  Length(u)' = 0 \/ (queues[u] # NoQueue /\ Length(u)' = Length(u))
    <2>1. CASE RegisterNew(r, k)
      <3>1. PICK t \in Token : queues' = [queues EXCEPT ![t] = [owner |-> r, msgs |-> <<>>]]
        BY <2>1 DEF RegisterNew
      <3>2. queues'[u] = IF u = t THEN [owner |-> r, msgs |-> <<>>] ELSE queues[u]
        BY <3>1 DEF Inv, TypeOK
      <3> QED BY <1>1, <3>2 DEF Length
    <2>2. CASE RegisterAgain(r, k)
      <3> DEFINE t == queueTokens[k]
      <3>1. t \in Token /\ queues' = [queues EXCEPT ![t].owner = r]
        BY <2>2 DEF RegisterAgain, Inv, TypeOK
      <3>2. queues[t] # NoQueue
        BY <3>1 DEF Inv, MapsAgree, Token
      <3>3. queues[t] \in Queue
        BY <3>1, <3>2 DEF Inv, TypeOK
      <3>4. [queues[t] EXCEPT !.owner = r].msgs = queues[t].msgs
        BY <3>3 DEF Queue
      <3>5. queues'[u] = IF u = t THEN [queues[t] EXCEPT !.owner = r] ELSE queues[u]
        BY <3>1 DEF Inv, TypeOK
      <3> QED BY <1>1, <3>2, <3>4, <3>5 DEF Length
    <2> QED BY <2>1, <2>2
  <1>2. \A u \in Token : /\ queues[u] # NoQueue => Length(u) \in Nat
                         /\ queues'[u] # NoQueue => Length(u)' \in Nat
    BY DEF Inv, TypeOK, Queue, Length
  <1> QED BY <1>1, <1>2, NoLonger DEF Inv

LEMMA DeleteStrandsNone ==
  ASSUME Inv, Inv', NoStrandedMessage, NEW vm \in VmIds, DeleteByVmId(vm)
  PROVE  NoStrandedMessage'
  <1>1. \A u \in Token : queues'[u] # NoQueue => queues'[u] = queues[u]
    BY DEF DeleteByVmId
  <1>2. UNCHANGED <<posted, ready, dropped>>
    BY DEF DeleteByVmId, callVars
  <1>3. \A u \in Token : queues'[u] # NoQueue =>
           /\ queues[u] # NoQueue /\ Length(u)' = Length(u) /\ Length(u) \in Nat
    BY <1>1 DEF Inv, TypeOK, Queue, Length
  <1> QED BY <1>2, <1>3, NoLonger DEF Inv

(* A dequeue takes one message, if there is one. *)
LEMMA TakeShortens ==
  ASSUME Inv, NEW t \in Token, Take(t), NEW u \in Token, queues'[u] # NoQueue
  PROVE  /\ queues[u] # NoQueue
         /\ Length(u) \in Nat /\ Length(u)' \in Nat
         /\ u # t => Length(u)' = Length(u)
         /\ u = t => \/ Length(u) > 0 /\ Length(u)' = Length(u) - 1
                     \/ Length(u) = 0 /\ Length(u)' = 0
  <1>1. queues[u] # NoQueue
    BY TakeTypes
  <1>2. queues[u].msgs \in Seq(Msgs)
    BY <1>1, QueueLength DEF Inv
  <1>3. CASE u # t \/ queues[t].msgs = <<>>
    <2>1. queues'[u] = queues[u]
      BY <1>3 DEF Take, Inv, TypeOK
    <2> QED BY <1>1, <1>2, <1>3, <2>1 DEF Length
  <1>4. CASE u = t /\ queues[t].msgs # <<>>
    <2>1. queues'[t].msgs = Tail(queues[t].msgs)
      BY <1>1, <1>4, QueueChange DEF Take
    <2>2. Len(Tail(queues[t].msgs)) = Len(queues[t].msgs) - 1 /\ Len(queues[t].msgs) \in Nat \ {0}
      BY <1>2, <1>4
    <2> QED BY <1>1, <1>4, <2>1, <2>2 DEF Length
  <1> QED BY <1>3, <1>4

LEMMA EnqueueStrandsNone ==
  ASSUME Inv, Inv', NoStrandedMessage, NEW t \in Token, NEW m \in Msgs, Enqueue(t, m)
  PROVE  NoStrandedMessage'
  <1> DEFINE r == queues[t].owner
  <1>1. /\ queues[t] # NoQueue /\ queues[t] \in Queue /\ r \in Roots
        /\ queues[t].msgs \in Seq(Msgs)
    BY QueueLength DEF Enqueue, Queue, Inv
  <1>2. /\ posted' = [posted EXCEPT ![<<r, t>>] = @ + 1]
        /\ UNCHANGED <<ready, dropped>>
    BY DEF Enqueue
  <1>3. /\ queues'[t].msgs = Append(queues[t].msgs, m)
        /\ \A u \in Token : u # t => queues'[u] = queues[u]
    BY QueueChange DEF Enqueue
  <1> HIDE DEF r
  <1>4. \A q \in Roots, u \in Token :
           posted'[<<q, u>>] = IF q = r /\ u = t THEN posted[<<q, u>>] + 1 ELSE posted[<<q, u>>]
    BY <1>2 DEF Inv, TypeOK
  <1>5. \A u \in Token : /\ Total(Pending[u]) \in Nat /\ Total(Pending'[u]) \in Nat
                         /\ Total(Pending'[u]) = Total(Pending[u])
                              + (posted'[<<r, u>>] + ready'[<<r, u>>])
                              - (posted[<<r, u>>] + ready[<<r, u>>])
    BY <1>1, <1>2, <1>4, PendingChange DEF Inv
  <1>6. \A u \in Token : posted[<<r, u>>] \in Nat /\ ready[<<r, u>>] \in Nat /\ dropped[u] \in Nat
    BY <1>1 DEF Inv, TypeOK
  <1>7. ASSUME NEW u \in Token
        PROVE  Total(Pending'[u]) = IF u = t THEN Total(Pending[u]) + 1 ELSE Total(Pending[u])
    <2>1. posted'[<<r, u>>] = (IF u = t THEN posted[<<r, u>>] + 1 ELSE posted[<<r, u>>])
          /\ ready'[<<r, u>>] = ready[<<r, u>>]
      BY <1>1, <1>2, <1>4
    <2> QED BY <1>5, <1>6, <2>1
  <1>8. SUFFICES ASSUME NEW u \in Token, queues'[u] # NoQueue
                 PROVE  Length(u)' <= Total(Pending'[u]) + dropped'[u]
    BY StrandedMeans
  <1>9. queues[u] # NoQueue => Length(u) <= Total(Pending[u]) + dropped[u] /\ Length(u) \in Nat
    BY StrandedMeans, QueueLength DEF Inv
  <1>10. CASE u = t
    <2>1. Length(u)' = Length(u) + 1
      BY <1>1, <1>3, <1>10 DEF Length
    <2> QED BY <1>1, <1>2, <1>5, <1>6, <1>7, <1>9, <1>10, <2>1
  <1>11. CASE u # t
    <2>1. Length(u)' = Length(u) /\ queues[u] # NoQueue
      BY <1>3, <1>8, <1>11 DEF Length
    <2> QED BY <1>2, <1>7, <1>9, <1>11, <2>1
  <1> QED BY <1>10, <1>11

LEMMA DeliverStrandsNone ==
  ASSUME Inv, Inv', NoStrandedMessage, NEW r \in Roots, NEW t \in Token,
         DeliverNotification(r, t)
  PROVE  NoStrandedMessage'
  <1>1. /\ posted[<<r, t>>] > 0
        /\ posted' = [posted EXCEPT ![<<r, t>>] = @ - 1]
        /\ queues' = queues
    BY DEF DeliverNotification
  <1>2. \A q \in Roots, u \in Token :
           posted'[<<q, u>>] = IF q = r /\ u = t THEN posted[<<q, u>>] - 1 ELSE posted[<<q, u>>]
    BY <1>1 DEF Inv, TypeOK
  <1>3. \/ /\ UNCHANGED dropped
           /\ \A q \in Roots, u \in Token :
                 ready'[<<q, u>>] = IF q = r /\ u = t THEN ready[<<q, u>>] + 1 ELSE ready[<<q, u>>]
        \/ /\ UNCHANGED ready
           /\ \A u \in Token : dropped'[u] = IF u = t THEN dropped[u] + 1 ELSE dropped[u]
    <2>1. CASE r \in alive
      <3>1. ready' = [ready EXCEPT ![<<r, t>>] = @ + 1] /\ UNCHANGED dropped
        BY <2>1 DEF DeliverNotification
      <3> QED BY <3>1 DEF Inv, TypeOK
    <2>2. CASE r \notin alive
      <3>1. dropped' = [dropped EXCEPT ![t] = @ + 1] /\ UNCHANGED ready
        BY <2>2 DEF DeliverNotification
      <3> QED BY <3>1 DEF Inv, TypeOK
    <2> QED BY <2>1, <2>2
  <1>4. \A u \in Token : posted[<<r, u>>] \in Nat /\ ready[<<r, u>>] \in Nat /\ dropped[u] \in Nat
    BY DEF Inv, TypeOK
  <1>5. \A u \in Token : /\ Total(Pending[u]) \in Nat /\ Total(Pending'[u]) \in Nat
                         /\ Total(Pending'[u]) = Total(Pending[u])
                              + (posted'[<<r, u>>] + ready'[<<r, u>>])
                              - (posted[<<r, u>>] + ready[<<r, u>>])
    BY <1>2, <1>3, PendingChange DEF Inv
  <1>6. ASSUME NEW u \in Token
        PROVE  Total(Pending'[u]) + dropped'[u] = Total(Pending[u]) + dropped[u]
    <2>1. CASE u = t
      <3>1. /\ posted'[<<r, u>>] = posted[<<r, u>>] - 1
            /\ \/ ready'[<<r, u>>] = ready[<<r, u>>] + 1 /\ dropped'[u] = dropped[u]
               \/ ready'[<<r, u>>] = ready[<<r, u>>] /\ dropped'[u] = dropped[u] + 1
        BY <1>2, <1>3, <2>1
      <3> QED BY <1>4, <1>5, <3>1
    <2>2. CASE u # t
      <3>1. /\ posted'[<<r, u>>] = posted[<<r, u>>] /\ ready'[<<r, u>>] = ready[<<r, u>>]
            /\ dropped'[u] = dropped[u]
        BY <1>2, <1>3, <2>2
      <3> QED BY <1>4, <1>5, <3>1
    <2> QED BY <2>1, <2>2
  <1> QED BY <1>1, <1>6, StrandedMeans DEF Length

LEMMA DequeueStrandsNone ==
  ASSUME Inv, Inv', NoStrandedMessage, NEW t \in Token,
         DequeueUnasked(t) \/ \E r \in Roots : DequeueWhenReady(r, t)
  PROVE  NoStrandedMessage'
  <1>1. CASE DequeueUnasked(t)
    <2>1. Take(t) /\ UNCHANGED <<posted, ready, dropped>>
      BY <1>1 DEF DequeueUnasked, callVars
    <2>2. \A u \in Token : queues'[u] # NoQueue =>
             /\ queues[u] # NoQueue /\ Length(u) \in Nat /\ Length(u)' \in Nat
             /\ Length(u)' <= Length(u)
      <3> SUFFICES ASSUME NEW u \in Token, queues'[u] # NoQueue
                   PROVE  /\ queues[u] # NoQueue /\ Length(u) \in Nat /\ Length(u)' \in Nat
                          /\ Length(u)' <= Length(u)
        OBVIOUS
      <3> QED BY <2>1, TakeShortens
    <2> QED BY <2>1, <2>2, NoLonger DEF Inv
  <1>2. ASSUME NEW r \in Roots, DequeueWhenReady(r, t)
        PROVE  NoStrandedMessage'
    <2>1. /\ Take(t) /\ UNCHANGED <<posted, dropped>>
          /\ ready[<<r, t>>] > 0
          /\ ready' = [ready EXCEPT ![<<r, t>>] = @ - 1]
      BY <1>2 DEF DequeueWhenReady
    <2>2. \A q \in Roots, u \in Token :
             ready'[<<q, u>>] = IF q = r /\ u = t THEN ready[<<q, u>>] - 1 ELSE ready[<<q, u>>]
      BY <2>1 DEF Inv, TypeOK
    <2>3. \A u \in Token : posted[<<r, u>>] \in Nat /\ ready[<<r, u>>] \in Nat /\ dropped[u] \in Nat
      BY DEF Inv, TypeOK
    <2>4. \A u \in Token : /\ Total(Pending[u]) \in Nat /\ Total(Pending'[u]) \in Nat
                           /\ Total(Pending'[u]) = Total(Pending[u])
                                + (posted'[<<r, u>>] + ready'[<<r, u>>])
                                - (posted[<<r, u>>] + ready[<<r, u>>])
      BY <2>1, <2>2, PendingChange DEF Inv
    <2>5. ASSUME NEW u \in Token
          PROVE  Total(Pending'[u]) = IF u = t THEN Total(Pending[u]) - 1 ELSE Total(Pending[u])
      <3>1. ready'[<<r, u>>] = (IF u = t THEN ready[<<r, u>>] - 1 ELSE ready[<<r, u>>])
            /\ posted'[<<r, u>>] = posted[<<r, u>>]
        BY <2>1, <2>2
      <3> QED BY <2>3, <2>4, <3>1
    <2>6. SUFFICES ASSUME NEW u \in Token, queues'[u] # NoQueue
                   PROVE  Length(u)' <= Total(Pending'[u]) + dropped'[u]
      BY StrandedMeans
    <2>7. /\ queues[u] # NoQueue
          /\ Length(u) \in Nat /\ Length(u)' \in Nat
          /\ u # t => Length(u)' = Length(u)
          /\ u = t => \/ Length(u) > 0 /\ Length(u)' = Length(u) - 1
                      \/ Length(u) = 0 /\ Length(u)' = 0
      BY <2>1, <2>6, TakeShortens
    <2>8. Length(u) <= Total(Pending[u]) + dropped[u]
      BY <2>7, StrandedMeans
    <2>9. Total(Pending'[u]) \in Nat /\ Total(Pending[u]) \in Nat /\ dropped'[u] = dropped[u]
          /\ dropped[u] \in Nat
      BY <2>1, <2>3, <2>4
    <2> QED BY <2>5, <2>7, <2>8, <2>9
  <1> QED BY <1>1, <1>2

LEMMA VmStrandsNone ==
  ASSUME Inv, Inv', NoStrandedMessage, NEW r \in Roots, VmGone(r) \/ VmCreated(r)
  PROVE  NoStrandedMessage'
  <1>1. CASE VmCreated(r)
    <2>1. UNCHANGED <<queues, posted, ready, dropped>>
      BY <1>1 DEF VmCreated, callVars
    <2>2. Pending' = Pending
      BY <2>1 DEF Pending
    <2> QED BY <2>1, <2>2, StrandedMeans DEF Length
  <1>2. CASE VmGone(r)
    <2>1. /\ \A q \in Roots, t \in Token : ready'[<<q, t>>] = IF q = r THEN 0 ELSE ready[<<q, t>>]
          /\ \A t \in Token : dropped'[t] = dropped[t] + ready[<<r, t>>]
          /\ UNCHANGED <<queues, posted>>
      BY <1>2 DEF VmGone
    <2>2. \A u \in Token : /\ Total(Pending[u]) \in Nat /\ Total(Pending'[u]) \in Nat
                           /\ Total(Pending'[u]) = Total(Pending[u])
                                + (posted'[<<r, u>>] + ready'[<<r, u>>])
                                - (posted[<<r, u>>] + ready[<<r, u>>])
      BY <2>1, PendingChange DEF Inv
    <2>3. \A u \in Token : posted[<<r, u>>] \in Nat /\ ready[<<r, u>>] \in Nat /\ dropped[u] \in Nat
      BY DEF Inv, TypeOK
    <2>4. ASSUME NEW u \in Token
          PROVE  Total(Pending'[u]) + dropped'[u] = Total(Pending[u]) + dropped[u]
      <3>1. /\ ready'[<<r, u>>] = 0 /\ posted'[<<r, u>>] = posted[<<r, u>>]
            /\ dropped'[u] = dropped[u] + ready[<<r, u>>]
        BY <2>1
      <3> QED BY <2>2, <2>3, <3>1
    <2> QED BY <2>1, <2>4, StrandedMeans DEF Length
  <1> QED BY <1>1, <1>2

LEMMA StrandedStep == Inv /\ Inv' /\ NoStrandedMessage /\ [Next]_vars => NoStrandedMessage'
  <1> SUFFICES ASSUME Inv, Inv', NoStrandedMessage, [Next]_vars PROVE NoStrandedMessage'
    OBVIOUS
  <1>1. CASE HostCall
    <2>1. ASSUME NEW r \in Roots, NEW name \in Names, RegisterSharedQueue(r, name)
          PROVE  NoStrandedMessage'
      <3>1. <<RootVmId[r], name>> \in Key
        BY RootsAssumption DEF Key
      <3> QED BY <2>1, <3>1, RegisterStrandsNone DEF RegisterSharedQueue
    <2>2. ASSUME NEW k \in Key, LookupSharedQueue(k) PROVE NoStrandedMessage'
      <3>1. UNCHANGED <<queues, posted, ready, dropped>>
        BY <2>2 DEF LookupSharedQueue, callVars
      <3>2. Pending' = Pending
        BY <3>1 DEF Pending
      <3> QED BY <3>1, <3>2, StrandedMeans DEF Length
    <2>3. ASSUME NEW kt \in known, NEW m \in Msgs, Enqueue(kt[2], m) PROVE NoStrandedMessage'
      BY <2>3, EnqueueStrandsNone DEF Inv, TypeOK
    <2>4. ASSUME NEW kt \in known, DequeueUnasked(kt[2]) PROVE NoStrandedMessage'
      BY <2>4, DequeueStrandsNone DEF Inv, TypeOK
    <2> QED BY <1>1, <2>1, <2>2, <2>3, <2>4 DEF HostCall
  <1>2. CASE Notification
    BY <1>2, DeliverStrandsNone, DequeueStrandsNone DEF Notification
  <1>3. CASE Lifecycle
    BY <1>3, DeleteStrandsNone, VmStrandsNone DEF Lifecycle
  <1>4. CASE UNCHANGED vars
    <2>1. UNCHANGED <<queues, posted, ready, dropped>>
      BY <1>4 DEF vars
    <2>2. Pending' = Pending
      BY <2>1 DEF Pending
    <2> QED BY <2>1, <2>2, StrandedMeans DEF Length
  <1> QED BY <1>1, <1>2, <1>3, <1>4 DEF Next

(* No interleaving of senders, receivers, new owners, deletions and restarts   *)
(* leaves a message in a queue that nobody will be told of, but for the        *)
(* notifications that found their VM gone.                                     *)
THEOREM NoMessageStranded == Spec => []NoStrandedMessage
  <1>1. Init => NoStrandedMessage
    <2> SUFFICES ASSUME Init PROVE NoStrandedMessage
      OBVIOUS
    <2> QED BY DEF Init, NoStrandedMessage
  <1> QED BY <1>1, InitInv, InvStep, StrandedStep, PTL DEF Spec
=============================================================================
