------------------------------- MODULE Channels -------------------------------
(***************************************************************************)
(* What the shared queues promise a plugin (SharedQueueInterface in         *)
(* include/proxy-wasm/context_interface.h): one FIFO channel for each       *)
(* combination of vm_id and queue name, which opens when it is registered   *)
(* and disappears with its contents when the vm_id does.  Tokens, owners    *)
(* and notifications do not exist at this level.                            *)
(***************************************************************************)
EXTENDS Sequences

CONSTANTS VmIds, Names, Msgs

VARIABLES open, chan

Key == VmIds \X Names

ChanInit ==
    /\ open = {}
    /\ chan = [k \in Key |-> <<>>]

Open(k) ==
    /\ k \notin open
    /\ open' = open \cup {k}
    /\ UNCHANGED chan

Send(k, m) ==
    /\ k \in open
    /\ chan' = [chan EXCEPT ![k] = Append(@, m)]
    /\ UNCHANGED open

Receive(k) ==
    /\ k \in open /\ chan[k] # <<>>
    /\ chan' = [chan EXCEPT ![k] = Tail(@)]
    /\ UNCHANGED open

Close(vm) ==
    /\ open' = {k \in open : k[1] # vm}
    /\ chan' = [k \in Key |-> IF k[1] = vm THEN <<>> ELSE chan[k]]

ChanNext ==
    \/ \E k \in Key : Open(k) \/ Receive(k) \/ \E m \in Msgs : Send(k, m)
    \/ \E vm \in VmIds : Close(vm)

ChanSpec == ChanInit /\ [][ChanNext]_<<open, chan>>
=============================================================================
