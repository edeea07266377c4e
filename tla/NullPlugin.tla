------------------------------ MODULE NullPlugin ------------------------------
(***************************************************************************)
(* NullPlugin (null_plugin.cc), the guest that is linked into the host: its map      *)
(* from context ids to the contexts of the plugin's own code.  A plugin is a record    *)
(* of that map, whose entries are "root", "stream" or "empty" (a null pointer), the      *)
(* kinds for which its registry has a factory, and whether it has fallen over a           *)
(* context that it does not have.                                                    *)
(***************************************************************************)
EXTENDS Functions

NewPlugin(factories) == [map |-> <<>>, factories |-> factories, fell |-> FALSE]

Holds(p, id, kind) == id \in DOMAIN p.map /\ p.map[id] = kind
Put(p, id, kind) == [p EXCEPT !.map = [i \in DOMAIN p.map \cup {id} |->
                                          IF i = id THEN kind ELSE p.map[i]]]
Falls(p) == [map |-> p.map, factories |-> p.factories, fell |-> TRUE]

(* ensureContext: the entry is made before it is known whether there is a factory, and      *)
(* the root's entry is made if it was missing.  An entry that exists is taken as it is.    *)
EnsureContext(p, id, root) ==
    IF id \in DOMAIN p.map THEN IF p.map[id] = "stream" THEN p ELSE Falls(p)
    ELSE LET q == IF root \in DOMAIN p.map THEN p ELSE Put(p, root, "empty")
         IN IF "stream" \in p.factories THEN Put(q, id, "stream") ELSE Falls(Put(q, id, "empty"))

(* ensureRootContext: without a factory it is a context with the default handlers.  The       *)
(* embedder is taken to know the property plugin_root_id: without it no root context can       *)
(* be made, and onCreate would use the null pointer it gets, while the VM comes up.           *)
EnsureRootContext(p, id) ==
    IF id \in DOMAIN p.map THEN IF p.map[id] = "root" THEN p ELSE Falls(p)
    ELSE Put(p, id, "root")

(* getContext, getRootContext, getContextBase: the handlers use what they return without      *)
(* a look at it.                                                                     *)
GetContext(p, id) == IF Holds(p, id, "stream") THEN p ELSE Falls(p)
GetRootContext(p, id) == IF Holds(p, id, "root") THEN p ELSE Falls(p)
GetContextBase(p, id) == IF Holds(p, id, "stream") \/ Holds(p, id, "root") THEN p ELSE Falls(p)

OnCreate(p, id, parent) ==
    IF parent # 0 THEN EnsureContext(p, id, parent) ELSE EnsureRootContext(p, id)
BadOnDelete(p, id) == GetContextBase(p, id)
OnDelete(p, id) ==
    [GetContextBase(p, id) EXCEPT !.map = Restrict(p.map, DOMAIN p.map \ {id})]
=============================================================================
