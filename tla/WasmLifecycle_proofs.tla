------------------------- MODULE WasmLifecycle_proofs -------------------------
(*****************************************************************************)
(* Why the root contexts of a VM are owned once, why shutdown and            *)
(* finishShutdown may loop over containers that guest calls change, and why  *)
(* a context's onDelete is its last call.  The inductive invariant says what *)
(* the stack of running C++ calls can look like (Nesting), what a pending    *)
(* finishShutdown stands for (Scheduled), and how often onDelete has run.    *)
(*****************************************************************************)
EXTENDS WasmLifecycle, FiniteSetTheorems, TLAPS

(* A frame in which the guest runs, or the deferred actions after it do. *)
IsCall(f) == f.op \in {"guest", "after"}

(* From frame n on the stack is a call of the host's own, or one that startShutdown makes. *)
BaseAt(n) ==
    \/ Len(stack) = n /\ IsCall(stack[n]) /\ stack[n].handler = "other"
    \/ /\ Len(stack) = n + 1 /\ IsCall(stack[n])
       /\ stack[n].handler \in {"on_done", "on_delete"}
       /\ stack[n + 1].op = "shutdown" /\ stack[n + 1].ctx = stack[n].ctx

(* finishShutdown runs, called last or by the actions after a call. *)
Finishing == stack # <<>> /\ (stack[1].op = "finish" \/ (Len(stack) > 1 /\ stack[2].op = "finish"))

(* Calls nest no deeper than this: an empty stack, a startShutdown or a call of  *)
(* the host, and the finishShutdown that the actions after a call may run.       *)
Nesting ==
    \/ stack = <<>>
    \/ Len(stack) = 1 /\ stack[1].op = "shutdown" /\ stack[1].ctx = None
    \/ BaseAt(1)
    \/ stack # <<>> /\ stack[1].op = "finish" /\ stack[1].ctx = None /\ BaseAt(2) /\ stack[2].op = "after"
    \/ /\ Len(stack) > 2 /\ IsCall(stack[1]) /\ stack[1].handler = "on_delete"
       /\ stack[2].op = "finish" /\ stack[2].ctx = stack[1].ctx
       /\ BaseAt(3) /\ stack[3].op = "after"

(* Both maps hold a context under its own plugin's key. *)
Keyed ==
    \A k \in Keys :
        /\ rootContexts[k] # None => KeyOf[rootContexts[k]] = k
        /\ pendingDone[k] # None => KeyOf[pendingDone[k]] = k

(* At most one context waits in pending_delete_, one deferred action is queued    *)
(* for it unless finishShutdown runs already, and a call is still to return.     *)
Scheduled ==
    /\ \A c, d \in pendingDelete : c = d
    /\ \A c \in pendingDelete : pendingDone[KeyOf[c]] = None
    /\ afterVmCall = IF pendingDelete # {} /\ ~Finishing THEN 1 ELSE 0
    /\ pendingDelete # {} => stack # <<>> /\ (Finishing \/ IsCall(stack[1]))
    /\ Finishing /\ stack[1].op # "finish" => stack[1].ctx \in pendingDelete
    /\ \A c \in pendingDelete : stack # <<>> /\ IsCall(stack[1]) => KeyOf[c] = KeyOf[stack[1].ctx]

(* The element a startShutdown loop is at, and those it has yet to reach, are in *)
(* root_contexts_.                                                               *)
Looping ==
    \A i \in DOMAIN stack : stack[i].op = "shutdown" =>
        /\ stack[i].ctx # None =>
              /\ rootContexts[KeyOf[stack[i].ctx]] = stack[i].ctx
              /\ KeyOf[stack[i].ctx] \notin stack[i].keys
        /\ \A k \in stack[i].keys : rootContexts[k] # None

(* onDelete runs on c. *)
Deleting(c) ==
    \E i \in DOMAIN stack : IsCall(stack[i]) /\ stack[i].handler = "on_delete" /\ stack[i].ctx = c

(* A context that lives has had onDelete only if it is running now. *)
Counted ==
    /\ \A c \in Contexts : deletes[c] \in {0, 1}
    /\ \A c \in Contexts \ gone : deletes[c] = IF Deleting(c) THEN 1 ELSE 0
    /\ \A i \in DOMAIN stack : stack[i].op = "guest" => stack[i].ctx \in Existing

(* The other contexts there have been under the key of c. *)
Others(c) == {d \in (gone \cup Existing) \ {c} : KeyOf[d] = KeyOf[c]}
(* The context of frame i has answered on_done with true. *)
HasAnswered(i) ==
    /\ IsCall(stack[i])
    /\ \/ stack[i].handler = "on_delete" /\ stack[i + 1].op = "shutdown"
       \/ stack[i].op = "after" /\ stack[i].handler = "on_done" /\ stack[i].answer

(* Only a context that answered on_done, or one whose key was used again, is deleted. *)
Agreement ==
    /\ \A c \in pendingDelete : c \in agreed \/ Others(c) # {}
    /\ \A i \in DOMAIN stack : HasAnswered(i) => stack[i].ctx \in agreed
    /\ open /\ ~failed =>  \A c \in gone : Others(c) = {} => c \in agreed /\ deletes[c] = 1

Inv == /\ OwnedOnce
       /\ Nesting
       /\ Keyed
       /\ Scheduled
       /\ Looping
       /\ Counted
       /\ Agreement
-----------------------------------------------------------------------------
(* What the operations on the stack do to its frames. *)
LEMMA Pushed ==
  ASSUME TypeOK, NEW f \in Frame, Push(f)
  PROVE  /\ stack' \in Seq(Frame) /\ Len(stack') = Len(stack) + 1 /\ stack' # <<>>
         /\ stack'[1] = f
         /\ \A i \in 1 .. Len(stack) : stack'[i + 1] = stack[i]
  BY DEF TypeOK, Push

LEMMA Replaced ==
  ASSUME TypeOK, stack # <<>>, NEW f \in Frame, Replace(<<f>>)
  PROVE  /\ stack' \in Seq(Frame) /\ Len(stack') = Len(stack) /\ stack' # <<>>
         /\ stack'[1] = f
         /\ \A i \in 2 .. Len(stack) : stack'[i] = stack[i]
  BY DEF TypeOK, Replace, Below

LEMMA ReplacedByTwo ==
  ASSUME TypeOK, stack # <<>>, NEW f \in Frame, NEW g \in Frame, Replace(<<f, g>>)
  PROVE  /\ stack' \in Seq(Frame) /\ Len(stack') = Len(stack) + 1 /\ stack' # <<>>
         /\ stack'[1] = f /\ stack'[2] = g
         /\ \A i \in 2 .. Len(stack) : stack'[i + 1] = stack[i]
  BY DEF TypeOK, Replace, Below

LEMMA Popped ==
  ASSUME TypeOK, stack # <<>>, stack' = Below
  PROVE  /\ stack' \in Seq(Frame) /\ Len(stack') = Len(stack) - 1
         /\ \A i \in 1 .. Len(stack) - 1 : stack'[i] = stack[i + 1]
  BY DEF TypeOK, Below

LEMMA NoFrames ==
  ASSUME NEW S, NEW q \in Seq(S)
  PROVE  (q = <<>>) <=> (Len(q) = 0)
  OBVIOUS

LEMMA TailOfFrames ==
  ASSUME NEW s \in Seq(Frame), Len(s) > 0
  PROVE  /\ Tail(s) \in Seq(Frame) /\ Len(Tail(s)) = Len(s) - 1
         /\ \A i \in 1 .. Len(s) - 1 : Tail(s)[i] = s[i + 1]
  OBVIOUS

LEMMA ConsOfFrames ==
  ASSUME NEW s \in Seq(Frame), NEW f \in Frame
  PROVE  /\ <<f>> \o s \in Seq(Frame) /\ Len(<<f>> \o s) = Len(s) + 1 /\ (<<f>> \o s)[1] = f
         /\ \A i \in 1 .. Len(s) : (<<f>> \o s)[i + 1] = s[i]
  <1>1. <<f>> \in Seq(Frame) /\ Len(<<f>>) = 1
    OBVIOUS
  <1> QED BY <1>1

LEMMA PoppedTo ==
  ASSUME TypeOK, Len(stack) > 1, NEW f \in Frame, stack' = <<f>> \o Tail(Below)
  PROVE  /\ stack' \in Seq(Frame) /\ Len(stack') = Len(stack) - 1 /\ stack' # <<>>
         /\ stack'[1] = f
         /\ \A i \in 2 .. Len(stack) - 1 : stack'[i] = stack[i + 1]
  <1>1. stack \in Seq(Frame) /\ Len(stack) \in Nat
    BY DEF TypeOK
  <1>2. /\ Below \in Seq(Frame) /\ Len(Below) = Len(stack) - 1
        /\ \A i \in 1 .. Len(stack) - 1 : Below[i] = stack[i + 1]
    BY <1>1, TailOfFrames DEF Below
  <1> DEFINE rest == Tail(Below)
  <1>3. /\ rest \in Seq(Frame) /\ Len(rest) = Len(Below) - 1
        /\ \A i \in 1 .. Len(Below) - 1 : rest[i] = Below[i + 1]
    BY <1>1, <1>2, TailOfFrames
  <1>4. stack' = <<f>> \o rest
    OBVIOUS
  <1> HIDE DEF rest
  <1>5. /\ stack' \in Seq(Frame) /\ Len(stack') = Len(rest) + 1 /\ stack'[1] = f
        /\ \A i \in 1 .. Len(rest) : stack'[i + 1] = rest[i]
    <2>1. rest \in Seq(Frame)
      BY <1>3
    <2> QED BY ONLY <2>1, <1>4, ConsOfFrames
  <1>6. Len(stack') = Len(stack) - 1
    BY <1>1, <1>2, <1>3, <1>5
  <1>8. stack' # <<>>
    <2>1. Len(stack') # 0
      BY <1>1, <1>6
    <2> QED BY <2>1
  <1>7. ASSUME NEW i \in 2 .. Len(stack) - 1  PROVE stack'[i] = stack[i + 1]
    <2>1. i - 1 \in 1 .. Len(rest) /\ i \in 1 .. Len(stack) - 1 /\ (i - 1) + 1 = i
      BY <1>1, <1>2, <1>3
    <2>2. stack'[i] = rest[i - 1]
      BY <2>1, <1>5
    <2>3. rest[i - 1] = Below[i]
      BY <2>1, <1>2, <1>3
    <2> QED BY <2>1, <2>2, <2>3, <1>2
  <1> QED BY <1>5, <1>6, <1>7, <1>8

LEMMA FramesTyped ==
  ASSUME TypeOK
  PROVE  /\ Len(stack) \in Nat /\ DOMAIN stack = 1 .. Len(stack)
         /\ (stack = <<>>) <=> (Len(stack) = 0)
         /\ \A i \in 1 .. Len(stack) : stack[i] \in Frame
         /\ stack # <<>> => Top = stack[1]
         /\ stack # <<>> => ((Below # <<>>) <=> (Len(stack) > 1))
         /\ Len(stack) > 1 => Below[1] = stack[2]
  <1>1. stack \in Seq(Frame)
    BY DEF TypeOK
  <1>2. /\ Len(stack) \in Nat /\ DOMAIN stack = 1 .. Len(stack)
        /\ (stack = <<>>) <=> (Len(stack) = 0)
        /\ \A i \in 1 .. Len(stack) : stack[i] \in Frame
    BY <1>1
  <1>3. stack # <<>> => Top = stack[1]
    BY <1>1 DEF Top
  <1>4. ASSUME stack # <<>>  PROVE (Below # <<>>) <=> (Len(stack) > 1)
    <2>1. Below \in Seq(Frame) /\ Len(Below) = Len(stack) - 1
      BY <1>1, <1>2, <1>4, TailOfFrames DEF Below
    <2>2. (Below = <<>>) <=> (Len(Below) = 0)
      BY <2>1, NoFrames
    <2> QED BY <1>2, <2>1, <2>2
  <1>5. Len(stack) > 1 => Below[1] = stack[2]
    BY <1>1 DEF Below
  <1> QED BY <1>2, <1>3, <1>4, <1>5

LEMMA FrameFields ==
  ASSUME NEW f \in Frame
  PROVE  /\ f.op \in {"guest", "after", "finish", "shutdown"}
         /\ f.ctx \in Contexts \cup {None}
         /\ IsCall(f) => f.ctx \in Contexts /\ f.ctx # None /\ f.handler \in Handlers
         /\ f.op = "after" => f.answer \in BOOLEAN
         /\ f.op = "shutdown" => f.keys \in SUBSET Keys
  BY NoneAssumption DEF Frame, IsCall

(* There are contexts if one is about to be deleted. *)
LEMMA ScheduledBound ==
  ASSUME NEW S \in SUBSET Contexts, NEW n, n = 0 \/ (n = 1 /\ S # {})
  PROVE  n \in 0 .. Cardinality(Contexts)
  <1>1. Cardinality(Contexts) \in Nat
    BY ContextsAssumption, FS_CardinalityType
  <1>2. Contexts # {} => Cardinality(Contexts) # 0
    BY ContextsAssumption, FS_EmptySet
  <1> QED BY <1>1, <1>2

(* What a step means for the contexts when it leaves the containers alone. *)
LEMMA SameContexts ==
  ASSUME UNCHANGED contexts
  PROVE  /\ rootContexts' = rootContexts /\ pendingDone' = pendingDone
         /\ pendingDelete' = pendingDelete /\ gone' = gone
         /\ Existing' = Existing
         /\ \A c \in Contexts : Others(c)' = Others(c)
         /\ Keyed => Keyed'
         /\ OwnedOnce /\ TypeOK' => /\ (Values(rootContexts) \cap Values(pendingDone) = {})'
                                    /\ ((Values(rootContexts) \cup Values(pendingDone)) \cap pendingDelete = {})'
                                    /\ (Existing \cap gone = {})'
  BY DEF contexts, Existing, Values, Others, Keyed, OwnedOnce

LEMMA Contained ==
  ASSUME TypeOK
  PROVE  /\ Values(rootContexts) \subseteq Contexts /\ Values(pendingDone) \subseteq Contexts
         /\ Existing \subseteq Contexts
         /\ \A k \in Keys : /\ rootContexts[k] # None => rootContexts[k] \in Values(rootContexts) /\ rootContexts[k] \in Contexts
                            /\ pendingDone[k] # None => pendingDone[k] \in Values(pendingDone) /\ pendingDone[k] \in Contexts
  BY DEF TypeOK, Values, Existing

-----------------------------------------------------------------------------
LEMMA CallContextInv ==
  ASSUME Inv, NEW c \in Contexts, CallContext(c)
  PROVE  Inv'
  <1> DEFINE f == GuestCall("other", c)
  <1>1. TypeOK /\ stack = <<>> /\ f \in Frame
    BY DEF Inv, OwnedOnce, CallContext, Idle, GuestCall, Frame, Handlers
  <1>2. /\ f.op = "guest" /\ f.handler = "other" /\ f.ctx = c
    BY DEF GuestCall
  <1> HIDE DEF f
  <1>3. /\ Len(stack) = 0 /\ stack' \in Seq(Frame) /\ Len(stack') = 1 /\ stack'[1] = f
        /\ stack' # <<>> /\ DOMAIN stack' = 1 .. 1 /\ DOMAIN stack = {}
    <2>1. Push(f)
      BY DEF CallContext, f
    <2> QED BY <1>1, <2>1, Pushed
  <1>4. TypeOK'
    BY <1>1, <1>3 DEF TypeOK, CallContext, contexts
  <1>5. pendingDelete = {} /\ afterVmCall = 0
    BY <1>1 DEF Inv, OwnedOnce
  <1>6. OwnedOnce'
    BY <1>3, <1>4, SameContexts DEF Inv, OwnedOnce, CallContext
  <1>7. Nesting'
    BY <1>2, <1>3 DEF Nesting, BaseAt, IsCall
  <1>8. Keyed'
    BY SameContexts DEF Inv, CallContext
  <1>9. Scheduled'
    BY <1>2, <1>3, <1>5 DEF Scheduled, Finishing, CallContext, contexts
  <1>10. Looping'
    BY <1>2, <1>3 DEF Looping
  <1>11. Counted'
    BY <1>1, <1>2, <1>3, Contained, SameContexts DEF Inv, Counted, Deleting, IsCall, CallContext, Existing
  <1>12. Agreement'
    BY <1>2, <1>3, <1>5, SameContexts DEF Inv, Agreement, HasAnswered, CallContext, TypeOK, OwnedOnce
  <1> QED BY <1>6, <1>7, <1>8, <1>9, <1>10, <1>11, <1>12 DEF Inv

LEMMA StartInv ==
  ASSUME Inv, NEW c \in Contexts, Start(c)
  PROVE  Inv'
  <1> DEFINE f == GuestCall("other", c)
  <1>1. TypeOK /\ stack = <<>> /\ f \in Frame /\ KeyOf[c] \in Keys /\ c # None
    BY KeyOfAssumption, NoneAssumption DEF Inv, OwnedOnce, Start, Idle, GuestCall, Frame, Handlers
  <1>2. /\ f.op = "guest" /\ f.handler = "other" /\ f.ctx = c
    BY DEF GuestCall
  <1>3. Push(f)
    BY DEF Start
  <1> HIDE DEF f
  <1>4. /\ Len(stack) = 0 /\ stack' \in Seq(Frame) /\ Len(stack') = 1 /\ stack'[1] = f
        /\ stack' # <<>> /\ DOMAIN stack' = 1 .. 1 /\ DOMAIN stack = {}
    BY <1>1, <1>3, Pushed
  <1>5. TypeOK'
    BY <1>1, <1>4 DEF TypeOK, Start
  <1>6. pendingDelete = {} /\ afterVmCall = 0
    BY <1>1 DEF Inv, OwnedOnce
  <1>7. /\ c \notin Existing /\ c \notin gone
        /\ Values(rootContexts)' = Values(rootContexts) \cup {c}
        /\ Values(pendingDone)' = Values(pendingDone)
        /\ Existing' = Existing \cup {c} /\ gone' = gone
    BY <1>1, Contained DEF Start, Existing, Values, TypeOK
  <1>8. OwnedOnce'
    <2>1. (Existing \cap gone = {})'
      BY <1>7 DEF Inv, OwnedOnce
    <2>2. /\ (Values(rootContexts) \cap Values(pendingDone) = {})'
          /\ ((Values(rootContexts) \cup Values(pendingDone)) \cap pendingDelete = {})'
      <3>1. c \notin Values(pendingDone) /\ pendingDelete' = {}
        BY <1>6, <1>7 DEF Existing, Start
      <3>2. Values(rootContexts) \cap Values(pendingDone) = {}
        BY DEF Inv, OwnedOnce
      <3> QED BY <1>7, <3>1, <3>2
    <2> QED BY <1>4, <1>5, <2>1, <2>2 DEF OwnedOnce
  <1>9. Nesting'
    BY <1>2, <1>4 DEF Nesting, BaseAt, IsCall
  <1>10. Keyed'
    BY <1>1 DEF Inv, Keyed, Start, TypeOK
  <1>11. Scheduled'
    BY <1>2, <1>4, <1>6 DEF Scheduled, Finishing, Start
  <1>12. Looping'
    BY <1>2, <1>4 DEF Looping
  <1>13. Counted'
    BY <1>1, <1>2, <1>4, <1>7 DEF Inv, Counted, Deleting, IsCall, Start
  <1>14. \A d \in Contexts : Others(d) \subseteq Others(d)'
    BY <1>7 DEF Others
  <1>15. Agreement'
    BY <1>1, <1>2, <1>4, <1>6, <1>7, <1>14 DEF Inv, Agreement, HasAnswered, Start, TypeOK
  <1> QED BY <1>8, <1>9, <1>10, <1>11, <1>12, <1>13, <1>15 DEF Inv

LEMMA ShutdownBegins ==
  ASSUME Inv, stack = <<>>, NEW keys \in SUBSET Keys, \A k \in keys : rootContexts[k] # None,
         Push([op |-> "shutdown", ctx |-> None, keys |-> keys]), open' \in BOOLEAN, open' => open,
         UNCHANGED <<contexts, afterVmCall, failed, deletes, agreed>>
  PROVE  Inv'
  <1> DEFINE f == [op |-> "shutdown", ctx |-> None, keys |-> keys]
  <1>1. TypeOK /\ f \in Frame
    BY DEF Inv, OwnedOnce, Frame
  <1>2. /\ f.op = "shutdown" /\ f.ctx = None /\ f.keys = keys
    OBVIOUS
  <1>3. Push(f)
    OBVIOUS
  <1> HIDE DEF f
  <1>4. /\ Len(stack) = 0 /\ stack' \in Seq(Frame) /\ Len(stack') = 1 /\ stack'[1] = f
        /\ stack' # <<>> /\ DOMAIN stack' = 1 .. 1 /\ DOMAIN stack = {}
    BY <1>1, <1>3, Pushed
  <1>5. TypeOK'
    BY <1>1, <1>4 DEF TypeOK, contexts
  <1>6. pendingDelete = {} /\ afterVmCall = 0
    BY <1>1 DEF Inv, OwnedOnce
  <1>8. OwnedOnce'
    BY <1>4, <1>5, SameContexts DEF Inv, OwnedOnce
  <1>9. Nesting'
    BY <1>2, <1>4 DEF Nesting
  <1>10. Keyed'
    BY SameContexts DEF Inv
  <1>11. Scheduled'
    BY <1>2, <1>4, <1>6 DEF Scheduled, Finishing, contexts
  <1>12. Looping'
    BY <1>2, <1>4, SameContexts DEF Looping
  <1>13. Counted'
    BY <1>1, <1>2, <1>4, SameContexts DEF Inv, Counted, Deleting, IsCall
  <1>15. Agreement'
    BY <1>1, <1>2, <1>4, <1>6, SameContexts DEF Inv, Agreement, HasAnswered, IsCall, TypeOK
  <1> QED BY <1>8, <1>9, <1>10, <1>11, <1>12, <1>13, <1>15 DEF Inv

LEMMA DestroyInv ==
  ASSUME Inv, Destroy
  PROVE  Inv'
  <1>1. TypeOK /\ stack = <<>> /\ stack' = <<>> /\ open' = FALSE
    BY DEF Inv, OwnedOnce, Destroy, TypeOK
  <1>2. TypeOK'
    BY <1>1, Contained DEF TypeOK, Destroy
  <1>3. /\ Values(rootContexts)' = {} /\ Values(pendingDone)' = {} /\ pendingDelete' = {}
        /\ Existing' = {} /\ gone' = gone \cup Existing
    BY DEF Destroy, Values, Existing
  <1>4. OwnedOnce'
    BY <1>1, <1>2, <1>3 DEF OwnedOnce, Inv, Destroy
  <1>5. Nesting' /\ Keyed' /\ Looping'
    BY <1>1 DEF Nesting, Keyed, Looping, Destroy
  <1>6. Scheduled'
    BY <1>1, <1>4 DEF Scheduled, Finishing, OwnedOnce
  <1>7. Counted'
    BY <1>1, <1>3 DEF Inv, Counted, Deleting, Destroy
  <1>8. Agreement'
    BY <1>1, <1>3 DEF Agreement
  <1> QED BY <1>4, <1>5, <1>6, <1>7, <1>8 DEF Inv

(* When startShutdown is between two contexts nothing else is on the stack. *)
LEMMA AtShutdown ==
  ASSUME Inv, Running("shutdown")
  PROVE  /\ TypeOK /\ Len(stack) = 1 /\ DOMAIN stack = 1 .. 1 /\ stack[1] \in Frame
         /\ Top = stack[1] /\ stack[1].op = "shutdown" /\ stack[1].ctx = None /\ stack[1].keys \in SUBSET Keys
         /\ ~Finishing /\ pendingDelete = {} /\ afterVmCall = 0
  <1>1. TypeOK /\ stack # <<>> /\ Top.op = "shutdown"
    BY DEF Inv, OwnedOnce, Running
  <1>2. /\ Len(stack) \in Nat /\ Len(stack) # 0 /\ DOMAIN stack = 1 .. Len(stack)
        /\ stack[1] \in Frame /\ Top = stack[1]
    BY <1>1, FramesTyped
  <1>3. Len(stack) = 1 /\ stack[1].ctx = None
    BY <1>1, <1>2 DEF Inv, Nesting, BaseAt, IsCall
  <1>4. ~Finishing
    BY <1>1, <1>2, <1>3 DEF Finishing
  <1>5. pendingDelete = {} /\ afterVmCall = 0
    BY <1>1, <1>2, <1>4 DEF Inv, Scheduled, IsCall
  <1> QED BY <1>1, <1>2, <1>3, <1>4, <1>5, FrameFields

LEMMA ShutdownEndsInv ==
  ASSUME Inv, ShutdownEnds
  PROVE  Inv'
  <1>1. /\ TypeOK /\ Len(stack) = 1 /\ DOMAIN stack = 1 .. 1 /\ stack # <<>>
        /\ stack[1].op = "shutdown" /\ pendingDelete = {} /\ afterVmCall = 0
    BY AtShutdown DEF ShutdownEnds, Running
  <1>2. stack' \in Seq(Frame) /\ Len(stack') = 0
    BY <1>1, Popped DEF ShutdownEnds
  <1>3. stack' = <<>> /\ DOMAIN stack' = {}
    BY <1>2
  <1>4. TypeOK'
    BY <1>1, <1>2 DEF TypeOK, ShutdownEnds, contexts
  <1>5. OwnedOnce'
    BY <1>1, <1>3, <1>4, SameContexts DEF Inv, OwnedOnce, ShutdownEnds
  <1>6. Nesting' /\ Looping'
    BY <1>3 DEF Nesting, Looping
  <1>7. Keyed'
    BY SameContexts DEF Inv, ShutdownEnds
  <1>8. Scheduled'
    BY <1>1, <1>3 DEF Scheduled, Finishing, ShutdownEnds, contexts
  <1>9. Counted'
    BY <1>1, <1>3, SameContexts DEF Inv, Counted, Deleting, IsCall, ShutdownEnds
  <1>10. Agreement'
    BY <1>1, <1>3, SameContexts DEF Inv, Agreement, ShutdownEnds, TypeOK
  <1> QED BY <1>5, <1>6, <1>7, <1>8, <1>9, <1>10 DEF Inv

(* A context of the VM that leaves rootContexts and is destroyed. *)
LEMMA DestroyedFacts ==
  ASSUME TypeOK, Inv, NEW k \in Keys, NEW c, rootContexts[k] = c, c # None, Destroyed(c)
  PROVE  /\ c \in Contexts /\ KeyOf[c] = k /\ c \in Existing /\ c \notin gone
         /\ rootContexts' = [rootContexts EXCEPT ![k] = None]
         /\ rootContexts' \in [Keys -> Contexts \cup {None}]
         /\ pendingDone' = pendingDone /\ pendingDelete' = pendingDelete
         /\ gone' = gone \cup {c} /\ gone' \in SUBSET Contexts
         /\ Values(rootContexts)' = Values(rootContexts) \ {c}
         /\ Values(pendingDone)' = Values(pendingDone)
         /\ Existing' = Existing \ {c}
         /\ Keyed'
         /\ (Values(rootContexts) \cap Values(pendingDone) = {})'
         /\ ((Values(rootContexts) \cup Values(pendingDone)) \cap pendingDelete = {})'
         /\ (Existing \cap gone = {})'
         /\ \A d \in Contexts : Others(d)' = Others(d)
  <1>1. /\ c \in Contexts /\ KeyOf[c] = k /\ c \in Values(rootContexts)
    BY Contained DEF Inv, Keyed
  <1>2. c \in Existing /\ c \notin gone /\ c \notin Values(pendingDone) /\ c \notin pendingDelete
    BY <1>1 DEF Inv, OwnedOnce, Existing
  <1>3. /\ rootContexts' = [rootContexts EXCEPT ![k] = None]
        /\ pendingDone' = pendingDone /\ pendingDelete' = pendingDelete
        /\ gone' = gone \cup {c}
    BY <1>1 DEF Destroyed
  <1>4. rootContexts' \in [Keys -> Contexts \cup {None}] /\ gone' \in SUBSET Contexts
    BY <1>1, <1>3 DEF TypeOK
  <1>5. \A j \in Keys : j # k => rootContexts[j] # c
    BY <1>1 DEF Inv, Keyed
  <1>6. Values(rootContexts)' = Values(rootContexts) \ {c}
    BY <1>3, <1>5 DEF Values, TypeOK
  <1>7. Values(pendingDone)' = Values(pendingDone)
    BY <1>3 DEF Values
  <1>8. Existing' = Existing \ {c}
    BY <1>2, <1>3, <1>6, <1>7 DEF Existing
  <1>9. Keyed'
    BY <1>3 DEF Inv, Keyed, TypeOK
  <1>10. /\ (Values(rootContexts) \cap Values(pendingDone) = {})'
         /\ ((Values(rootContexts) \cup Values(pendingDone)) \cap pendingDelete = {})'
         /\ (Existing \cap gone = {})'
    BY <1>3, <1>6, <1>7, <1>8 DEF Inv, OwnedOnce
  <1>11. \A d \in Contexts : Others(d)' = Others(d)
    BY <1>2, <1>3, <1>8 DEF Others
  <1> QED BY <1>1, <1>2, <1>3, <1>4, <1>6, <1>7, <1>8, <1>9, <1>10, <1>11

LEMMA ShutdownNextInv ==
  ASSUME Inv, NEW k \in Keys, ShutdownNext(k)
  PROVE  Inv'
  <1> DEFINE next == [Top EXCEPT !.keys = @ \ {k}]
             c == rootContexts[k]
  <1>1. /\ TypeOK /\ Len(stack) = 1 /\ DOMAIN stack = 1 .. 1 /\ stack # <<>> /\ stack[1] \in Frame /\ Top = stack[1]
        /\ stack[1].op = "shutdown" /\ stack[1].ctx = None /\ stack[1].keys \in SUBSET Keys
        /\ pendingDelete = {} /\ afterVmCall = 0
    BY AtShutdown DEF ShutdownNext, Running
  <1>2. /\ next \in Frame /\ next.op = "shutdown" /\ next.ctx = None /\ next.keys = stack[1].keys \ {k}
    BY <1>1 DEF Frame
  <1>3. c # None /\ c \in Contexts /\ KeyOf[c] = k /\ c \in Existing
    <2>1. k \in stack[1].keys
      BY <1>1 DEF ShutdownNext
    <2>2. c # None
      BY <1>1, <2>1 DEF Inv, Looping
    <2> QED BY <1>1, <2>2, Contained DEF Inv, Keyed, Existing
  <1>4. \A j \in next.keys : j \in Keys /\ j # k /\ rootContexts[j] # None
    BY <1>1, <1>2 DEF Inv, Looping
  <1>5. CASE failed
    <2> HIDE DEF next
    <2>1. Destroyed(c) /\ Replace(<<next>>) /\ UNCHANGED <<afterVmCall, failed, open, deletes, agreed>>
      BY <1>5 DEF ShutdownNext, next
    <2>2. /\ stack' \in Seq(Frame) /\ Len(stack') = 1 /\ stack' # <<>> /\ stack'[1] = next /\ DOMAIN stack' = 1 .. 1
      BY <1>1, <1>2, <2>1, Replaced
    <2> HIDE DEF c
    <2>3. rootContexts[k] = c
      BY DEF c
    <2>4. /\ c \notin gone /\ Existing' = Existing \ {c} /\ gone' = gone \cup {c} /\ Keyed'
          /\ rootContexts' = [rootContexts EXCEPT ![k] = None]
          /\ \A d \in Contexts : Others(d)' = Others(d)
          /\ pendingDelete' = {}
      BY <1>1, <1>3, <2>1, <2>3, DestroyedFacts
    <2>5. OwnedOnce'
      <3>1. TypeOK'
        BY <1>1, <1>3, <2>1, <2>2, <2>3, DestroyedFacts DEF TypeOK
      <3> QED BY <1>1, <1>3, <2>1, <2>2, <2>3, <3>1, DestroyedFacts DEF OwnedOnce
    <2>6. Nesting'
      BY <1>2, <2>2 DEF Nesting
    <2>7. Scheduled'
      BY <1>1, <1>2, <2>1, <2>2, <2>4 DEF Scheduled, Finishing
    <2>8. Looping'
      BY <1>1, <1>2, <1>4, <2>2, <2>4 DEF Looping, TypeOK
    <2>9. Counted'
      BY <1>1, <1>2, <2>1, <2>2, <2>4 DEF Inv, Counted, Deleting, IsCall
    <2>10. Agreement'
      BY <1>2, <1>5, <2>1, <2>2, <2>4 DEF Agreement, HasAnswered, IsCall
    <2> QED BY <2>4, <2>5, <2>6, <2>7, <2>8, <2>9, <2>10 DEF Inv
  <1>6. CASE ~failed
    <2> DEFINE f == GuestCall("on_done", c)
               g == [next EXCEPT !.ctx = c]
    <2>1. Replace(<<f, g>>) /\ UNCHANGED <<contexts, afterVmCall, failed, open, deletes, agreed>>
      BY <1>6 DEF ShutdownNext
    <2>2. /\ f \in Frame /\ f.op = "guest" /\ f.handler = "on_done" /\ f.ctx = c
      BY <1>3 DEF GuestCall, Frame, Handlers
    <2>3. /\ g \in Frame /\ g.op = "shutdown" /\ g.ctx = c /\ g.keys = next.keys
      BY <1>1, <1>2, <1>3 DEF Frame
    <2> HIDE DEF f, g, next
    <2>4. /\ stack' \in Seq(Frame) /\ Len(stack') = 2 /\ stack' # <<>> /\ stack'[1] = f /\ stack'[2] = g
          /\ DOMAIN stack' = 1 .. 2
      BY <1>1, <2>1, <2>2, <2>3, ReplacedByTwo
    <2> HIDE DEF c
    <2>5. TypeOK'
      BY <1>1, <2>1, <2>4 DEF TypeOK, contexts
    <2>6. OwnedOnce' /\ Keyed'
      BY <2>1, <2>4, <2>5, SameContexts DEF Inv, OwnedOnce
    <2>7. Nesting'
      BY <2>2, <2>3, <2>4 DEF Nesting, BaseAt, IsCall
    <2>8. Scheduled'
      BY <1>1, <2>1, <2>2, <2>3, <2>4 DEF Scheduled, Finishing, contexts
    <2>9. Looping'
      <3>1. rootContexts' = rootContexts /\ rootContexts[k] = c
        BY <2>1 DEF contexts, c
      <3> QED BY <1>2, <1>3, <1>4, <2>2, <2>3, <2>4, <3>1 DEF Looping
    <2>10. Counted'
      BY <1>1, <1>3, <2>1, <2>2, <2>3, <2>4, SameContexts DEF Inv, Counted, Deleting, IsCall
    <2>11. Agreement'
      BY <1>1, <2>1, <2>2, <2>3, <2>4, SameContexts DEF Inv, Agreement, HasAnswered, IsCall, TypeOK
    <2> QED BY <2>6, <2>7, <2>8, <2>9, <2>10, <2>11 DEF Inv
  <1> QED BY <1>5, <1>6

-----------------------------------------------------------------------------
(* The frames at a call into the guest. *)
LEMMA AtCall ==
  ASSUME Inv, stack # <<>>, IsCall(Top)
  PROVE  /\ TypeOK /\ Len(stack) \in 1 .. 4 /\ DOMAIN stack = 1 .. Len(stack) /\ Top = stack[1]
         /\ \A i \in 1 .. Len(stack) : stack[i] \in Frame
         /\ Len(stack) > 1 => Below # <<>> /\ Below[1] = stack[2]
         /\ Len(stack) < 2 => Below = <<>>
         /\ stack[1].ctx \in Contexts /\ stack[1].ctx # None /\ stack[1].handler \in Handlers
         /\ KeyOf[stack[1].ctx] \in Keys
         /\ BaseAt(1) \/ /\ Len(stack) > 2 /\ stack[1].handler = "on_delete"
                         /\ stack[2].op = "finish" /\ stack[2].ctx = stack[1].ctx
                         /\ BaseAt(3) /\ stack[3].op = "after"
         /\ BaseAt(1) <=> ~Finishing
         /\ ~Finishing => \A i \in 1 .. Len(stack) : stack[i].op # "finish"
  <1>1. TypeOK
    BY DEF Inv, OwnedOnce
  <1>2. /\ Len(stack) \in Nat /\ Len(stack) # 0 /\ DOMAIN stack = 1 .. Len(stack)
        /\ \A i \in 1 .. Len(stack) : stack[i] \in Frame
        /\ Top = stack[1]
        /\ (Below # <<>>) <=> (Len(stack) > 1)
        /\ Len(stack) > 1 => Below[1] = stack[2]
    BY <1>1, FramesTyped
  <1>3. stack[1].op \in {"guest", "after"}
    BY <1>2 DEF IsCall
  <1>4. \/ BaseAt(1)
        \/ /\ Len(stack) > 2 /\ stack[1].handler = "on_delete"
           /\ stack[2].op = "finish" /\ stack[2].ctx = stack[1].ctx
           /\ BaseAt(3) /\ stack[3].op = "after"
    BY <1>2, <1>3 DEF Inv, Nesting
  <1>5. /\ BaseAt(1) => Len(stack) \in 1 .. 2 /\ (Len(stack) = 2 => stack[2].op = "shutdown")
        /\ BaseAt(3) => Len(stack) \in 3 .. 4
    BY <1>2 DEF BaseAt
  <1>6. BaseAt(1) <=> ~Finishing
    BY <1>2, <1>3, <1>4, <1>5 DEF Finishing
  <1>7. ~Finishing => \A i \in 1 .. Len(stack) : stack[i].op # "finish"
    BY <1>2, <1>3, <1>4, <1>5, <1>6
  <1>8. /\ stack[1].ctx \in Contexts /\ stack[1].ctx # None /\ stack[1].handler \in Handlers
        /\ KeyOf[stack[1].ctx] \in Keys
    BY <1>2, <1>3, FrameFields, KeyOfAssumption DEF IsCall
  <1> QED BY <1>1, <1>2, <1>4, <1>5, <1>6, <1>7, <1>8

(* startShutdown waits for the call on top of it. *)
LEMMA AtAnswer ==
  ASSUME Inv, Running("after"), afterVmCall = 0, Below # <<>>, Below[1].op = "shutdown"
  PROVE  /\ TypeOK /\ Len(stack) = 2 /\ DOMAIN stack = 1 .. 2 /\ Top = stack[1]
         /\ stack[1] \in Frame /\ stack[2] \in Frame /\ Below[1] = stack[2]
         /\ stack[1].op = "after" /\ stack[1].handler \in {"on_done", "on_delete"} /\ stack[1].answer \in BOOLEAN
         /\ stack[2].op = "shutdown" /\ stack[2].ctx = stack[1].ctx /\ stack[2].keys \in SUBSET Keys
         /\ stack[1].ctx \in Contexts /\ stack[1].ctx # None /\ KeyOf[stack[1].ctx] \in Keys
         /\ rootContexts[KeyOf[stack[1].ctx]] = stack[1].ctx /\ KeyOf[stack[1].ctx] \notin stack[2].keys
         /\ pendingDelete = {} /\ ~Finishing
  <1>1. /\ TypeOK /\ Len(stack) \in 1 .. 4 /\ DOMAIN stack = 1 .. Len(stack) /\ Top = stack[1]
        /\ \A i \in 1 .. Len(stack) : stack[i] \in Frame
        /\ Len(stack) > 1 => Below # <<>> /\ Below[1] = stack[2]
        /\ Len(stack) < 2 => Below = <<>>
        /\ stack[1].ctx \in Contexts /\ stack[1].ctx # None /\ KeyOf[stack[1].ctx] \in Keys
        /\ stack[1].op = "after"
    BY AtCall DEF Running, IsCall
  <1>2. Len(stack) > 1 /\ Below[1] = stack[2] /\ stack[2].op = "shutdown"
    BY <1>1
  <1>3. BaseAt(1) /\ ~Finishing
    BY <1>1, <1>2, AtCall DEF Running, IsCall
  <1>4. Len(stack) = 2 /\ stack[1].handler \in {"on_done", "on_delete"} /\ stack[2].ctx = stack[1].ctx
    BY <1>1, <1>2, <1>3 DEF BaseAt
  <1>5. rootContexts[KeyOf[stack[1].ctx]] = stack[1].ctx /\ KeyOf[stack[1].ctx] \notin stack[2].keys
    BY <1>1, <1>2, <1>4 DEF Inv, Looping
  <1>6. pendingDelete = {}
    BY <1>3 DEF Inv, Scheduled
  <1>7. stack[1].answer \in BOOLEAN /\ stack[2].keys \in SUBSET Keys
    BY <1>1, <1>2, <1>4, FrameFields
  <1> QED BY <1>1, <1>2, <1>3, <1>4, <1>5, <1>6, <1>7

(* A context that has to wait for proxy_done, and the one whose place it may take. *)
LEMMA WaitsFacts ==
  ASSUME TypeOK, Inv, NEW c \in Contexts, rootContexts[KeyOf[c]] = c, Waits(c), pendingDelete = {}
  PROVE  /\ rootContexts' = [rootContexts EXCEPT ![KeyOf[c]] = None]
         /\ rootContexts' \in [Keys -> Contexts \cup {None}] /\ pendingDone' \in [Keys -> Contexts \cup {None}]
         /\ pendingDelete' = {} /\ gone' \in SUBSET Contexts
         /\ gone \subseteq gone' /\ c \notin gone' /\ c \in Existing'
         /\ \A d \in gone' : d \notin gone => Others(d)' # {}
         /\ \A d \in Contexts : Others(d)' = Others(d)
         /\ Keyed'
         /\ (Values(rootContexts) \cap Values(pendingDone) = {})'
         /\ (Existing \cap gone = {})'
  <1> DEFINE k == KeyOf[c]
             older == pendingDone[k]
  <1>1. k \in Keys /\ c # None
    BY KeyOfAssumption, NoneAssumption
  <1>2. /\ rootContexts' = [rootContexts EXCEPT ![k] = None]
        /\ pendingDone' = [pendingDone EXCEPT ![k] = c]
        /\ gone' = IF older = None THEN gone ELSE gone \cup {older}
        /\ pendingDelete' = {}
    BY DEF Waits
  <1>3. /\ c \in Values(rootContexts) /\ c \in Existing /\ c \notin gone
        /\ c \notin Values(pendingDone)
        /\ older # None => older \in Contexts /\ KeyOf[older] = k /\ older \in Values(pendingDone)
                           /\ older \notin Values(rootContexts) /\ older \notin gone /\ older # c
    BY <1>1, Contained DEF Inv, Keyed, OwnedOnce, Existing
  <1>4. \A j \in Keys : j # k => rootContexts[j] # c /\ (older # None => pendingDone[j] # older)
    BY <1>1, <1>3 DEF Inv, Keyed
  <1>5. Values(rootContexts)' = Values(rootContexts) \ {c}
    BY <1>1, <1>2, <1>4 DEF Values, TypeOK
  <1>6. Values(pendingDone)' = (Values(pendingDone) \ {older}) \cup {c}
    BY <1>1, <1>2, <1>3, <1>4 DEF Values, TypeOK
  <1>7. Existing' = (Existing \ {older}) \cup {c} /\ c \in Existing'
    BY <1>1, <1>2, <1>3, <1>5, <1>6 DEF Existing, Values
  <1>8. /\ (Values(rootContexts) \cap Values(pendingDone) = {})'
        /\ (Existing \cap gone = {})'
    BY ZenonT(40), <1>1, <1>2, <1>3, <1>5, <1>6, <1>7 DEF Inv, OwnedOnce
  <1>9. Keyed'
    BY <1>1, <1>2 DEF Inv, Keyed, TypeOK
  <1>10. gone' \cup Existing' = gone \cup Existing
    <2>1. older # None => older \in Existing
      BY <1>3 DEF Existing
    <2>2. None \notin Existing
      BY Contained, NoneAssumption
    <2> QED BY <1>2, <1>3, <1>7, <2>1, <2>2
  <1>11. \A d \in Contexts : Others(d)' = Others(d)
    BY <1>10 DEF Others
  <1>12. \A d \in gone' : d \notin gone => Others(d)' # {}
    <2> SUFFICES ASSUME NEW d \in gone', d \notin gone  PROVE c \in Others(d)'
      OBVIOUS
    <2>1. d = older /\ older # None
      BY <1>2
    <2> QED BY <1>3, <1>7, <2>1 DEF Others
  <1>13. /\ rootContexts' \in [Keys -> Contexts \cup {None}] /\ pendingDone' \in [Keys -> Contexts \cup {None}]
         /\ gone \subseteq gone' /\ c \notin gone' /\ gone' \in SUBSET Contexts
    BY <1>1, <1>2, <1>3 DEF TypeOK
  <1> QED BY <1>2, <1>7, <1>8, <1>9, <1>11, <1>12, <1>13

LEMMA ShutdownAnsweredInv ==
  ASSUME Inv, ShutdownAnswered
  PROVE  Inv'
  <1> DEFINE c == stack[1].ctx
             k == KeyOf[c]
             idle == [stack[2] EXCEPT !.ctx = None]
  <1>1. Running("after") /\ afterVmCall = 0 /\ Below # <<>> /\ Below[1].op = "shutdown"
    BY DEF ShutdownAnswered
  <1>2. /\ TypeOK /\ Len(stack) = 2 /\ DOMAIN stack = 1 .. 2 /\ Top = stack[1] /\ stack # <<>>
        /\ stack[1] \in Frame /\ stack[2] \in Frame /\ Below[1] = stack[2]
        /\ stack[1].op = "after" /\ stack[1].handler \in {"on_done", "on_delete"} /\ stack[1].answer \in BOOLEAN
        /\ stack[2].op = "shutdown" /\ stack[2].ctx = c /\ stack[2].keys \in SUBSET Keys
        /\ c \in Contexts /\ c # None /\ k \in Keys /\ rootContexts[k] = c /\ k \notin stack[2].keys
        /\ pendingDelete = {}
    BY <1>1, AtAnswer DEF Running
  <1>3. /\ idle \in Frame /\ idle.op = "shutdown" /\ idle.ctx = None /\ idle.keys = stack[2].keys
    BY <1>2 DEF Frame
  <1>4. c \in Existing /\ c \notin gone
    BY <1>2, Contained DEF Inv, OwnedOnce, Existing
  <1>5. \A j \in stack[2].keys : j \in Keys /\ j # k /\ rootContexts[j] # None
    BY <1>2 DEF Inv, Looping
  <1>6. \A d \in Contexts \ {c} : ~Deleting(d)
    BY <1>2 DEF Deleting, IsCall
  <1>7. UNCHANGED <<afterVmCall, failed, open, agreed>>
    BY DEF ShutdownAnswered
  <1>8. CASE /\ stack[1].handler = "on_done" /\ ~stack[1].answer
             /\ Waits(c) /\ stack' = <<idle>> \o Tail(Below) /\ UNCHANGED deletes
    <2> HIDE DEF idle
    <2>1. /\ stack' \in Seq(Frame) /\ Len(stack') = 1 /\ stack' # <<>> /\ stack'[1] = idle
          /\ DOMAIN stack' = 1 .. 1
      BY <1>2, <1>3, <1>8, PoppedTo
    <2> HIDE DEF c
    <2>2. /\ rootContexts' = [rootContexts EXCEPT ![k] = None]
          /\ rootContexts' \in [Keys -> Contexts \cup {None}] /\ pendingDone' \in [Keys -> Contexts \cup {None}]
          /\ pendingDelete' = {} /\ gone' \in SUBSET Contexts
          /\ gone \subseteq gone' /\ c \in Existing'
          /\ \A d \in gone' : d \notin gone => Others(d)' # {}
          /\ \A d \in Contexts : Others(d)' = Others(d)
          /\ Keyed'
          /\ (Values(rootContexts) \cap Values(pendingDone) = {})'
          /\ (Existing \cap gone = {})'
      BY <1>2, <1>8, WaitsFacts
    <2>3. TypeOK'
      BY <1>2, <1>7, <1>8, <2>1, <2>2 DEF TypeOK
    <2>4. OwnedOnce'
      BY <2>1, <2>2, <2>3 DEF OwnedOnce
    <2>5. Nesting'
      BY <1>3, <2>1 DEF Nesting
    <2>6. Scheduled'
      BY <1>1, <1>3, <1>7, <2>1, <2>2 DEF Scheduled, Finishing
    <2>7. Looping'
      BY <1>2, <1>3, <1>5, <2>1, <2>2 DEF Looping, TypeOK
    <2>8. Counted'
      <3>1. \A d \in Contexts : ~Deleting(d)'
        BY <1>3, <2>1 DEF Deleting, IsCall
      <3>2. ~Deleting(c)
        BY <1>2, <1>8 DEF Deleting, IsCall
      <3> QED BY <1>3, <1>6, <1>8, <2>1, <2>2, <3>1, <3>2 DEF Inv, Counted
    <2>9. Agreement'
      BY <1>2, <1>3, <1>7, <1>8, <2>1, <2>2 DEF Inv, Agreement, HasAnswered, IsCall, TypeOK
    <2> QED BY <2>2, <2>4, <2>5, <2>6, <2>7, <2>8, <2>9 DEF Inv
  <1>9. CASE /\ stack[1].handler = "on_done" /\ stack[1].answer /\ ~failed
             /\ Replace(<<GuestCall("on_delete", c)>>) /\ CountDelete(c) /\ UNCHANGED contexts
    <2> DEFINE f == GuestCall("on_delete", c)
    <2>1. /\ f \in Frame /\ f.op = "guest" /\ f.handler = "on_delete" /\ f.ctx = c
      BY <1>2 DEF GuestCall, Frame, Handlers
    <2>2. Replace(<<f>>) /\ deletes' = [deletes EXCEPT ![c] = @ + 1]
      BY <1>9 DEF CountDelete
    <2> HIDE DEF f
    <2>3. /\ stack' \in Seq(Frame) /\ Len(stack') = 2 /\ stack' # <<>> /\ stack'[1] = f /\ stack'[2] = stack[2]
          /\ DOMAIN stack' = 1 .. 2
      BY <1>2, <2>1, <2>2, Replaced
    <2>4. ~Deleting(c) /\ deletes[c] = 0
      <3>1. ~Deleting(c)
        BY <1>2, <1>9 DEF Deleting, IsCall
      <3> QED BY <1>2, <1>4, <3>1 DEF Inv, Counted
    <2>5. HasAnswered(1) /\ c \in agreed
      BY <1>2, <1>9 DEF Inv, Agreement, HasAnswered, IsCall
    <2> HIDE DEF c
    <2>6. TypeOK'
      BY <1>2, <1>7, <1>9, <2>2, <2>3, <2>4 DEF TypeOK, contexts
    <2>7. OwnedOnce' /\ Keyed'
      BY <1>9, <2>3, <2>6, SameContexts DEF Inv, OwnedOnce
    <2>8. Nesting'
      BY <1>2, <2>1, <2>3 DEF Nesting, BaseAt, IsCall
    <2>9. Scheduled'
      BY <1>1, <1>2, <1>7, <1>9, <2>1, <2>3 DEF Scheduled, Finishing, contexts
    <2>10. Looping'
      BY <1>2, <1>5, <1>9, <2>1, <2>3 DEF Looping, contexts
    <2>11. Counted'
      <3>1. \A d \in Contexts : Deleting(d)' <=> d = c
        BY <1>2, <2>1, <2>3 DEF Deleting, IsCall
      <3>2. \A d \in Contexts \ {c} : deletes'[d] = deletes[d]
        BY <1>2, <2>2 DEF TypeOK
      <3>3. deletes'[c] = 1
        BY <1>2, <2>2, <2>4 DEF TypeOK
      <3>4. gone' = gone /\ Existing' = Existing
        BY <1>9, SameContexts
      <3> QED BY <1>2, <1>4, <1>6, <2>1, <2>3, <3>1, <3>2, <3>3, <3>4 DEF Inv, Counted
    <2>12. Agreement'
      <3>1. \A d \in gone : deletes'[d] = deletes[d]
        BY <1>2, <1>4, <2>2 DEF TypeOK
      <3> QED BY <1>2, <1>7, <1>9, <2>1, <2>3, <2>5, <3>1, SameContexts DEF Inv, Agreement, HasAnswered, IsCall, TypeOK
    <2> QED BY <2>7, <2>8, <2>9, <2>10, <2>11, <2>12 DEF Inv
  <1>10. CASE /\ stack[1].handler = "on_delete" \/ (stack[1].answer /\ failed)
              /\ Destroyed(c) /\ stack' = <<idle>> \o Tail(Below) /\ UNCHANGED deletes
    <2> HIDE DEF idle
    <2>1. /\ stack' \in Seq(Frame) /\ Len(stack') = 1 /\ stack' # <<>> /\ stack'[1] = idle
          /\ DOMAIN stack' = 1 .. 1
      BY <1>2, <1>3, <1>10, PoppedTo
    <2>2. failed \/ (c \in agreed /\ deletes[c] = 1)
      <3> SUFFICES ASSUME ~failed  PROVE c \in agreed /\ deletes[c] = 1
        OBVIOUS
      <3>1. stack[1].handler = "on_delete"
        BY <1>10
      <3>2. HasAnswered(1) /\ Deleting(c)
        BY <1>2, <3>1 DEF HasAnswered, Deleting, IsCall
      <3> QED BY <1>2, <1>4, <3>2 DEF Inv, Agreement, Counted
    <2> HIDE DEF c
    <2>3. /\ Existing' = Existing \ {c} /\ gone' = gone \cup {c} /\ Keyed'
          /\ rootContexts' = [rootContexts EXCEPT ![k] = None]
          /\ \A d \in Contexts : Others(d)' = Others(d)
          /\ pendingDelete' = {}
      BY <1>2, <1>10, DestroyedFacts
    <2>4. OwnedOnce'
      <3>1. TypeOK'
        BY <1>2, <1>7, <1>10, <2>1, DestroyedFacts DEF TypeOK
      <3> QED BY <1>2, <1>10, <2>1, <2>3, <3>1, DestroyedFacts DEF OwnedOnce
    <2>5. Nesting'
      BY <1>3, <2>1 DEF Nesting
    <2>6. Scheduled'
      BY <1>1, <1>3, <1>7, <2>1, <2>3 DEF Scheduled, Finishing
    <2>7. Looping'
      BY <1>2, <1>3, <1>5, <2>1, <2>3 DEF Looping, TypeOK
    <2>8. Counted'
      <3>1. \A d \in Contexts : ~Deleting(d)'
        BY <1>3, <2>1 DEF Deleting, IsCall
      <3> QED BY <1>3, <1>6, <1>10, <2>1, <2>3, <3>1 DEF Inv, Counted
    <2>9. Agreement'
      BY <1>2, <1>3, <1>7, <1>10, <2>1, <2>2, <2>3 DEF Inv, Agreement, HasAnswered, IsCall, TypeOK
    <2> QED BY <2>3, <2>4, <2>5, <2>6, <2>7, <2>8, <2>9 DEF Inv
  <1> QED BY <1>2, <1>8, <1>9, <1>10 DEF ShutdownAnswered

-----------------------------------------------------------------------------
(* proxy_done finds a waiting context only in a call that is not made by finishShutdown. *)
LEMMA GuestCallsDoneInv ==
  ASSUME Inv, ~Impersonates, GuestCallsDone
  PROVE  Inv'
  <1> DEFINE e == stack[1].ctx
             k == KeyOf[e]
             c == pendingDone[k]
  <1>1. /\ TypeOK /\ Len(stack) \in 1 .. 4 /\ DOMAIN stack = 1 .. Len(stack) /\ Top = stack[1] /\ stack # <<>>
        /\ e \in Contexts /\ e # None /\ k \in Keys /\ stack[1].op = "guest" /\ IsCall(stack[1])
        /\ BaseAt(1) \/ (Len(stack) > 2 /\ stack[2].op = "finish" /\ stack[2].ctx = e)
        /\ ~Finishing => BaseAt(1)
    BY AtCall DEF GuestCallsDone, Running, IsCall
  <1>2. Done(e) /\ UNCHANGED <<failed, open, stack, deletes>>
    BY <1>1 DEF GuestCallsDone
  <1>3. /\ c # None /\ pendingDone' = [pendingDone EXCEPT ![k] = None]
        /\ pendingDelete' = pendingDelete \cup {c} /\ afterVmCall' = afterVmCall + 1
        /\ agreed' = agreed \cup {e} /\ rootContexts' = rootContexts /\ gone' = gone
    BY <1>2 DEF Done
  <1>4. c \in Values(pendingDone) /\ c \in Contexts /\ c # None /\ KeyOf[c] = k
        /\ e \in Existing
    BY <1>1, <1>3, Contained DEF Inv, Keyed, Counted
  <1>5. pendingDelete = {}
    BY <1>1, <1>3 DEF Inv, Scheduled
  <1>6. ~Finishing /\ BaseAt(1) /\ afterVmCall = 0
    <2>1. ~Finishing
      BY <1>1, <1>5 DEF Inv, Scheduled, IsCall
    <2> QED BY <1>1, <1>5, <2>1 DEF Inv, Scheduled
  <1>7. pendingDelete' = {c} /\ afterVmCall' = 1
    BY <1>3, <1>5, <1>6
  <1>8. /\ Values(rootContexts)' = Values(rootContexts)
        /\ Values(pendingDone)' = Values(pendingDone) \ {c}
    <2>1. \A j \in Keys : j # k => pendingDone[j] # c
      BY <1>4 DEF Inv, Keyed
    <2> QED BY <1>1, <1>3, <2>1 DEF Values, TypeOK
  <1>9. Existing' = Existing
    BY <1>4, <1>5, <1>7, <1>8 DEF Existing
  <1>10. TypeOK'
    <2>1. afterVmCall' \in 0 .. Cardinality(Contexts)
      BY <1>4, <1>7, ScheduledBound
    <2> QED BY <1>1, <1>2, <1>3, <1>4, <1>7, <2>1 DEF TypeOK
  <1> HIDE DEF c
  <1>11. OwnedOnce'
    <2>1. c \notin Values(rootContexts) /\ Existing \cap gone = {}
          /\ Values(rootContexts) \cap Values(pendingDone) = {}
      BY <1>4 DEF Inv, OwnedOnce
    <2> QED BY <1>1, <1>2, <1>3, <1>7, <1>8, <1>9, <1>10, <2>1 DEF OwnedOnce
  <1>12. Nesting'
    BY <1>1, <1>2, <1>6 DEF Nesting, BaseAt
  <1>13. Keyed'
    BY <1>1, <1>3 DEF Inv, Keyed, TypeOK
  <1>14. Scheduled'
    BY <1>1, <1>2, <1>3, <1>4, <1>6, <1>7 DEF Scheduled, Finishing, IsCall, TypeOK
  <1>15. Looping'
    BY <1>2, <1>3 DEF Inv, Looping
  <1>16. Counted'
    BY <1>2, <1>3, <1>9 DEF Inv, Counted, Deleting
  <1>17. Agreement'
    <2>1. \A d \in Contexts : Others(d)' = Others(d)
      BY <1>3, <1>9 DEF Others
    <2>2. c = e \/ e \in Others(c)
      BY <1>4 DEF Others
    <2> QED BY <1>1, <1>2, <1>3, <1>4, <1>7, <2>1, <2>2 DEF Inv, Agreement, HasAnswered, TypeOK
  <1> QED BY <1>11, <1>12, <1>13, <1>14, <1>15, <1>16, <1>17 DEF Inv

LEMMA GuestReturnsInv ==
  ASSUME Inv, NEW answer \in BOOLEAN, NEW trap \in BOOLEAN, GuestReturns(answer, trap)
  PROVE  Inv'
  <1> DEFINE f == [op |-> "after", handler |-> stack[1].handler, ctx |-> stack[1].ctx, answer |-> answer]
  <1>1. /\ TypeOK /\ Len(stack) \in 1 .. 4 /\ DOMAIN stack = 1 .. Len(stack) /\ Top = stack[1] /\ stack # <<>>
        /\ stack[1].ctx \in Contexts /\ stack[1].handler \in Handlers /\ stack[1].op = "guest"
    BY AtCall DEF GuestReturns, Running, IsCall
  <1>2. /\ f \in Frame /\ f.op = "after" /\ f.handler = stack[1].handler /\ f.ctx = stack[1].ctx
        /\ f.answer = answer
    BY <1>1 DEF Frame
  <1>3. /\ Replace(<<f>>) /\ failed' = (failed \/ trap)
        /\ agreed' = IF stack[1].handler = "on_done" /\ answer THEN agreed \cup {stack[1].ctx} ELSE agreed
        /\ UNCHANGED <<contexts, afterVmCall, open, deletes>>
    BY <1>1 DEF GuestReturns
  <1> HIDE DEF f
  <1>4. /\ stack' \in Seq(Frame) /\ Len(stack') = Len(stack) /\ stack' # <<>> /\ stack'[1] = f
        /\ \A i \in 2 .. Len(stack) : stack'[i] = stack[i]
        /\ DOMAIN stack' = 1 .. Len(stack)
    BY <1>1, <1>2, <1>3, Replaced
  <1>5. TypeOK'
    BY <1>1, <1>3, <1>4 DEF TypeOK, contexts
  <1>6. OwnedOnce' /\ Keyed'
    BY <1>3, <1>4, <1>5, SameContexts DEF Inv, OwnedOnce
  <1>7. Nesting'
    BY <1>1, <1>2, <1>4 DEF Inv, Nesting, BaseAt, IsCall
  <1>8. Scheduled'
    <2>1. Finishing' <=> Finishing
      BY <1>1, <1>2, <1>4 DEF Finishing
    <2> QED BY <1>1, <1>2, <1>3, <1>4, <2>1 DEF Inv, Scheduled, IsCall, contexts
  <1>9. Looping'
    BY <1>1, <1>2, <1>3, <1>4 DEF Inv, Looping, contexts
  <1>10. Counted'
    <2>1. \A d \in Contexts : Deleting(d)' <=> Deleting(d)
      BY <1>1, <1>2, <1>4 DEF Deleting, IsCall
    <2> QED BY <1>1, <1>2, <1>3, <1>4, <2>1, SameContexts DEF Inv, Counted
  <1>11. Agreement'
    <2>1. \A i \in 1 .. Len(stack) : HasAnswered(i)' => HasAnswered(i) \/ (i = 1 /\ f.handler = "on_done" /\ answer)
      <3> SUFFICES ASSUME NEW i \in 1 .. Len(stack), HasAnswered(i)'
                   PROVE  HasAnswered(i) \/ (i = 1 /\ f.handler = "on_done" /\ answer)
        OBVIOUS
      <3>1. CASE i = 1
        <4>1. f.handler = "on_delete" => Len(stack) > 1
          BY <1>1, <1>2 DEF Inv, Nesting, BaseAt, IsCall
        <4> QED BY <1>1, <1>2, <1>4, <3>1, <4>1 DEF HasAnswered, IsCall
      <3>2. CASE i > 1
        <4>1. IsCall(stack[i]) /\ stack[i].handler = "on_delete" => i + 1 \in 2 .. Len(stack)
          BY <1>1, <3>2 DEF Inv, Nesting, BaseAt, IsCall
        <4> QED BY <1>1, <1>4, <3>2, <4>1 DEF HasAnswered, IsCall
      <3> QED BY <3>1, <3>2
    <2>2. /\ \A d \in Contexts : Others(d)' = Others(d)
          /\ pendingDelete' = pendingDelete /\ gone' = gone /\ agreed \subseteq agreed'
      BY <1>3, SameContexts
    <2>3. \A i \in DOMAIN stack' : HasAnswered(i)' => stack'[i].ctx \in agreed'
      BY <1>1, <1>2, <1>3, <1>4, <2>1, <2>2 DEF Inv, Agreement
    <2> QED BY <1>1, <1>3, <2>2, <2>3 DEF Inv, Agreement, TypeOK
  <1> QED BY <1>6, <1>7, <1>8, <1>9, <1>10, <1>11 DEF Inv

LEMMA CallEndsInv ==
  ASSUME Inv, CallEnds
  PROVE  Inv'
  <1>1. /\ TypeOK /\ Len(stack) = 1 /\ DOMAIN stack = 1 .. 1 /\ Top = stack[1] /\ stack # <<>>
        /\ BaseAt(1) /\ ~Finishing /\ stack[1].op = "after"
    <2>1. /\ TypeOK /\ Len(stack) \in 1 .. 4 /\ DOMAIN stack = 1 .. Len(stack) /\ Top = stack[1]
          /\ Len(stack) > 1 => Below # <<>>
          /\ BaseAt(1) \/ Len(stack) > 2
          /\ BaseAt(1) <=> ~Finishing
      BY AtCall DEF CallEnds, Running, IsCall
    <2> QED BY <2>1 DEF CallEnds, Running
  <1>2. stack[1].handler = "other"
    BY <1>1 DEF BaseAt
  <1>3. pendingDelete = {} /\ afterVmCall = 0
    BY <1>1 DEF Inv, Scheduled, CallEnds
  <1>4. stack' = <<>> /\ DOMAIN stack' = {} /\ stack' \in Seq(Frame)
    BY DEF CallEnds
  <1>5. UNCHANGED <<contexts, afterVmCall, failed, open, deletes, agreed>>
    BY DEF CallEnds
  <1>6. TypeOK'
    BY <1>1, <1>4, <1>5 DEF TypeOK, contexts
  <1>7. OwnedOnce' /\ Keyed'
    BY <1>3, <1>4, <1>5, <1>6, SameContexts DEF Inv, OwnedOnce
  <1>8. Nesting' /\ Looping'
    BY <1>4 DEF Nesting, Looping
  <1>9. Scheduled'
    BY <1>3, <1>4, <1>5 DEF Scheduled, Finishing, contexts
  <1>10. Counted'
    BY <1>1, <1>2, <1>4, <1>5, SameContexts DEF Inv, Counted, Deleting, IsCall
  <1>11. Agreement'
    BY <1>1, <1>3, <1>4, <1>5, SameContexts DEF Inv, Agreement, TypeOK
  <1> QED BY <1>7, <1>8, <1>9, <1>10, <1>11 DEF Inv

LEMMA RunActionInv ==
  ASSUME Inv, RunAction
  PROVE  Inv'
  <1> DEFINE f == [op |-> "finish", ctx |-> None]
  <1>1. /\ TypeOK /\ Len(stack) \in 1 .. 4 /\ DOMAIN stack = 1 .. Len(stack) /\ Top = stack[1] /\ stack # <<>>
        /\ \A i \in 1 .. Len(stack) : stack[i] \in Frame
        /\ BaseAt(1) <=> ~Finishing
        /\ stack[1].op = "after"
    BY AtCall DEF RunAction, Running, IsCall
  <1>2. pendingDelete # {} /\ ~Finishing /\ BaseAt(1) /\ afterVmCall = 1
    BY <1>1 DEF Inv, Scheduled, RunAction
  <1>3. f \in Frame /\ f.op = "finish" /\ f.ctx = None
    BY DEF Frame
  <1>4. Push(f) /\ afterVmCall' = 0 /\ UNCHANGED <<contexts, failed, open, deletes, agreed>>
    BY <1>2 DEF RunAction
  <1> HIDE DEF f
  <1>5. /\ stack' \in Seq(Frame) /\ Len(stack') = Len(stack) + 1 /\ stack' # <<>> /\ stack'[1] = f
        /\ \A i \in 1 .. Len(stack) : stack'[i + 1] = stack[i]
        /\ DOMAIN stack' = 1 .. Len(stack) + 1
    BY <1>1, <1>3, <1>4, Pushed
  <1>6. stack'[2] = stack[1] /\ (Len(stack) > 1 => stack'[3] = stack[2]) /\ Len(stack) \in 1 .. 2
    BY <1>1, <1>2, <1>5 DEF BaseAt
  <1>7. TypeOK'
    <2>1. afterVmCall' \in 0 .. Cardinality(Contexts)
      BY <1>4, ScheduledBound
    <2> QED BY <1>1, <1>4, <1>5, <2>1 DEF TypeOK, contexts
  <1>8. OwnedOnce' /\ Keyed'
    BY <1>4, <1>5, <1>7, SameContexts DEF Inv, OwnedOnce
  <1>9. Nesting'
    BY <1>1, <1>2, <1>3, <1>5, <1>6 DEF Nesting, BaseAt
  <1>10. Scheduled'
    BY <1>1, <1>3, <1>4, <1>5 DEF Inv, Scheduled, Finishing, IsCall, contexts
  <1>11. Looping'
    <2>1. \A i \in 2 .. Len(stack) + 1 : stack'[i] = stack[i - 1] /\ i - 1 \in 1 .. Len(stack)
      BY <1>1, <1>5
    <2>2. DOMAIN stack' = {1} \cup 2 .. Len(stack) + 1 /\ rootContexts' = rootContexts
      BY <1>1, <1>4, <1>5 DEF contexts
    <2>3. Looping
      BY DEF Inv
    <2> QED BY ZenonT(40), <1>1, <1>3, <1>5, <2>1, <2>2, <2>3 DEF Looping
  <1>12. Counted'
    <2>1. \A d \in Contexts : Deleting(d)' <=> Deleting(d)
      BY <1>1, <1>3, <1>5, <1>6 DEF Deleting, IsCall
    <2>2. \A i \in 2 .. Len(stack) + 1 : stack'[i] = stack[i - 1] /\ i - 1 \in 1 .. Len(stack)
      BY <1>1, <1>5
    <2>3. gone' = gone /\ Existing' = Existing /\ deletes' = deletes
      BY <1>4, SameContexts
    <2>4. Counted
      BY DEF Inv
    <2>5. (\A c \in Contexts : deletes[c] \in {0, 1})'
      BY <2>3, <2>4 DEF Counted
    <2>6. (\A c \in Contexts \ gone : deletes[c] = IF Deleting(c) THEN 1 ELSE 0)'
      BY <2>1, <2>3, <2>4 DEF Counted
    <2>7. (\A i \in DOMAIN stack : stack[i].op = "guest" => stack[i].ctx \in Existing)'
      <3> SUFFICES ASSUME NEW i \in DOMAIN stack', stack'[i].op = "guest"
                   PROVE  stack'[i].ctx \in Existing'
        OBVIOUS
      <3>1. stack'[1].op # "guest"
        BY <1>3, <1>5
      <3>2. i \in 2 .. Len(stack) + 1
        BY <1>1, <1>5, <3>1
      <3>3. stack'[i] = stack[i - 1] /\ i - 1 \in DOMAIN stack
        BY <1>1, <2>2, <3>2
      <3> QED BY <2>3, <2>4, <3>3 DEF Counted
    <2> QED BY <2>5, <2>6, <2>7 DEF Counted
  <1>13. Agreement'
    <2>1. /\ HasAnswered(1)' = FALSE /\ HasAnswered(2)' = HasAnswered(1)
          /\ Len(stack) = 2 => HasAnswered(3)' = HasAnswered(2)
      BY <1>1, <1>2, <1>3, <1>5, <1>6 DEF HasAnswered, BaseAt, IsCall
    <2>2. ASSUME NEW i \in DOMAIN stack', HasAnswered(i)' PROVE stack'[i].ctx \in agreed'
      <3>1. i # 1 /\ (i = 2 \/ (i = 3 /\ Len(stack) = 2))
        BY <1>5, <1>6, <2>1, <2>2
      <3>2. PICK j \in DOMAIN stack : HasAnswered(j) /\ stack'[i] = stack[j]
        BY <1>1, <1>6, <2>1, <2>2, <3>1
      <3> QED BY <1>4, <3>2 DEF Inv, Agreement
    <2> QED BY <1>1, <1>4, <2>2, SameContexts DEF Inv, Agreement, TypeOK
  <1> QED BY <1>8, <1>9, <1>10, <1>11, <1>12, <1>13 DEF Inv

(* When finishShutdown is between two contexts, the call after which it runs is under it. *)
LEMMA AtFinish ==
  ASSUME Inv, Running("finish"), Top.ctx = None
  PROVE  /\ TypeOK /\ Len(stack) \in 2 .. 3 /\ DOMAIN stack = 1 .. Len(stack) /\ stack # <<>> /\ Top = stack[1]
         /\ \A i \in 1 .. Len(stack) : stack[i] \in Frame
         /\ stack[1].op = "finish" /\ stack[1].ctx = None /\ BaseAt(2) /\ stack[2].op = "after"
         /\ Finishing /\ afterVmCall = 0
  <1>1. TypeOK /\ stack # <<>>
    BY DEF Inv, OwnedOnce, Running
  <1>2. /\ Len(stack) \in Nat /\ Len(stack) # 0 /\ DOMAIN stack = 1 .. Len(stack)
        /\ \A i \in 1 .. Len(stack) : stack[i] \in Frame
        /\ Top = stack[1] /\ stack[1].op = "finish" /\ stack[1].ctx = None
    BY <1>1, FramesTyped DEF Running
  <1>3. BaseAt(2) /\ stack[2].op = "after"
    BY <1>1, <1>2 DEF Inv, Nesting, BaseAt, IsCall
  <1>4. Len(stack) \in 2 .. 3
    BY <1>2, <1>3 DEF BaseAt
  <1>5. Finishing /\ afterVmCall = 0
    BY <1>1, <1>2 DEF Finishing, Inv, Scheduled
  <1> QED BY <1>1, <1>2, <1>3, <1>4, <1>5

LEMMA FinishEndsInv ==
  ASSUME Inv, FinishEnds
  PROVE  Inv'
  <1>1. /\ TypeOK /\ Len(stack) \in 2 .. 3 /\ DOMAIN stack = 1 .. Len(stack) /\ stack # <<>>
        /\ stack[1].op = "finish" /\ BaseAt(2) /\ stack[2].op = "after" /\ afterVmCall = 0
    BY AtFinish DEF FinishEnds
  <1>2. stack' = Below /\ pendingDelete = {} /\ UNCHANGED <<contexts, afterVmCall, failed, open, deletes, agreed>>
    BY DEF FinishEnds
  <1>3. /\ stack' \in Seq(Frame) /\ Len(stack') = Len(stack) - 1
        /\ \A i \in 1 .. Len(stack) - 1 : stack'[i] = stack[i + 1]
    BY <1>1, <1>2, Popped
  <1>4. /\ stack' # <<>> /\ DOMAIN stack' = 1 .. Len(stack) - 1
        /\ stack'[1] = stack[2] /\ (Len(stack) = 3 => stack'[2] = stack[3])
    <2>1. DOMAIN stack' = 1 .. Len(stack) - 1 /\ Len(stack') # 0
      BY <1>1, <1>3
    <2> QED BY <1>1, <1>3, <2>1
  <1>5. TypeOK'
    BY <1>1, <1>2, <1>3 DEF TypeOK, contexts
  <1>6. OwnedOnce' /\ Keyed'
    BY <1>2, <1>4, <1>5, SameContexts DEF Inv, OwnedOnce
  <1>7. BaseAt(1)'
    BY <1>1, <1>3, <1>4 DEF BaseAt
  <1>8. Nesting'
    BY <1>7 DEF Nesting, BaseAt
  <1>9. Scheduled'
    <2>1. ~Finishing'
      BY <1>1, <1>3, <1>4 DEF Finishing, BaseAt
    <2> QED BY <1>1, <1>2, <2>1 DEF Scheduled, contexts
  <1>10. \A i \in 1 .. Len(stack) - 1 : i + 1 \in 1 .. Len(stack)
    BY <1>1
  <1>11. Looping'
    BY SMTT(30), <1>1, <1>2, <1>3, <1>4, <1>10 DEF Inv, Looping, contexts
  <1>12. Counted'
    <2>1. \A d \in Contexts : Deleting(d)' <=> Deleting(d)
      BY <1>1, <1>3, <1>4 DEF Deleting, IsCall
    <2> QED BY <1>1, <1>2, <1>3, <1>4, <1>10, <2>1, SameContexts DEF Inv, Counted
  <1>13. Agreement'
    <2>1. \A i \in DOMAIN stack' : HasAnswered(i)' => HasAnswered(i + 1)
      BY <1>1, <1>3, <1>4 DEF HasAnswered, BaseAt, IsCall
    <2> QED BY <1>1, <1>2, <1>3, <1>4, <1>10, <2>1, SameContexts DEF Inv, Agreement, TypeOK
  <1> QED BY <1>6, <1>8, <1>9, <1>11, <1>12, <1>13 DEF Inv

LEMMA FinishNextInv ==
  ASSUME Inv, NEW c \in Contexts, FinishNext(c)
  PROVE  Inv'
  <1>1. /\ TypeOK /\ Len(stack) \in 2 .. 3 /\ DOMAIN stack = 1 .. Len(stack) /\ stack # <<>> /\ Top = stack[1]
        /\ \A i \in 1 .. Len(stack) : stack[i] \in Frame
        /\ stack[1].op = "finish" /\ stack[1].ctx = None /\ BaseAt(2) /\ stack[2].op = "after"
        /\ Finishing /\ afterVmCall = 0
    BY AtFinish DEF FinishNext
  <1>2. c \in pendingDelete /\ c \in Existing /\ c \notin gone /\ c # None
    BY NoneAssumption DEF FinishNext, Inv, OwnedOnce, Existing
  <1>3. pendingDelete = {c}
    BY <1>2 DEF Inv, Scheduled
  <1>4. UNCHANGED <<afterVmCall, failed, open, agreed>>
    BY DEF FinishNext
  <1>5. CASE failed
    <2>1. /\ pendingDelete' = {} /\ gone' = gone \cup {c}
          /\ UNCHANGED <<rootContexts, pendingDone, stack, deletes>>
      BY <1>3, <1>5 DEF FinishNext
    <2>2. /\ Values(rootContexts)' = Values(rootContexts) /\ Values(pendingDone)' = Values(pendingDone)
          /\ c \notin Values(rootContexts) /\ c \notin Values(pendingDone)
      BY <1>2, <2>1 DEF Values, Inv, OwnedOnce
    <2>3. Existing' = Existing \ {c}
      BY <1>3, <2>1, <2>2 DEF Existing
    <2>4. TypeOK'
      BY <1>1, <1>4, <2>1 DEF TypeOK
    <2>5. OwnedOnce'
      BY <1>1, <2>1, <2>2, <2>3, <2>4 DEF Inv, OwnedOnce
    <2>6. Nesting' /\ Keyed' /\ Looping'
      BY <2>1 DEF Inv, Nesting, BaseAt, Keyed, Looping
    <2>7. Scheduled'
      BY <1>1, <1>4, <2>1 DEF Scheduled, Finishing
    <2>8. Counted'
      <3>1. \A i \in 1 .. Len(stack) : stack[i].op # "guest"
        BY <1>1 DEF BaseAt
      <3> QED BY <1>1, <2>1, <3>1 DEF Inv, Counted, Deleting
    <2>9. Agreement'
      BY <1>4, <1>5, <2>1 DEF Inv, Agreement, HasAnswered
    <2> QED BY <2>5, <2>6, <2>7, <2>8, <2>9 DEF Inv
  <1>6. CASE ~failed
    <2> DEFINE f == GuestCall("on_delete", c)
               g == [stack[1] EXCEPT !.ctx = c]
    <2>1. /\ Replace(<<f, g>>) /\ deletes' = [deletes EXCEPT ![c] = @ + 1] /\ UNCHANGED contexts
      BY <1>1, <1>6 DEF FinishNext, CountDelete
    <2>2. /\ f \in Frame /\ f.op = "guest" /\ f.handler = "on_delete" /\ f.ctx = c
      BY DEF GuestCall, Frame, Handlers
    <2>3. /\ g \in Frame /\ g.op = "finish" /\ g.ctx = c
      BY <1>1 DEF Frame
    <2> HIDE DEF f, g
    <2>4. /\ stack' \in Seq(Frame) /\ Len(stack') = Len(stack) + 1 /\ stack' # <<>>
          /\ stack'[1] = f /\ stack'[2] = g
          /\ \A i \in 2 .. Len(stack) : stack'[i + 1] = stack[i]
          /\ DOMAIN stack' = 1 .. Len(stack) + 1
      BY <1>1, <2>1, <2>2, <2>3, ReplacedByTwo
    <2>5. stack'[3] = stack[2] /\ (Len(stack) = 3 => stack'[4] = stack[3])
      BY <1>1, <2>4
    <2>6. ~Deleting(c)
      <3> SUFFICES ASSUME Deleting(c)  PROVE FALSE
        OBVIOUS
      <3>1. stack[2].handler = "on_delete" /\ stack[2].ctx = c
        BY <1>1 DEF Deleting, BaseAt, IsCall
      <3>2. Len(stack) = 3 /\ stack[3].op = "shutdown" /\ stack[3].ctx = c
        BY <1>1, <3>1 DEF BaseAt
      <3>3. rootContexts[KeyOf[c]] = c
        BY <1>1, <1>2, <3>2 DEF Inv, Looping
      <3>4. c \in Values(rootContexts)
        BY <1>1, <1>2, <3>3, KeyOfAssumption, Contained
      <3> QED BY <1>2, <3>4 DEF Inv, OwnedOnce
    <2>7. deletes[c] = 0
      BY <1>2, <2>6 DEF Inv, Counted
    <2>8. TypeOK'
      BY <1>1, <1>4, <2>1, <2>4, <2>7 DEF TypeOK, contexts
    <2>9. OwnedOnce' /\ Keyed'
      BY <2>1, <2>4, <2>8, SameContexts DEF Inv, OwnedOnce
    <2>10. BaseAt(3)'
      BY <1>1, <2>4, <2>5 DEF BaseAt
    <2>11. Nesting'
      BY <1>1, <2>2, <2>3, <2>4, <2>5, <2>10 DEF Nesting, IsCall
    <2>12. Scheduled'
      BY <1>1, <1>3, <1>4, <2>1, <2>2, <2>3, <2>4 DEF Inv, Scheduled, Finishing, IsCall, contexts
    <2>13. Looping'
      BY SMTT(30), <1>1, <2>1, <2>2, <2>3, <2>4, <2>5 DEF Inv, Looping, contexts
    <2>14. Counted'
      <3>1. \A d \in Contexts : Deleting(d)' <=> d = c \/ Deleting(d)
        <4>1. \A d \in Contexts : Deleting(d) <=> stack[2].handler = "on_delete" /\ stack[2].ctx = d
          BY <1>1 DEF Deleting, BaseAt, IsCall
        <4>2. IsCall(stack'[1]) /\ IsCall(stack'[3]) /\ ~IsCall(stack'[2])
          BY <1>1, <2>2, <2>3, <2>4, <2>5 DEF IsCall
        <4>3. Len(stack) = 3 => ~IsCall(stack'[4])
          BY <1>1, <2>5 DEF BaseAt, IsCall
        <4>4. /\ 1 \in DOMAIN stack' /\ 3 \in DOMAIN stack'
              /\ \A i \in DOMAIN stack' : i \in {1, 2, 3} \/ (Len(stack) = 3 /\ i = 4)
          BY <1>1, <2>4
        <4> QED BY <2>2, <2>4, <2>5, <4>1, <4>2, <4>3, <4>4 DEF Deleting
      <3>2. (\A d \in Contexts \ {c} : deletes'[d] = deletes[d]) /\ deletes'[c] = 1
        BY <1>1, <2>1, <2>7 DEF TypeOK
      <3>3. gone' = gone /\ Existing' = Existing
        BY <2>1, SameContexts
      <3>4. \A i \in 2 .. Len(stack) + 1 : stack'[i].op # "guest"
        BY <1>1, <2>3, <2>4, <2>5 DEF BaseAt
      <3>5. \A i \in DOMAIN stack' : stack'[i].op = "guest" => stack'[i].ctx \in Existing'
        BY <1>1, <1>2, <2>2, <2>4, <3>3, <3>4
      <3>6. \A d \in Contexts : deletes'[d] \in {0, 1}
        BY <3>2 DEF Inv, Counted
      <3>7. \A d \in Contexts \ gone' : deletes'[d] = IF Deleting(d)' THEN 1 ELSE 0
        BY <3>1, <3>2, <3>3 DEF Inv, Counted
      <3> QED BY <3>5, <3>6, <3>7 DEF Counted
    <2>15. Agreement'
      <3>1. \A d \in gone : deletes'[d] = deletes[d]
        BY <1>1, <1>2, <2>1 DEF TypeOK
      <3>2. /\ ~HasAnswered(1)' /\ ~HasAnswered(2)'
            /\ \A i \in 2 .. Len(stack) : HasAnswered(i + 1)' => HasAnswered(i)
        BY SMTT(30), <1>1, <2>2, <2>3, <2>4, <2>5 DEF HasAnswered, BaseAt, IsCall
      <3>3. \A i \in DOMAIN stack' : HasAnswered(i)' => stack'[i].ctx \in agreed'
        <4> SUFFICES ASSUME NEW i \in DOMAIN stack', HasAnswered(i)'  PROVE stack'[i].ctx \in agreed'
          OBVIOUS
        <4>1. PICK j \in 2 .. Len(stack) : i = j + 1
          BY <1>1, <2>4, <3>2
        <4>2. HasAnswered(j) /\ j \in DOMAIN stack
          BY <1>1, <3>2, <4>1
        <4>3. stack'[i] = stack[j] /\ agreed' = agreed
          BY <1>4, <2>4, <4>1
        <4> QED BY <4>2, <4>3 DEF Inv, Agreement
      <3> QED BY <1>1, <1>4, <2>1, <3>1, <3>3, SameContexts DEF Inv, Agreement, TypeOK
    <2> QED BY <2>9, <2>11, <2>12, <2>13, <2>14, <2>15 DEF Inv
  <1> QED BY <1>5, <1>6

LEMMA FinishErasesInv ==
  ASSUME Inv, FinishErases
  PROVE  Inv'
  <1> DEFINE c == stack[1].ctx
             f == [stack[2] EXCEPT !.ctx = None]
  <1>1. /\ TypeOK /\ Len(stack) \in 3 .. 4 /\ DOMAIN stack = 1 .. Len(stack) /\ Top = stack[1] /\ stack # <<>>
        /\ \A i \in 1 .. Len(stack) : stack[i] \in Frame
        /\ Below[1] = stack[2] /\ c \in Contexts /\ stack[1].handler = "on_delete" /\ stack[1].op = "after"
        /\ stack[2].op = "finish" /\ BaseAt(3) /\ stack[3].op = "after" /\ Finishing
    <2>1. /\ TypeOK /\ Len(stack) \in 1 .. 4 /\ DOMAIN stack = 1 .. Len(stack) /\ Top = stack[1] /\ stack # <<>>
          /\ \A i \in 1 .. Len(stack) : stack[i] \in Frame
          /\ Len(stack) > 1 => Below # <<>> /\ Below[1] = stack[2]
          /\ Len(stack) < 2 => Below = <<>>
          /\ c \in Contexts /\ stack[1].op = "after"
          /\ BaseAt(1) \/ (Len(stack) > 2 /\ stack[1].handler = "on_delete" /\ BaseAt(3) /\ stack[3].op = "after")
          /\ BaseAt(1) <=> ~Finishing
      BY AtCall DEF FinishErases, Running, IsCall
    <2>2. Len(stack) > 1 /\ stack[2].op = "finish"
      BY <2>1 DEF FinishErases
    <2>3. ~BaseAt(1)
      BY <2>1, <2>2 DEF BaseAt
    <2> QED BY <2>1, <2>2, <2>3 DEF FinishErases
  <1>2. f \in Frame /\ f.op = "finish" /\ f.ctx = None
    BY <1>1 DEF Frame
  <1>3. /\ c \in pendingDelete /\ pendingDelete' = pendingDelete \ {c} /\ gone' = gone \cup {c}
        /\ stack' = <<f>> \o Tail(Below)
        /\ UNCHANGED <<rootContexts, pendingDone, afterVmCall, failed, open, deletes, agreed>>
    BY <1>1 DEF FinishErases
  <1>4. /\ c \in Existing /\ c \notin gone /\ pendingDelete = {c} /\ pendingDelete' = {} /\ afterVmCall = 0
        /\ c \notin Values(rootContexts) /\ c \notin Values(pendingDone)
    BY <1>1, <1>3 DEF Inv, Scheduled, OwnedOnce, Existing
  <1> HIDE DEF f
  <1>5. /\ stack' \in Seq(Frame) /\ Len(stack') = Len(stack) - 1 /\ stack' # <<>> /\ stack'[1] = f
        /\ \A i \in 2 .. Len(stack) - 1 : stack'[i] = stack[i + 1]
        /\ DOMAIN stack' = 1 .. Len(stack) - 1
    <2>1. /\ stack' \in Seq(Frame) /\ Len(stack') = Len(stack) - 1 /\ stack' # <<>> /\ stack'[1] = f
          /\ \A i \in 2 .. Len(stack) - 1 : stack'[i] = stack[i + 1]
      <3>1. Len(stack) > 1
        BY <1>1
      <3> QED BY <3>1, <1>1, <1>2, <1>3, PoppedTo
    <2>2. DOMAIN stack' = 1 .. Len(stack')
      BY <2>1
    <2> QED BY <2>1, <2>2
  <1>6. stack'[2] = stack[3] /\ (Len(stack) = 4 => stack'[3] = stack[4])
    BY <1>1, <1>5
  <1>20. \A i \in DOMAIN stack' : i = 1 \/ (i \in 2 .. Len(stack) - 1 /\ stack'[i] = stack[i + 1] /\ i + 1 \in DOMAIN stack)
    BY <1>1, <1>5
  <1>21. \A i \in DOMAIN stack : i < 3 \/ stack[i].op \in {"after", "shutdown"}
    BY <1>1 DEF BaseAt
  <1>7. Deleting(c) /\ deletes[c] = 1
    <2>1. Deleting(c)
      BY <1>1 DEF Deleting, IsCall
    <2> QED BY <1>1, <1>4, <2>1 DEF Inv, Counted
  <1>8. \A d \in Contexts \ {c} : Deleting(d)' <=> Deleting(d)
    BY SMTT(30), <1>1, <1>2, <1>5, <1>6 DEF Deleting, IsCall
  <1> HIDE DEF c
  <1>9. /\ Values(rootContexts)' = Values(rootContexts) /\ Values(pendingDone)' = Values(pendingDone)
    BY <1>3 DEF Values
  <1>10. Existing' = Existing \ {c}
    BY <1>4, <1>9 DEF Existing
  <1>11. TypeOK'
    BY <1>1, <1>3, <1>4, <1>5 DEF TypeOK
  <1>12. OwnedOnce'
    BY <1>3, <1>4, <1>5, <1>9, <1>10, <1>11 DEF Inv, OwnedOnce
  <1>13. BaseAt(2)'
    BY <1>1, <1>5, <1>6 DEF BaseAt
  <1>14. Nesting'
    BY <1>1, <1>2, <1>5, <1>6, <1>13 DEF Nesting
  <1>15. Keyed'
    BY <1>3 DEF Inv, Keyed
  <1>16. Scheduled'
    BY <1>2, <1>3, <1>4, <1>5 DEF Scheduled, Finishing
  <1>17. Looping'
    BY ZenonT(40), <1>1, <1>2, <1>3, <1>5, <1>6, <1>20 DEF Inv, Looping
  <1>18. Counted'
    <2>1. ASSUME NEW i \in DOMAIN stack' PROVE stack'[i].op # "guest"
      <3>1. CASE i = 1
        BY <1>2, <1>5, <3>1
      <3>2. CASE i # 1
        <4>1. stack'[i] = stack[i + 1] /\ i + 1 \in DOMAIN stack /\ ~(i + 1 < 3)
          BY <1>1, <1>20, <3>2
        <4>2. stack[i + 1].op \in {"after", "shutdown"}
          BY <1>21, <4>1
        <4> QED BY <4>1, <4>2
      <3> QED BY <3>1, <3>2
    <2> QED BY <1>3, <1>4, <1>8, <2>1 DEF Inv, Counted
  <1>19. Agreement'
    <2>1. \A d \in Contexts : Others(d)' = Others(d)
      BY <1>3, <1>4, <1>10 DEF Others
    <2>2. /\ ~HasAnswered(1)'
          /\ \A i \in 2 .. Len(stack) - 1 : HasAnswered(i)' => HasAnswered(i + 1)
      BY SMTT(30), <1>1, <1>2, <1>5, <1>6 DEF HasAnswered, BaseAt, IsCall
    <2>3. \A i \in DOMAIN stack' : HasAnswered(i)' => stack'[i].ctx \in agreed'
      BY <1>1, <1>3, <1>5, <1>20, <2>2 DEF Inv, Agreement
    <2> QED BY <1>3, <1>4, <1>7, <2>1, <2>3 DEF Inv, Agreement, TypeOK, OwnedOnce
  <1> QED BY <1>12, <1>14, <1>15, <1>16, <1>17, <1>18, <1>19 DEF Inv

-----------------------------------------------------------------------------
LEMMA InitInv ==
  Init => Inv
  <1> SUFFICES ASSUME Init  PROVE Inv
    OBVIOUS
  <1>1. stack = <<>> /\ DOMAIN stack = {} /\ stack \in Seq(Frame)
    BY DEF Init
  <1>2. /\ Values(rootContexts) = {} /\ Values(pendingDone) = {} /\ Existing = {} /\ gone = {}
        /\ pendingDelete = {} /\ afterVmCall = 0
    BY DEF Init, Values, Existing
  <1>3. TypeOK
    <2>1. afterVmCall \in 0 .. Cardinality(Contexts)
      BY <1>2, ScheduledBound
    <2>2. deletes \in [Contexts -> 0 .. 2]
      BY DEF Init
    <2>3. /\ rootContexts \in [Keys -> Contexts \cup {None}] /\ pendingDone \in [Keys -> Contexts \cup {None}]
          /\ pendingDelete \in SUBSET Contexts /\ gone \in SUBSET Contexts /\ agreed \in SUBSET Contexts
          /\ failed \in BOOLEAN /\ open \in BOOLEAN
      BY DEF Init
    <2> QED BY <1>1, <2>1, <2>2, <2>3 DEF TypeOK
  <1>4. OwnedOnce
    BY <1>1, <1>2, <1>3 DEF OwnedOnce
  <1>5. Nesting /\ Looping /\ Keyed
    BY <1>1 DEF Init, Nesting, Looping, Keyed
  <1>6. Scheduled
    BY <1>1, <1>2 DEF Scheduled, Finishing
  <1>7. Counted
    BY <1>1 DEF Init, Counted, Deleting
  <1>8. Agreement
    BY <1>1, <1>2 DEF Agreement
  <1> QED BY <1>4, <1>5, <1>6, <1>7, <1>8 DEF Inv

LEMMA NextInv ==
  ASSUME ~Impersonates, Inv, [Next]_vars
  PROVE  Inv'
  <1>1. CASE \E c \in Contexts : Start(c) \/ CallContext(c)
    BY <1>1, StartInv, CallContextInv
  <1>2. CASE \E k \in Keys : ReleasePlugin(k)
    <2> PICK k \in Keys : ReleasePlugin(k)
      BY <1>2
    <2>1. \A j \in {k} : rootContexts[j] # None
      BY DEF ReleasePlugin
    <2> QED BY <2>1, ShutdownBegins DEF ReleasePlugin, Idle, Inv, OwnedOnce, TypeOK
  <1>3. CASE ReleaseWasm
    <2> DEFINE keys == {k \in Keys : rootContexts[k] # None}
    <2>1. /\ stack = <<>> /\ Push([op |-> "shutdown", ctx |-> None, keys |-> keys])
          /\ open' = FALSE /\ UNCHANGED <<contexts, afterVmCall, failed, deletes, agreed>>
      BY <1>3 DEF ReleaseWasm, Idle
    <2>2. keys \in SUBSET Keys /\ \A k \in keys : rootContexts[k] # None
      OBVIOUS
    <2> HIDE DEF keys
    <2> QED BY <2>1, <2>2, ShutdownBegins
  <1>4. CASE GuestCallsDone
    BY <1>4, GuestCallsDoneInv
  <1>5. CASE \E k \in Keys : ShutdownNext(k)
    BY <1>5, ShutdownNextInv
  <1>6. CASE ShutdownAnswered
    BY <1>6, ShutdownAnsweredInv
  <1>7. CASE ShutdownEnds
    BY <1>7, ShutdownEndsInv
  <1>8. CASE \E answer, trap \in BOOLEAN : GuestReturns(answer, trap)
    BY <1>8, GuestReturnsInv
  <1>9. CASE RunAction
    BY <1>9, RunActionInv
  <1>10. CASE CallEnds
    BY <1>10, CallEndsInv
  <1>11. CASE \E c \in Contexts : FinishNext(c)
    BY <1>11, FinishNextInv
  <1>12. CASE FinishErases
    BY <1>12, FinishErasesInv
  <1>13. CASE FinishEnds
    BY <1>13, FinishEndsInv
  <1>14. CASE Destroy
    BY <1>14, DestroyInv
  <1>15. CASE UNCHANGED vars
    <2>1. /\ UNCHANGED contexts /\ UNCHANGED <<afterVmCall, failed, open, stack, deletes, agreed>>
      BY <1>15 DEF vars, contexts
    <2>2. \A i : HasAnswered(i)' <=> HasAnswered(i)
      BY <2>1 DEF HasAnswered
    <2>3. TypeOK'
      BY <2>1 DEF Inv, OwnedOnce, TypeOK, contexts
    <2>4. OwnedOnce' /\ Keyed'
      BY <2>1, <2>3, SameContexts DEF Inv, OwnedOnce
    <2>5. Nesting' /\ Scheduled' /\ Looping'
      BY <2>1 DEF Inv, Nesting, BaseAt, Scheduled, Finishing, Looping, contexts
    <2>6. Counted'
      BY <2>1, SameContexts DEF Inv, Counted, Deleting
    <2>7. Agreement'
      BY <2>1, <2>2, <2>3, SameContexts DEF Inv, Agreement, TypeOK
    <2> QED BY <2>4, <2>5, <2>6, <2>7 DEF Inv
  <1> QED BY <1>1, <1>2, <1>3, <1>4, <1>5, <1>6, <1>7, <1>8, <1>9, <1>10, <1>11, <1>12, <1>13,
             <1>14, <1>15 DEF Next, Host, Proceed

LEMMA Invariant ==
  ASSUME ~Impersonates
  PROVE  Spec => []Inv
  BY InitInv, NextInv, PTL DEF Spec

LEMMA LastCall ==
  Inv => OnDeleteIsLast
  <1> SUFFICES ASSUME Inv  PROVE OnDeleteIsLast
    OBVIOUS
  <1>1. TypeOK /\ DOMAIN stack = 1 .. Len(stack) /\ \A i \in 1 .. Len(stack) : stack[i] \in Frame
    BY FramesTyped DEF Inv, OwnedOnce
  <1>2. ASSUME NEW i \in DOMAIN stack, stack[i].op = "guest"
        PROVE  deletes[stack[i].ctx] = IF stack[i].handler = "on_delete" THEN 1 ELSE 0
    <2>1. i = 1 /\ stack # <<>> /\ IsCall(stack[1])
      BY <1>1, <1>2 DEF Inv, Nesting, BaseAt, IsCall
    <2>2. Deleting(stack[1].ctx) <=> stack[1].handler = "on_delete"
      <3>1. stack[1].handler = "on_delete" => Deleting(stack[1].ctx)
        BY <1>1, <1>2, <2>1 DEF Deleting
      <3>2. ASSUME stack[1].handler # "on_delete"  PROVE ~Deleting(stack[1].ctx)
        BY <1>1, <2>1, <3>2 DEF Inv, Nesting, BaseAt, Deleting, IsCall
      <3> QED BY <3>1, <3>2
    <2>3. stack[1].ctx \in Contexts \ gone
      BY <1>1, <1>2, <2>1, Contained DEF Inv, Counted, OwnedOnce
    <2> QED BY <1>2, <2>1, <2>2, <2>3 DEF Inv, Counted
  <1>3. open /\ ~failed => \A c \in gone : Others(c) = {} => c \in agreed /\ deletes[c] = 1
    BY DEF Inv, Agreement
  <1> QED BY <1>2, <1>3 DEF OnDeleteIsLast, Others

LEMMA IteratorsAreValid ==
  Inv => IteratorsStayValid
  <1> SUFFICES ASSUME Inv, NEW i \in DOMAIN stack
               PROVE  /\ stack[i].op = "finish" /\ stack[i].ctx # None => stack[i].ctx \in pendingDelete
                      /\ stack[i].op = "shutdown" /\ stack[i].ctx # None
                            => rootContexts[KeyOf[stack[i].ctx]] = stack[i].ctx
    BY DEF IteratorsStayValid
  <1>1. TypeOK /\ DOMAIN stack = 1 .. Len(stack)
    BY FramesTyped DEF Inv, OwnedOnce
  <1>2. stack[i].op = "shutdown" /\ stack[i].ctx # None => rootContexts[KeyOf[stack[i].ctx]] = stack[i].ctx
    BY DEF Inv, Looping
  <1>3. ASSUME stack[i].op = "finish", stack[i].ctx # None  PROVE stack[i].ctx \in pendingDelete
    <2>1. /\ Len(stack) > 1 /\ stack # <<>> /\ i = 2 /\ stack[1].op # "finish" /\ stack[2].op = "finish"
          /\ stack[2].ctx = stack[1].ctx
      BY <1>1, <1>3 DEF Inv, Nesting, BaseAt, IsCall
    <2>2. Finishing /\ stack[1].op # "finish"
      BY <2>1 DEF Finishing
    <2> QED BY <2>1, <2>2 DEF Inv, Scheduled
  <1> QED BY <1>2, <1>3

(* A unique_ptr owns each root context: it is in one of the three containers of the   *)
(* VM or has been destroyed, and when no call is going on no shutdown handle is left   *)
(* in after_vm_call_actions_ that would keep the VM alive.                          *)
THEOREM RootContextsOwnedOnce ==
  ASSUME ~Impersonates
  PROVE  Spec => []OwnedOnce
  <1>1. Inv => OwnedOnce
    BY DEF Inv
  <1> QED BY <1>1, Invariant, PTL

(* startShutdown and finishShutdown call the guest from inside their loops, and what   *)
(* the guest causes never takes the element that the loop is at out of its container.  *)
THEOREM LoopsKeepTheirElement ==
  ASSUME ~Impersonates
  PROVE  Spec => []IteratorsStayValid
  BY Invariant, IteratorsAreValid, PTL

(* on_delete is the last call that the guest gets for a root context and it gets one   *)
(* at most; while the VM works, the end of a context that was the only one of its      *)
(* plugin was agreed to by the guest, and told to it.                               *)
THEOREM OnDeleteLast ==
  ASSUME ~Impersonates
  PROVE  Spec => []OnDeleteIsLast
  BY Invariant, LastCall, PTL

=============================================================================
