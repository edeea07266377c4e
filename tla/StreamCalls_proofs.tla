-------------------------- MODULE StreamCalls_proofs --------------------------
(***************************************************************************)
(* Proofs about StreamCalls.tla, for any streams, handlers, fail-open plugins      *)
(* and nesting: a local response stops its stream, the flag that says so is owed     *)
(* by a handler that runs, and a stream that met a failed VM is closed or goes on.   *)
(***************************************************************************)
EXTENDS StreamCalls, TLAPS

(* What is known of a handler that is about to return, or has returned. *)
Decided(f) ==
    /\ f.kind = "headers" => f.value # 1
    /\ f.replied /\ f.kind \in {"headers", "data", "trailers"} =>
          \/ f.value = Stopped[f.kind]
          \/ f.broken /\ f.ctx \in FailOpen
    /\ f.broken /\ f.kind # "void" => f.value = FailedStatus(f.ctx, f.kind)
Closed(f, closed) == f.broken /\ f.kind # "void" => f.ctx \in FailOpen \cup closed

(* A handler in the guest that has sent a local response finds the flag up: handlers that    *)
(* ran meanwhile took it down, but it was raised after them.  All callers are in the host.  *)
Nesting == \A i \in 2 .. Len(stack) : stack[i].at = "host"
FlagIsUp == stack # <<>> /\ stack[1].at = "guest" /\ stack[1].replied => stop
Decisions == \A i \in DOMAIN stack : stack[i].at = "return" => Decided(stack[i]) /\ Closed(stack[i], streamFailed)
ClosedOnce ==
    /\ streamFailed \cap FailOpen = {}
    /\ \A s \in Streams : closes[s] = IF s \in streamFailed THEN 1 ELSE 0

IInv ==
    /\ TypeOK /\ StopIsOwed
    /\ Nesting /\ FlagIsUp /\ Decisions /\ ClosedOnce
    /\ Decided(last) /\ Closed(last, streamFailed)

-----------------------------------------------------------------------------
(* The stack, innermost first. *)
LEMMA Pushed ==
  ASSUME NEW S, NEW s \in Seq(S), NEW x \in S
  PROVE  /\ <<x>> \o s \in Seq(S) /\ Len(<<x>> \o s) = Len(s) + 1
         /\ (<<x>> \o s)[1] = x
         /\ \A i \in 2 .. Len(s) + 1 : (<<x>> \o s)[i] = s[i - 1]
  OBVIOUS

LEMMA Popped ==
  ASSUME NEW S, NEW s \in Seq(S), s # <<>>
  PROVE  /\ Tail(s) \in Seq(S) /\ Len(Tail(s)) = Len(s) - 1 /\ Len(s) \in Nat \ {0}
         /\ Head(s) = s[1] /\ s[1] \in S
         /\ \A i \in 1 .. Len(s) - 1 : Tail(s)[i] = s[i + 1]
  OBVIOUS

LEMMA Replaced ==
  ASSUME NEW S, NEW s \in Seq(S), s # <<>>, NEW x \in S
  PROVE  /\ <<x>> \o Tail(s) \in Seq(S) /\ Len(<<x>> \o Tail(s)) = Len(s) /\ <<x>> \o Tail(s) # <<>>
         /\ (<<x>> \o Tail(s))[1] = x
         /\ \A i \in 2 .. Len(s) : (<<x>> \o Tail(s))[i] = s[i]
  <1>1. /\ Tail(s) \in Seq(S) /\ Len(Tail(s)) = Len(s) - 1 /\ Len(s) \in Nat \ {0}
        /\ \A i \in 1 .. Len(s) - 1 : Tail(s)[i] = s[i + 1]
    BY Popped
  <1> DEFINE r == Tail(s)
             t == <<x>> \o r
  <1> HIDE DEF r
  <1>2. /\ t \in Seq(S) /\ Len(t) = Len(r) + 1 /\ t[1] = x
        /\ \A i \in 2 .. Len(r) + 1 : t[i] = r[i - 1]
    BY <1>1, Pushed DEF r
  <1> HIDE DEF t
  <1>3. \A i \in 2 .. Len(s) : t[i] = s[i]
    BY <1>1, <1>2 DEF r
  <1> QED BY <1>1, <1>2, <1>3 DEF t, r

-----------------------------------------------------------------------------
LEMMA InitInv == Init => IInv
  <1> SUFFICES ASSUME Init PROVE IInv
    OBVIOUS
  <1>1. TypeOK
    <2>1. /\ failed = FALSE /\ stop = FALSE /\ streamFailed = {} /\ stack = <<>> /\ last = NoCall
          /\ closes = [s \in Streams |-> 0]
      BY DEF Init
    <2>2. /\ stack \in Seq(Frame) /\ Len(stack) <= MaxDepth
          /\ \A i \in DOMAIN stack : stack[i].value <= Largest[stack[i].kind]
      BY <2>1, MaxDepthAssumption
    <2>3. closes \in [Streams -> 0..2] /\ streamFailed \in SUBSET Streams
      BY <2>1
    <2>4. failed \in BOOLEAN /\ stop \in BOOLEAN /\ last \in Frame \cup {NoCall}
      BY <2>1
    <2> QED BY <2>2, <2>3, <2>4 DEF TypeOK
  <1>2. StopIsOwed /\ Nesting /\ FlagIsUp /\ Decisions /\ ClosedOnce
    BY <1>1 DEF Init, StopIsOwed, Nesting, FlagIsUp, Decisions, ClosedOnce
  <1>3. last.kind = "void" /\ last.replied = FALSE
    BY DEF Init, NoCall
  <1>4. Decided(last) /\ Closed(last, streamFailed)
    BY <1>3 DEF Decided, Closed
  <1> QED BY <1>1, <1>2, <1>4 DEF IInv

(* failStream closes a stream once. *)
LEMMA FailStreamKeeps ==
  ASSUME TypeOK, ClosedOnce, NEW s \in Streams, FailStream(s)
  PROVE  /\ streamFailed' \in SUBSET Streams /\ closes' \in [Streams -> 0..2] /\ ClosedOnce'
         /\ streamFailed \subseteq streamFailed' /\ s \in FailOpen \cup streamFailed'
  <1>1. CASE s \in FailOpen \cup streamFailed
    <2>1. UNCHANGED <<streamFailed, closes>>
      BY <1>1 DEF FailStream
    <2> QED BY <1>1, <2>1 DEF TypeOK, ClosedOnce
  <1>2. CASE s \notin FailOpen \cup streamFailed
    <2>1. closes' = [closes EXCEPT ![s] = @ + 1] /\ streamFailed' = streamFailed \cup {s}
      BY <1>2 DEF FailStream
    <2>2. closes[s] = 0 /\ closes \in [Streams -> 0..2]
      BY <1>2 DEF ClosedOnce, TypeOK
    <2>3. closes' \in [Streams -> 0..2] /\ streamFailed' \in SUBSET Streams
      BY <2>1, <2>2 DEF TypeOK
    <2>4. ClosedOnce'
      BY <1>2, <2>1, <2>2 DEF ClosedOnce
    <2> QED BY <2>1, <2>3, <2>4
  <1> QED BY <1>1, <1>2

LEMMA FailedStatusIs ==
  ASSUME NEW s \in Streams, NEW kind \in Kinds
  PROVE  /\ FailedStatus(s, kind) \in 0 .. Largest[kind] /\ Largest[kind] \in 0..4
         /\ s \in FailOpen => FailedStatus(s, kind) = 0
         /\ s \notin FailOpen => FailedStatus(s, kind) = Stopped[kind]
         /\ kind = "headers" => FailedStatus(s, kind) # 1
  BY DEF FailedStatus, Stopped, Largest, Kinds

LEMMA ConvertIs ==
  ASSUME NEW kind \in Kinds, NEW answer \in Answers, stop \in BOOLEAN
  PROVE  /\ Convert(kind, answer) \in 0 .. Largest[kind]
         /\ kind = "headers" => Convert(kind, answer) # 1
         /\ stop /\ kind \in {"headers", "data", "trailers"} => Convert(kind, answer) = Stopped[kind]
  <1>1. CASE kind = "headers"
    BY <1>1 DEF Convert, Stopped, Largest, Answers
  <1>2. CASE kind = "data"
    BY <1>2 DEF Convert, Stopped, Largest, Answers
  <1>3. CASE kind = "trailers"
    BY <1>3 DEF Convert, Stopped, Largest, Answers
  <1>4. CASE kind = "network"
    BY <1>4 DEF Convert, Stopped, Largest, Answers
  <1>5. CASE kind \in {"metadata", "void"}
    BY <1>5 DEF Convert, Stopped, Largest, Answers
  <1> QED BY <1>1, <1>2, <1>3, <1>4, <1>5 DEF Kinds

-----------------------------------------------------------------------------
LEMMA CallStep == ASSUME IInv, NEW s \in Streams, NEW kind \in Kinds, Call(s, kind) PROVE IInv'
  <1> DEFINE f == Called(s, kind)
  <1>1. /\ MayCall(s, kind) /\ Len(stack) < MaxDepth /\ stack' = <<f>> \o stack
        /\ UNCHANGED <<failed, stop, streamFailed, closes, last>>
    BY DEF Call
  <1>2. f \in Frame /\ f.at = "guest" /\ f.replied = FALSE /\ f.value = 0
    BY DEF Called, Frame, Answers
  <1> HIDE DEF f
  <1>3. stack \in Seq(Frame)
    BY DEF IInv, TypeOK
  <1>4. /\ stack' \in Seq(Frame) /\ Len(stack') = Len(stack) + 1 /\ stack'[1] = f
        /\ \A i \in 2 .. Len(stack) + 1 : stack'[i] = stack[i - 1]
        /\ Len(stack) \in Nat
    BY <1>1, <1>2, <1>3, Pushed
  <1>5. Len(stack') <= MaxDepth
    BY <1>1, <1>4, MaxDepthAssumption
  <1>6. \A i \in DOMAIN stack' : stack'[i].value <= Largest[stack'[i].kind]
    <2>1. f.value <= Largest[f.kind]
      BY <1>2 DEF Frame, Largest, Kinds
    <2>2. \A i \in DOMAIN stack : stack[i].value <= Largest[stack[i].kind]
      BY DEF IInv, TypeOK
    <2> QED BY <1>3, <1>4, <2>1, <2>2
  <1>7. TypeOK'
    BY <1>1, <1>4, <1>5, <1>6 DEF IInv, TypeOK
  <1>8. StopIsOwed'
    <2> SUFFICES ASSUME stop' PROVE \E i \in DOMAIN stack' : stack'[i].replied
      BY <1>7 DEF StopIsOwed
    <2>1. PICK i \in DOMAIN stack : stack[i].replied
      BY <1>1 DEF IInv, StopIsOwed
    <2>2. i + 1 \in DOMAIN stack' /\ stack'[i + 1] = stack[i]
      BY <1>3, <1>4
    <2> QED BY <2>1, <2>2
  <1>9. Nesting'
    <2> SUFFICES ASSUME NEW i \in 2 .. Len(stack') PROVE stack'[i].at = "host"
      BY DEF Nesting
    <2>1. stack'[i] = stack[i - 1] /\ i - 1 \in 1 .. Len(stack)
      BY <1>4
    <2>2. CASE i = 2
      <3>1. stack # <<>> /\ Head(stack).at = "host"
        BY <1>1, <1>4, <2>1, <2>2 DEF MayCall, In, Top
      <3> QED BY <1>3, <2>1, <2>2, <3>1
    <2>3. CASE i # 2
      <3>1. i - 1 \in 2 .. Len(stack)
        BY <2>1, <2>3
      <3> QED BY <2>1, <3>1 DEF IInv, Nesting
    <2> QED BY <2>2, <2>3
  <1>10. FlagIsUp'
    BY <1>2, <1>4 DEF FlagIsUp
  <1>11. Decisions'
    <2> SUFFICES ASSUME NEW i \in DOMAIN stack', stack'[i].at = "return"
                 PROVE  Decided(stack'[i]) /\ Closed(stack'[i], streamFailed')
      BY DEF Decisions
    <2>1. i - 1 \in DOMAIN stack /\ stack'[i] = stack[i - 1]
      BY <1>2, <1>3, <1>4
    <2> QED BY <1>1, <2>1 DEF IInv, Decisions, Closed
  <1>12. ClosedOnce' /\ Decided(last)' /\ Closed(last, streamFailed)'
    BY <1>1 DEF IInv, ClosedOnce, Closed, Decided
  <1> QED BY <1>7, <1>8, <1>9, <1>10, <1>11, <1>12 DEF IInv

LEMMA CallOnFailedVmStep ==
  ASSUME IInv, NEW s \in Streams, NEW kind \in Kinds, CallOnFailedVm(s, kind)
  PROVE  IInv'
  <1> DEFINE f == Returning(Called(s, kind), TRUE, FailedStatus(s, kind))
  <1>1. last' = f /\ UNCHANGED <<failed, stop, stack>>
        /\ (kind = "void" => UNCHANGED <<streamFailed, closes>>)
        /\ (kind # "void" => FailStream(s))
    BY DEF CallOnFailedVm
  <1>2. f = [ctx |-> s, kind |-> kind, at |-> "return", replied |-> FALSE, broken |-> TRUE,
             value |-> FailedStatus(s, kind)]
    BY DEF Called, Returning
  <1>3. /\ f \in Frame /\ f.ctx = s /\ f.kind = kind /\ f.replied = FALSE /\ f.broken = TRUE
        /\ f.value = FailedStatus(s, kind)
    <2>1. FailedStatus(s, kind) \in Answers
      BY FailedStatusIs DEF Answers
    <2> HIDE DEF f
    <2> QED BY <1>2, <2>1 DEF Frame
  <1> HIDE DEF f
  <1>4. /\ streamFailed' \in SUBSET Streams /\ closes' \in [Streams -> 0..2] /\ ClosedOnce'
        /\ streamFailed \subseteq streamFailed'
        /\ kind # "void" => s \in FailOpen \cup streamFailed'
    BY <1>1, FailStreamKeeps DEF IInv, TypeOK, ClosedOnce
  <1>5. TypeOK' /\ StopIsOwed' /\ Nesting' /\ FlagIsUp'
    BY <1>1, <1>3, <1>4 DEF IInv, TypeOK, StopIsOwed, Nesting, FlagIsUp
  <1>6. Decisions'
    BY <1>1, <1>4 DEF IInv, Decisions, Closed
  <1>7. Decided(last)' /\ Closed(last, streamFailed)'
    BY <1>1, <1>3, <1>4, FailedStatusIs DEF Decided, Closed
  <1> QED BY <1>4, <1>5, <1>6, <1>7 DEF IInv

(* The innermost handler goes on. *)
LEMMA TopStep ==
  ASSUME IInv, stack # <<>>, NEW f \in Frame, f.value <= Largest[f.kind],
         stack' = <<f>> \o Tail(stack), failed' \in BOOLEAN, stop' \in BOOLEAN, last' = last,
         streamFailed' \in SUBSET Streams, closes' \in [Streams -> 0..2], ClosedOnce',
         streamFailed \subseteq streamFailed',
         f.at = "guest" /\ f.replied => stop',
         f.at = "return" => Decided(f) /\ Closed(f, streamFailed'),
         stop' => f.replied \/ (stop /\ (stack[1].replied => f.replied))
  PROVE  IInv'
  <1>1. stack \in Seq(Frame)
    BY DEF IInv, TypeOK
  <1>2. /\ stack' \in Seq(Frame) /\ Len(stack') = Len(stack) /\ stack' # <<>> /\ stack'[1] = f
        /\ \A i \in 2 .. Len(stack) : stack'[i] = stack[i]
        /\ Len(stack) \in Nat \ {0}
    BY <1>1, Replaced, Popped
  <1>3. TypeOK'
    <2>1. \A i \in DOMAIN stack : stack[i].value <= Largest[stack[i].kind]
      BY DEF IInv, TypeOK
    <2>2. \A i \in DOMAIN stack' : stack'[i].value <= Largest[stack'[i].kind]
      BY <1>1, <1>2, <2>1
    <2>3. Len(stack') <= MaxDepth /\ last' \in Frame \cup {NoCall}
      BY <1>2 DEF IInv, TypeOK
    <2> QED BY <1>2, <2>2, <2>3 DEF TypeOK
  <1>4. StopIsOwed'
    <2> SUFFICES ASSUME stop' PROVE \E i \in DOMAIN stack' : stack'[i].replied
      BY <1>3 DEF StopIsOwed
    <2>1. CASE f.replied
      BY <1>2, <2>1
    <2>2. CASE stop /\ ~stack[1].replied
      <3>1. PICK i \in DOMAIN stack : stack[i].replied
        BY <2>2 DEF IInv, StopIsOwed
      <3>2. i \in DOMAIN stack' /\ stack'[i] = stack[i]
        BY <1>1, <1>2, <2>2, <3>1
      <3> QED BY <3>1, <3>2
    <2> QED BY <2>1, <2>2
  <1>5. Nesting' /\ FlagIsUp'
    BY <1>2 DEF IInv, Nesting, FlagIsUp
  <1>6. Decisions'
    <2> SUFFICES ASSUME NEW i \in DOMAIN stack', stack'[i].at = "return"
                 PROVE  Decided(stack'[i]) /\ Closed(stack'[i], streamFailed')
      BY DEF Decisions
    <2>1. CASE i = 1
      BY <1>2, <2>1
    <2>2. CASE i # 1
      BY <1>1, <1>2, <2>2 DEF IInv, Decisions, Closed
    <2> QED BY <2>1, <2>2
  <1>7. Decided(last)' /\ Closed(last, streamFailed)'
    BY DEF IInv, Decided, Closed
  <1> QED BY <1>3, <1>4, <1>5, <1>6, <1>7 DEF IInv

LEMMA TopIs ==
  ASSUME IInv, stack # <<>>
  PROVE  /\ Top \in Frame /\ Top = stack[1] /\ Top.ctx \in Streams /\ Top.kind \in Kinds
         /\ Top.value <= Largest[Top.kind] /\ Top.replied \in BOOLEAN
         /\ Len(stack) \in Nat \ {0}
  <1>1. stack \in Seq(Frame)
    BY DEF IInv, TypeOK
  <1>2. Top = stack[1] /\ stack[1] \in Frame /\ Len(stack) \in Nat \ {0}
    BY <1>1, Popped DEF Top
  <1>3. stack[1].value <= Largest[stack[1].kind]
    BY <1>1, <1>2 DEF IInv, TypeOK
  <1> QED BY <1>2, <1>3 DEF Frame

LEMMA SendLocalResponseStep == ASSUME IInv, SendLocalResponse PROVE IInv'
  <1> DEFINE f == [Top EXCEPT !.at = "host"]
  <1>1. /\ stack # <<>> /\ stack' = <<f>> \o Tail(stack) /\ stop' = stop
        /\ UNCHANGED <<failed, streamFailed, closes, last>>
    BY DEF SendLocalResponse, StopAt, In
  <1>2. /\ f \in Frame /\ f.at = "host" /\ f.replied = Top.replied /\ f.value <= Largest[f.kind]
    BY <1>1, TopIs DEF Frame
  <1> HIDE DEF f
  <1>3. /\ failed' \in BOOLEAN /\ stop' \in BOOLEAN /\ streamFailed' \in SUBSET Streams
        /\ closes' \in [Streams -> 0..2] /\ ClosedOnce' /\ last' = last /\ streamFailed \subseteq streamFailed'
    BY <1>1 DEF IInv, TypeOK, ClosedOnce
  <1>4. stop' => f.replied \/ (stop /\ (stack[1].replied => f.replied))
    BY <1>1, <1>2, TopIs
  <1> QED BY <1>1, <1>2, <1>3, <1>4, TopStep

LEMMA LocalResponseSentStep == ASSUME IInv, LocalResponseSent PROVE IInv'
  <1> DEFINE f == Replied(Top)
  <1>1. /\ stack # <<>> /\ stack' = <<f>> \o Tail(stack) /\ stop' = TRUE
        /\ UNCHANGED <<failed, streamFailed, closes, last>>
    BY DEF LocalResponseSent, StopAt, In
  <1>2. /\ f \in Frame /\ f.at = "guest" /\ f.replied = TRUE /\ f.value <= Largest[f.kind]
    BY <1>1, TopIs DEF Frame, Replied
  <1> HIDE DEF f
  <1>3. /\ failed' \in BOOLEAN /\ stop' \in BOOLEAN /\ streamFailed' \in SUBSET Streams
        /\ closes' \in [Streams -> 0..2] /\ ClosedOnce' /\ last' = last /\ streamFailed \subseteq streamFailed'
    BY <1>1 DEF IInv, TypeOK, ClosedOnce
  <1> QED BY <1>1, <1>2, <1>3, TopStep

LEMMA GuestReturnsStep ==
  ASSUME IInv, NEW answer \in Answers, NEW trap \in BOOLEAN, GuestReturns(answer, trap)
  PROVE  IInv'
  <1> DEFINE status == IF failed' THEN FailedStatus(Top.ctx, Top.kind) ELSE Convert(Top.kind, answer)
             f == Returning(Top, failed', status)
  <1>1. /\ stack # <<>> /\ Top.at = "guest" /\ failed' = (failed \/ trap)
        /\ stack' = <<f>> \o Tail(stack) /\ UNCHANGED <<stop, last>>
    BY DEF GuestReturns, In
  <1>2. /\ (failed' /\ Top.kind # "void" => FailStream(Top.ctx))
        /\ (~(failed' /\ Top.kind # "void") => UNCHANGED <<streamFailed, closes>>)
    BY DEF GuestReturns
  <1>3. failed' \in BOOLEAN /\ stop \in BOOLEAN
    BY <1>1 DEF IInv, TypeOK
  <1>4. /\ status \in 0 .. Largest[Top.kind] /\ Largest[Top.kind] \in 0..4
        /\ Top.kind = "headers" => status # 1
        /\ failed' => status = FailedStatus(Top.ctx, Top.kind)
        /\ ~failed' /\ stop /\ Top.kind \in {"headers", "data", "trailers"} => status = Stopped[Top.kind]
    <2>1. Top.ctx \in Streams /\ Top.kind \in Kinds
      BY <1>1, TopIs
    <2>2. CASE failed'
      BY <2>1, <2>2, FailedStatusIs
    <2>3. CASE ~failed'
      BY <1>3, <2>1, <2>3, ConvertIs, FailedStatusIs
    <2> QED BY <2>2, <2>3
  <1> HIDE DEF status
  <1>5. /\ f \in Frame /\ f.at = "return" /\ f.replied = Top.replied /\ f.ctx = Top.ctx
        /\ f.kind = Top.kind /\ f.broken = failed' /\ f.value = status
    BY <1>1, <1>3, <1>4, TopIs DEF Frame, Returning, Answers
  <1> HIDE DEF f
  <1>6. /\ streamFailed' \in SUBSET Streams /\ closes' \in [Streams -> 0..2] /\ ClosedOnce'
        /\ streamFailed \subseteq streamFailed'
        /\ failed' /\ Top.kind # "void" => Top.ctx \in FailOpen \cup streamFailed'
    <2>1. CASE failed' /\ Top.kind # "void"
      BY <1>1, <1>2, <2>1, TopIs, FailStreamKeeps DEF IInv
    <2>2. CASE ~(failed' /\ Top.kind # "void")
      BY <1>2, <2>2 DEF IInv, TypeOK, ClosedOnce
    <2> QED BY <2>1, <2>2
  <1>7. Top.replied => stop
    BY <1>1, TopIs DEF IInv, FlagIsUp
  <1>8. Closed(f, streamFailed')
    BY <1>5, <1>6 DEF Closed
  <1>9. Decided(f)
    <2>1. f.kind = "headers" => f.value # 1
      BY <1>4, <1>5
    <2>2. f.broken => f.value = FailedStatus(f.ctx, f.kind)
      BY <1>4, <1>5
    <2>3. f.replied /\ f.kind \in {"headers", "data", "trailers"} =>
              \/ f.value = Stopped[f.kind]
              \/ f.broken /\ f.ctx \in FailOpen
      <3>1. CASE failed'
        BY <1>1, <1>4, <1>5, <3>1, TopIs, FailedStatusIs
      <3>2. CASE ~failed'
        BY <1>4, <1>5, <1>7, <3>2
      <3> QED BY <3>1, <3>2
    <2> QED BY <2>1, <2>2, <2>3 DEF Decided
  <1>10. f.value <= Largest[f.kind]
    BY <1>4, <1>5
  <1>11. stop' => f.replied \/ (stop /\ (stack[1].replied => f.replied))
    BY <1>1, <1>5, TopIs
  <1> QED BY <1>1, <1>3, <1>5, <1>6, <1>8, <1>9, <1>10, <1>11, TopStep

LEMMA ReturnStep == ASSUME IInv, NEW trap \in BOOLEAN, Return(trap) PROVE IInv'
  <1>1. /\ stack # <<>> /\ Top.at = "return" /\ stop' = FALSE /\ failed' = (failed \/ trap)
        /\ last' = Top /\ stack' = Tail(stack) /\ UNCHANGED <<streamFailed, closes>>
    BY DEF Return, In
  <1>2. stack \in Seq(Frame)
    BY DEF IInv, TypeOK
  <1>3. /\ stack' \in Seq(Frame) /\ Len(stack') = Len(stack) - 1 /\ Len(stack) \in Nat \ {0}
        /\ \A i \in 1 .. Len(stack) - 1 : stack'[i] = stack[i + 1]
    BY <1>1, <1>2, Popped
  <1>4. TypeOK'
    <2>1. \A i \in DOMAIN stack : stack[i].value <= Largest[stack[i].kind]
      BY DEF IInv, TypeOK
    <2>2. \A i \in DOMAIN stack' : stack'[i].value <= Largest[stack'[i].kind]
      <3>1. DOMAIN stack = 1 .. Len(stack) /\ DOMAIN stack' = 1 .. Len(stack) - 1
        BY <1>2, <1>3
      <3>2. \A i \in 1 .. Len(stack) - 1 : i + 1 \in 1 .. Len(stack)
        BY <1>3
      <3> QED BY <1>3, <2>1, <3>1, <3>2
    <2>3. Len(stack') <= MaxDepth /\ last' \in Frame \cup {NoCall}
      BY <1>1, <1>3, TopIs, MaxDepthAssumption DEF IInv, TypeOK
    <2>4. failed' \in BOOLEAN /\ stop' \in BOOLEAN /\ streamFailed' \in SUBSET Streams
          /\ closes' \in [Streams -> 0..2]
      BY <1>1 DEF IInv, TypeOK
    <2> QED BY <1>3, <2>2, <2>3, <2>4 DEF TypeOK
  <1>5. StopIsOwed'
    BY <1>1, <1>4 DEF StopIsOwed
  <1>6. \A i \in DOMAIN stack' : stack'[i].at = "host"
    BY <1>3 DEF IInv, Nesting
  <1>7. Nesting' /\ FlagIsUp' /\ Decisions'
    <2>1. stack' # <<>> => 1 \in DOMAIN stack'
      BY <1>3
    <2>2. \A i \in 2 .. Len(stack') : i \in DOMAIN stack'
      BY <1>3
    <2> QED BY <1>6, <2>1, <2>2 DEF Nesting, FlagIsUp, Decisions
  <1>8. Decided(Top) /\ Closed(Top, streamFailed)
    <2>1. 1 \in DOMAIN stack
      BY <1>2, <1>3
    <2> QED BY <1>1, <2>1, TopIs DEF IInv, Decisions
  <1>9. ClosedOnce' /\ Decided(last)' /\ Closed(last, streamFailed)'
    BY <1>1, <1>8 DEF IInv, ClosedOnce
  <1> QED BY <1>4, <1>5, <1>7, <1>9 DEF IInv

LEMMA NextInv == IInv /\ [Next]_vars => IInv'
  <1> SUFFICES ASSUME IInv, [Next]_vars PROVE IInv'
    OBVIOUS
  <1>1. CASE UNCHANGED vars
    BY <1>1 DEF vars, IInv, TypeOK, StopIsOwed, Nesting, FlagIsUp, Decisions, ClosedOnce, Decided, Closed
  <1> QED BY <1>1, CallStep, CallOnFailedVmStep, SendLocalResponseStep, LocalResponseSentStep,
             GuestReturnsStep, ReturnStep DEF Next

-----------------------------------------------------------------------------
(* A handler in which send_local_response was called stops its stream, whatever ran while the      *)
(* response was sent (the flag of wasm.h, convertVmCallResultToFilter...Status).               *)
THEOREM LocalResponses == Spec => []LocalResponseStops
  <1>1. IInv => LocalResponseStops
    BY DEF IInv, Decided, LocalResponseStops
  <1> QED BY <1>1, InitInv, NextInv, PTL DEF Spec

(* The flag of a local response stops no call but those that sent one (DeferAfterCallActions).     *)
THEOREM StopsAreOwed == Spec => []StopIsOwed
  <1>1. IInv => StopIsOwed
    BY DEF IInv
  <1> QED BY <1>1, InitInv, NextInv, PTL DEF Spec

(* A stream that met a failed VM is closed once, or goes on if its plugin is fail-open (CHECK_FAIL,  *)
(* failStream).                                                                           *)
THEOREM FailedStreams == Spec => []FailedVmStopsOrOpens
  <1>1. IInv => FailedVmStopsOrOpens
    <2> SUFFICES ASSUME IInv, last.broken, last.kind # "void"
                 PROVE  IF last.ctx \in FailOpen
                        THEN last.value = 0 /\ closes[last.ctx] = 0
                        ELSE last.value = Stopped[last.kind] /\ closes[last.ctx] = 1
      BY DEF FailedVmStopsOrOpens
    <2>1. last.ctx \in Streams /\ last.kind \in Kinds
      <3>1. last # NoCall
        BY DEF NoCall
      <3> QED BY <3>1 DEF IInv, TypeOK, Frame
    <2>2. last.value = FailedStatus(last.ctx, last.kind) /\ last.ctx \in FailOpen \cup streamFailed
      BY DEF IInv, Decided, Closed
    <2> QED BY <2>1, <2>2, FailedStatusIs DEF IInv, ClosedOnce
  <1> QED BY <1>1, InitInv, NextInv, PTL DEF Spec
=============================================================================
