--------------------------- MODULE HostCalls_proofs ---------------------------
(***************************************************************************)
(* Proofs about HostCalls.tla, for any engines, streams, header maps and bounds.  *)
(* First Inv: the current and the effective context follow the nesting of guest    *)
(* calls, and an id names one living context although the counter comes round.     *)
(* Then Guests: which frames wait for what, and that the contexts they use live.   *)
(* Then the callouts and Null: what a null plugin holds; last the header maps, which   *)
(* come back from their wire format as they were.                                 *)
(***************************************************************************)
EXTENDS HostCalls, FiniteSetTheorems, SequenceTheorems, WellFoundedInduction, TLAPS

(* A frame is a record of these fields; the stack a sequence of frames. *)
IsFrame(f) == /\ f = [object |-> f.object, event |-> f.event, chosen |-> f.chosen,
                      host |-> f.host, saved |-> f.saved]
              /\ f.object \in Objects /\ f.chosen \in 0 .. IdSpace - 1
IsStack(s) == /\ \E S : s \in Seq(S)
              /\ Len(s) <= MaxDepth
              /\ \A k \in 1 .. Len(s) : IsFrame(s[k])

(* What the contexts are while the k innermost of these guest calls run, and what all  *)
(* of them keep for their callers.                                                *)
Seen(s, k) == IF k = 0 THEN [current |-> Nobody, effective |-> 0]
              ELSE [current |-> s[k].object, effective |-> s[k].chosen]
Nested(s) == \A k \in 1 .. Len(s) : s[k].saved = Seen(s, k - 1)
Faithful(s, c, e) == Nested(s) /\ [current |-> c, effective |-> e] = Seen(s, Len(s))

Nesting == IsStack(stack) /\ Faithful(stack, current, effective)

(* A frame of the same guest call, at another step of its host function. *)
SameCall(f, g) == IsFrame(g) /\ g.object = f.object /\ g.chosen = f.chosen /\ g.saved = f.saved

-----------------------------------------------------------------------------
LEMMA NestingMeans == Nesting => EffectiveStaysInItsCall
  <1> SUFFICES ASSUME Nesting PROVE EffectiveStaysInItsCall
    OBVIOUS
  <1>1. DOMAIN stack = 1 .. Len(stack) /\ Len(stack) \in Nat
    BY DEF Nesting, IsStack
  <1> QED BY <1>1 DEF Nesting, Faithful, Nested, Seen, EffectiveStaysInItsCall

LEMMA HostOnly ==
  ASSUME NEW f, IsFrame(f), NEW h
  PROVE  SameCall(f, [f EXCEPT !.host = h])
  BY DEF IsFrame, SameCall

LEMMA SameCallTransitive ==
  ASSUME NEW f, NEW g, NEW h, SameCall(f, g), SameCall(g, h)
  PROVE  SameCall(f, h)
  BY DEF SameCall

(* What a host function goes on to is still in its guest call. *)
LEMMA OnwardSame ==
  ASSUME NEW f, IsFrame(f), NEW g \in Onward(f)
  PROVE  SameCall(f, g)
  <1>1. PICK h : g = [f EXCEPT !.host = h]
    BY Zenon DEF Onward, Abandoned
  <1> QED BY <1>1, HostOnly

LEMMA AbandonedSame ==
  ASSUME NEW f, IsFrame(f)
  PROVE  SameCall(f, Abandoned(f))
  BY HostOnly DEF Abandoned

LEMMA AdvancedSame ==
  ASSUME NEW f, IsFrame(f), NEW g \in Advanced(f)
  PROVE  SameCall(f, g)
  <1> DEFINE h == [f EXCEPT !.host.steps = Tail(@)]
  <1>1. PICK x : h = [f EXCEPT !.host = x]
    OBVIOUS
  <1>2. SameCall(f, h) /\ IsFrame(h)
    BY <1>1, HostOnly DEF SameCall
  <1>3. g \in Onward(h)
    BY DEF Advanced
  <1>4. SameCall(h, g)
    BY <1>2, <1>3, OnwardSame
  <1> QED BY <1>2, <1>4, SameCallTransitive

(* The innermost frame goes on in the same guest call. *)
LEMMA TopGoesOn ==
  ASSUME NEW s, IsStack(s), NEW c, NEW e, Faithful(s, c, e),
         NEW g, s # <<>>, SameCall(s[Len(s)], g)
  PROVE  LET t == [s EXCEPT ![Len(s)] = g] IN IsStack(t) /\ Faithful(t, c, e)
  <1> DEFINE t == [s EXCEPT ![Len(s)] = g]
  <1>1. PICK S : s \in Seq(S)
    BY DEF IsStack
  <1>2. Len(s) \in Nat \ {0} /\ DOMAIN s = 1 .. Len(s)
    BY <1>1
  <1>3. t \in Seq(S \cup {g}) /\ Len(t) = Len(s)
    BY <1>1, <1>2
  <1>4. \A k \in 1 .. Len(s) :
            t[k].object = s[k].object /\ t[k].chosen = s[k].chosen /\ t[k].saved = s[k].saved
    BY <1>2 DEF SameCall
  <1>5. IsStack(t)
    BY <1>2, <1>3 DEF IsStack, SameCall
  <1> HIDE DEF t
  <1>6. ASSUME NEW k \in 0 .. Len(s) PROVE Seen(t, k) = Seen(s, k)
    <2>1. k = 0 \/ k \in 1 .. Len(s)
      BY <1>2
    <2> QED BY <2>1, <1>4 DEF Seen
  <1>7. Nested(t)
    <2> SUFFICES ASSUME NEW k \in 1 .. Len(s) PROVE t[k].saved = Seen(t, k - 1)
      BY <1>3 DEF Nested
    <2>1. t[k].saved = s[k].saved /\ s[k].saved = Seen(s, k - 1)
      BY <1>4 DEF Faithful, Nested
    <2>2. k - 1 \in 0 .. Len(s)
      BY <1>2
    <2> QED BY <2>1, <2>2, <1>6
  <1>8. [current |-> c, effective |-> e] = Seen(t, Len(t))
    <2>1. Len(s) \in 0 .. Len(s)
      BY <1>2
    <2> QED BY <2>1, <1>3, <1>6 DEF Faithful
  <1> QED BY <1>5, <1>7, <1>8 DEF Faithful, t

(* A guest call ends. *)
LEMMA TopEnds ==
  ASSUME NEW s, IsStack(s), Nested(s), s # <<>>,
         NEW c, NEW e, c = s[Len(s)].saved.current, e = s[Len(s)].saved.effective
  PROVE  IsStack(Front(s)) /\ Faithful(Front(s), c, e)
  <1>1. PICK S : s \in Seq(S)
    BY DEF IsStack
  <1>2. Len(s) \in Nat \ {0} /\ DOMAIN s = 1 .. Len(s)
    BY <1>1
  <1>3. /\ Front(s) \in Seq(S) /\ Len(Front(s)) = Len(s) - 1
        /\ \A k \in 1 .. Len(s) - 1 : Front(s)[k] = s[k]
    BY <1>1, <1>2 DEF Front
  <1>4. \A k \in 0 .. Len(s) - 1 : Seen(Front(s), k) = Seen(s, k)
    BY <1>2, <1>3 DEF Seen
  <1>5. s[Len(s)].saved = Seen(s, Len(s) - 1)
    BY <1>2 DEF Nested
  <1>6. [current |-> c, effective |-> e] = Seen(s, Len(s) - 1)
    BY <1>5 DEF Seen
  <1>7. IsStack(Front(s))
    BY <1>2, <1>3, HostCallsAssumption DEF IsStack
  <1> QED BY <1>2, <1>3, <1>4, <1>6, <1>7 DEF Faithful, Nested

(* SaveContext begins a guest call. *)
LEMMA SaveStep ==
  ASSUME Nesting, NEW o \in Objects, NEW event, SaveContext(o, event), Len(stack) < MaxDepth
  PROVE  Nesting'
  <1>1. PICK S : stack \in Seq(S)
    BY DEF Nesting, IsStack
  <1>2. /\ stack' = Append(stack, Frame(o, event))
        /\ current' = o /\ effective' = 0
    BY DEF SaveContext
  <1>3. /\ stack' \in Seq(S \cup {Frame(o, event)}) /\ Len(stack') = Len(stack) + 1
        /\ Len(stack) \in Nat
        /\ \A k \in 1 .. Len(stack) : stack'[k] = stack[k]
        /\ stack'[Len(stack) + 1] = Frame(o, event)
    BY <1>1, <1>2
  <1>4. /\ IsFrame(Frame(o, event)) /\ Frame(o, event).object = o /\ Frame(o, event).chosen = 0
        /\ Frame(o, event).saved = [current |-> current, effective |-> effective]
    BY HostCallsAssumption, FS_CardinalityType DEF Frame, IsFrame
  <1>5. IsStack(stack')
    <2>1. \A k \in 1 .. Len(stack) + 1 : k \in 1 .. Len(stack) \/ k = Len(stack) + 1
      BY <1>3
    <2>2. Len(stack') <= MaxDepth
      BY <1>3, HostCallsAssumption
    <2>3. \A k \in 1 .. Len(stack) : IsFrame(stack[k])
      BY DEF Nesting, IsStack
    <2>4. \A k \in 1 .. Len(stack') : IsFrame(stack'[k])
      BY <1>3, <1>4, <2>1, <2>3
    <2> QED BY <1>3, <2>2, <2>4 DEF IsStack
  <1>6. \A k \in 0 .. Len(stack) : Seen(stack', k) = Seen(stack, k)
    BY <1>3 DEF Seen
  <1>7. [current |-> current', effective |-> effective'] = Seen(stack', Len(stack'))
    BY <1>2, <1>3, <1>4 DEF Seen
  <1>8. Nested(stack')
    <2>1. ASSUME NEW k \in 1 .. Len(stack) PROVE stack'[k].saved = Seen(stack', k - 1)
      <3>1. stack'[k].saved = Seen(stack, k - 1)
        BY <1>3 DEF Nesting, Faithful, Nested
      <3>2. k - 1 \in 0 .. Len(stack)
        BY <1>3
      <3> QED BY <1>6, <3>1, <3>2
    <2>2. stack'[Len(stack) + 1].saved = Seen(stack', Len(stack))
      <3>1. Len(stack) \in 0 .. Len(stack)
        BY <1>3
      <3>2. Seen(stack, Len(stack)) = [current |-> current, effective |-> effective]
        BY DEF Nesting, Faithful
      <3> QED BY <1>3, <1>4, <1>6, <3>1, <3>2
    <2>3. (Len(stack) + 1) - 1 = Len(stack) /\ Len(stack') = Len(stack) + 1
      BY <1>3
    <2>4. \A k \in 1 .. Len(stack) + 1 : k \in 1 .. Len(stack) \/ k = Len(stack) + 1
      BY <1>3
    <2> QED BY <2>1, <2>2, <2>3, <2>4 DEF Nested
  <1> QED BY <1>5, <1>7, <1>8 DEF Nesting, Faithful

(* A step within the innermost guest call. *)
LEMMA WithTopStep ==
  ASSUME Nesting, stack # <<>>, NEW g, SameCall(Top, g), stack' = WithTop(g),
         UNCHANGED <<current, effective>>
  PROVE  Nesting'
  <1>1. Top = stack[Len(stack)] /\ stack' = [stack EXCEPT ![Len(stack)] = g]
    BY DEF Top, Last, WithTop
  <1>2. IsStack(stack') /\ Faithful(stack', current, effective)
    <2>1. IsStack(stack) /\ Faithful(stack, current, effective) /\ SameCall(stack[Len(stack)], g)
      BY <1>1 DEF Nesting
    <2>2. LET t == [stack EXCEPT ![Len(stack)] = g]
          IN IsStack(t) /\ Faithful(t, current, effective)
      BY <2>1, TopGoesOn
    <2> QED BY <1>1, <2>2
  <1> QED BY <1>2 DEF Nesting, Faithful

LEMMA TopIsFrame ==
  ASSUME Nesting, stack # <<>>
  PROVE  IsFrame(Top)
  <1>1. Len(stack) \in Nat \ {0}
    BY DEF Nesting, IsStack
  <1> QED BY <1>1 DEF Nesting, IsStack, Top, Last

-----------------------------------------------------------------------------
LEMMA InitNesting == Init => Nesting
  <1> SUFFICES ASSUME Init PROVE Nesting
    OBVIOUS
  <1>1. stack = <<>> /\ current = Nobody /\ effective = 0
    BY DEF Init
  <1>2. stack \in Seq({}) /\ Len(stack) = 0
    BY <1>1
  <1> QED BY <1>1, <1>2, HostCallsAssumption DEF Nesting, IsStack, Faithful, Nested, Seen

LEMMA CallsHostStep == ASSUME Nesting, CallsHost PROVE Nesting'
  <1>1. stack # <<>> /\ UNCHANGED <<current, effective>>
    BY DEF CallsHost
  <1>2. PICK call, frame : frame \in Started(call) /\ stack' = WithTop(frame)
    BY Zenon DEF CallsHost
  <1>3. PICK h : frame \in Onward([Top EXCEPT !.host = h])
    <2> DEFINE self == contextOrEffectiveContext
               host(bad) == [f |-> call.f, steps |-> call.steps, bad |-> bad,
                             acting |-> IF ~call.root \/ self = "vm" THEN self ELSE "root"]
               next(p, use) == Onward([Top EXCEPT !.host = host(Badly(p, use))])
    <2>1. Started(call) =
              UNION {next(p, use) : p \in Pointers, use \in PointerUses(call.steps) \cup {"nothing"}}
      BY DEF Started
    <2> HIDE DEF next
    <2>2. PICK p, use : frame \in next(p, use)
      BY <1>2, <2>1
    <2> QED BY <2>2 DEF next
  <1>4. SameCall(Top, [Top EXCEPT !.host = h])
    BY <1>1, TopIsFrame, HostOnly
  <1>5. SameCall([Top EXCEPT !.host = h], frame)
    BY <1>3, <1>4, OnwardSame DEF SameCall
  <1>6. SameCall(Top, frame)
    BY <1>4, <1>5, SameCallTransitive
  <1> QED BY <1>1, <1>2, <1>6, WithTopStep

LEMMA EndsStep == ASSUME Nesting, NEW trap \in BOOLEAN, Ends(trap) PROVE Nesting'
  <1> DEFINE below == Front(stack)
             caller == Last(below)
  <1>1. stack # <<>> /\ Len(stack) \in Nat \ {0} /\ Top = stack[Len(stack)]
    BY DEF Ends, Nesting, IsStack, Top, Last
  <1>2. ASSUME NEW c, NEW e, c = Top.saved.current, e = Top.saved.effective
        PROVE  IsStack(below) /\ Faithful(below, c, e)
    BY <1>1, <1>2, TopEnds DEF Nesting, Faithful
  <1>3. CASE Top.event # "malloc"
    <2>1. RestoreContext(below)
      BY <1>3 DEF Ends
    <2>2. stack' = below /\ current' = Top.saved.current /\ effective' = Top.saved.effective
      BY <2>1 DEF RestoreContext
    <2>3. IsStack(stack') /\ Faithful(stack', current', effective')
      BY <1>2, <2>2
    <2> QED BY <2>3 DEF Nesting, Faithful, IsStack, Nested, Seen
  <1>4. CASE Top.event = "malloc"
    <2>1. PICK frame :
              /\ frame \in {caller} \cup Advanced(caller) \cup {Abandoned(caller)}
              /\ RestoreContext([below EXCEPT ![Len(below)] = frame])
      BY <1>4, Zenon DEF Ends
    <2>2. /\ stack' = [below EXCEPT ![Len(below)] = frame]
          /\ current' = Top.saved.current /\ effective' = Top.saved.effective
      BY <2>1 DEF RestoreContext
    <2>3. IsStack(below) /\ Faithful(below, current', effective')
      BY <1>2, <2>2
    <2>4. CASE below = <<>>
      <3>1. stack' = below
        BY <2>2, <2>4
      <3> QED BY <2>3, <3>1 DEF Nesting, Faithful, IsStack, Nested, Seen
    <2>5. CASE below # <<>>
      <3>1. IsFrame(caller)
        <4>1. Len(below) \in Nat \ {0}
          BY <2>3, <2>5 DEF IsStack
        <4> QED BY <4>1, <2>3 DEF IsStack, Last
      <3>2. SameCall(caller, frame)
        BY <2>1, <3>1, AdvancedSame, AbandonedSame DEF SameCall
      <3>3. IsStack(stack') /\ Faithful(stack', current', effective')
        BY <2>2, <2>3, <2>5, <3>2, TopGoesOn DEF Last
      <3> QED BY <3>3 DEF Nesting, Faithful, IsStack, Nested, Seen
    <2> QED BY <2>4, <2>5
  <1> QED BY <1>3, <1>4

(* set_effective_context changes what is chosen within its own call. *)
LEMMA SetsEffectiveStep ==
  ASSUME Nesting, DOMAIN contexts \subseteq 0 .. IdSpace - 1, SetsEffective
  PROVE  Nesting'
  <1>0. PICK id \in 0 .. IdSpace - 1 :
            /\ effective' = id /\ current' = current
            /\ \E frame \in Advanced([Top EXCEPT !.chosen = id]) : stack' = WithTop(frame)
    BY Zenon DEF SetsEffective, HostSteps
  <1>1. PICK frame \in Advanced([Top EXCEPT !.chosen = id]) : stack' = WithTop(frame)
    BY <1>0
  <1>2. stack # <<>> /\ Len(stack) \in Nat \ {0} /\ Top = stack[Len(stack)] /\ IsFrame(Top)
    BY TopIsFrame DEF SetsEffective, InHost, Nesting, IsStack, Top, Last
  <1> DEFINE top == [Top EXCEPT !.chosen = id]
             s == [stack EXCEPT ![Len(stack)] = top]
  <1>3. IsFrame(top) /\ top.object = Top.object /\ top.chosen = id /\ top.saved = Top.saved
    BY <1>2 DEF IsFrame
  <1>4. PICK S : stack \in Seq(S)
    BY DEF Nesting, IsStack
  <1>5. s \in Seq(S \cup {top}) /\ Len(s) = Len(stack) /\ DOMAIN stack = 1 .. Len(stack)
    BY <1>2, <1>4
  <1>6. IsStack(s) /\ s # <<>> /\ s[Len(s)] = top
    BY <1>2, <1>3, <1>5 DEF Nesting, IsStack
  <1>7. \A k \in 0 .. Len(stack) - 1 : Seen(s, k) = Seen(stack, k)
    BY <1>2, <1>5 DEF Seen
  <1>8. [current |-> current', effective |-> effective'] = Seen(s, Len(s))
    BY <1>0, <1>2, <1>3, <1>5, <1>6 DEF Seen, Nesting, Faithful
  <1>9. \A k \in 1 .. Len(stack) : s[k].saved = stack[k].saved
    BY <1>2, <1>3, <1>5
  <1>10. Faithful(s, current', effective')
    <2> SUFFICES ASSUME NEW k \in 1 .. Len(s) PROVE s[k].saved = Seen(s, k - 1)
      BY <1>8 DEF Faithful, Nested
    <2>1. s[k].saved = stack[k].saved /\ k \in 1 .. Len(stack) /\ k - 1 \in 0 .. Len(stack) - 1
      BY <1>2, <1>5, <1>9
    <2>2. stack[k].saved = Seen(stack, k - 1)
      BY <2>1 DEF Nesting, Faithful, Nested
    <2> QED BY <1>7, <2>1, <2>2
  <1>11. SameCall(top, frame)
    BY <1>1, <1>3, AdvancedSame
  <1>12. stack' = [s EXCEPT ![Len(s)] = frame]
    BY <1>1, <1>2, <1>5 DEF WithTop
  <1>13. IsStack(stack') /\ Faithful(stack', current', effective')
    BY <1>6, <1>10, <1>11, <1>12, TopGoesOn
  <1> QED BY <1>13 DEF Nesting, Faithful, IsStack, Nested, Seen

LEMMA StutterStep ==
  ASSUME Nesting, UNCHANGED <<stack, current, effective>>
  PROVE  Nesting'
  BY DEF Nesting, IsStack, Faithful, Nested, Seen

(* A host function goes on to a next step, or gives up. *)
LEMMA WithinHost ==
  ASSUME Nesting, InHost, NEW frame \in Advanced(Top) \cup {Abandoned(Top)},
         stack' = WithTop(frame), UNCHANGED <<current, effective>>
  PROVE  Nesting'
  <1>1. stack # <<>> /\ IsFrame(Top)
    BY TopIsFrame DEF InHost
  <1>2. SameCall(Top, frame)
    BY <1>1, AdvancedSame, AbandonedSame
  <1> QED BY <1>1, <1>2, WithTopStep

LEMMA NextNesting ==
  ASSUME Nesting, DOMAIN contexts \subseteq 0 .. IdSpace - 1, [Next]_vars
  PROVE  Nesting'
  <1>1. CASE CallsHost
    BY <1>1, CallsHostStep
  <1>2. CASE Restricted
    BY <1>2, EndsStep DEF Restricted
  <1>3. ASSUME NEW trap \in BOOLEAN, Ends(trap) PROVE Nesting'
    BY <1>3, EndsStep
  <1>4. CASE SetsEffective
    BY <1>4, SetsEffectiveStep
  <1>5. CASE CopiesDirectly
    <2>1. PICK frame \in Advanced(Top) \cup {Abandoned(Top)} : stack' = WithTop(frame)
      BY <1>5, Zenon DEF CopiesDirectly, HostSteps
    <2>2. InHost /\ UNCHANGED <<current, effective>>
      BY <1>5 DEF CopiesDirectly, HostSteps
    <2> QED BY <2>1, <2>2, WithinHost
  <1>6. CASE Allocates
    BY <1>6, SaveStep DEF Allocates, Objects
  <1>7. CASE MovesPairs
    <2>1. PICK frame \in Advanced(Top) : stack' = WithTop(frame)
      BY <1>7, Zenon DEF MovesPairs, HostSteps
    <2>2. InHost /\ UNCHANGED <<current, effective>>
      BY <1>7 DEF MovesPairs, HostSteps
    <2> QED BY <2>1, <2>2, WithinHost
  <1>8. CASE Answers
    <2>1. PICK frame \in Advanced(Top) \cup {Abandoned(Top)} : stack' = WithTop(frame)
      BY <1>8, Zenon DEF Answers
    <2>2. InHost /\ UNCHANGED <<current, effective>>
      BY <1>8 DEF Answers
    <2> QED BY <2>1, <2>2, WithinHost
  <1>9. CASE AnswersCallout
    BY <1>9, SaveStep DEF AnswersCallout, Objects
  <1>10. ASSUME NEW s \in Streams, MakesContext(s) \/ DestroysContext(s) PROVE Nesting'
    BY <1>10, StutterStep DEF MakesContext, DestroysContext
  <1>11. ASSUME NEW o \in Objects, NEW event \in DOMAIN Events, CallsGuest(o, event) PROVE Nesting'
    BY <1>11, SaveStep, Zenon DEF CallsGuest
  <1>12. CASE UNCHANGED vars
    BY <1>12, StutterStep DEF vars
  <1> QED BY <1>1, <1>2, <1>3, <1>4, <1>5, <1>6, <1>7, <1>8, <1>9, <1>10, <1>11, <1>12 DEF Next

-----------------------------------------------------------------------------
(* The registry of contexts.  An id of a new context is found since the guest holds       *)
(* fewer contexts than there are ids.                                               *)
Stages == {"dead", "new", "created", "deleted"}
Registered ==
    /\ context \in [Objects -> [id : 0 .. IdSpace - 1, stage : Stages]]
    /\ nextId \in 0 .. IdSpace - 1
    /\ Range(contexts) = Living
    /\ \A id \in DOMAIN contexts : context[contexts[id]].id = id
    /\ \A o \in Living : context[o].id \in DOMAIN contexts /\ contexts[context[o].id] = o

LEMMA IdsInSpace == ASSUME Registered PROVE DOMAIN contexts \subseteq 0 .. IdSpace - 1
  <1> SUFFICES ASSUME NEW id \in DOMAIN contexts PROVE id \in 0 .. IdSpace - 1
    OBVIOUS
  <1>1. contexts[id] \in Objects
    BY DEF Registered, Range, Living
  <1> QED BY <1>1 DEF Registered

LEMMA IdSpaceIsNat == IdSpace \in Nat \ (0 .. 2) /\ Cardinality(Streams) \in Nat
  BY HostCallsAssumption, FS_CardinalityType

(* A set of numbers that is not empty has a least one. *)
LEMMA Least ==
  ASSUME NEW S \in SUBSET Nat, S # {}
  PROVE  \E m \in S : \A k \in S : ~(k < m)
  <1> DEFINE R == {ss \in Nat \X Nat : ss[1] < ss[2]}
  <1>1. R = OpToRel(<, Nat)
    BY DEF OpToRel
  <1>2. IsWellFoundedOn(R, Nat)
    BY <1>1, NatLessThanWellFounded
  <1> HIDE DEF R
  <1>3. \E m \in S : \A k \in S : <<k, m>> \notin R
    BY <1>2, WFMin
  <1> QED BY <1>3 DEF R

LEMMA Around ==
  ASSUME NEW n \in Nat \ {0}, NEW a \in 0 .. n - 1, NEW b \in 0 .. n - 1
  PROVE  \E k \in 0 .. n - 1 : (a + k) % n = b
  <1>1. CASE a <= b
    <2>1. b - a \in 0 .. n - 1 /\ (a + (b - a)) % n = b
      BY <1>1
    <2> QED BY <2>1
  <1>2. CASE b < a
    <2>1. b - a + n \in 0 .. n - 1 /\ a + (b - a + n) = b + n
      BY <1>2
    <2>2. (b + n) % n = b
      OBVIOUS
    <2> QED BY <2>1, <2>2
  <1> QED BY <1>1, <1>2

(* While an object of a stream is dead, not all ids are in use. *)
LEMMA FreeId ==
  ASSUME Registered, NEW s \in Streams, context[s].stage = "dead"
  PROVE  \E id \in 0 .. IdSpace - 1 : id \notin DOMAIN contexts
  <1> DEFINE ids == 0 .. IdSpace - 1
             others == (Streams \ {s}) \cup {"vm"} \cup {"root"}
  <1>1. IsFiniteSet(others) /\ Cardinality(others) <= Cardinality(Streams) + 1
    <2>1. IsFiniteSet(Streams \ {s}) /\ Cardinality(Streams \ {s}) = Cardinality(Streams) - 1
      BY HostCallsAssumption, FS_RemoveElement
    <2> DEFINE t == (Streams \ {s}) \cup {"vm"}
    <2>2. IsFiniteSet(t) /\ Cardinality(t) <= Cardinality(Streams)
      BY <2>1, FS_AddElement, IdSpaceIsNat
    <2>3. Cardinality(t) \in Nat
      BY <2>2, FS_CardinalityType
    <2> HIDE DEF t
    <2>4. IsFiniteSet(t \cup {"root"}) /\ Cardinality(t \cup {"root"}) <= Cardinality(t) + 1
      <3>1. /\ IsFiniteSet(t \cup {"root"})
            /\ Cardinality(t \cup {"root"}) = IF "root" \in t THEN Cardinality(t) ELSE Cardinality(t) + 1
        BY <2>2, FS_AddElement
      <3> QED BY <3>1, <2>3
    <2>5. others = t \cup {"root"}
      BY DEF t
    <2>6. Cardinality(others) \in Nat
      BY <2>4, <2>5, FS_CardinalityType
    <2> QED BY <2>2, <2>3, <2>4, <2>5, <2>6, IdSpaceIsNat
  <1>2. IsFiniteSet(ids) /\ Cardinality(ids) = IdSpace
    BY FS_Interval, IdSpaceIsNat
  <1>3. Cardinality(others) < Cardinality(ids)
    BY <1>1, <1>2, HostCallsAssumption, IdSpaceIsNat, FS_CardinalityType
  <1> SUFFICES ASSUME ids \subseteq DOMAIN contexts PROVE FALSE
    OBVIOUS
  <1> DEFINE f == [id \in ids |-> contexts[id]]
  <1>4. \A id \in ids : contexts[id] \in others /\ context[contexts[id]].id = id
    BY DEF Registered, Range, Living, Objects
  <1>5. f \in [ids -> others]
    BY <1>4
  <1> HIDE DEF ids, others, f
  <1>6. PICK x, y \in ids : x # y /\ f[x] = f[y]
    BY <1>1, <1>2, <1>3, <1>5, FS_PigeonHole
  <1> QED BY <1>4, <1>6 DEF f

(* allocContextId ends, and with an id that no living context has. *)
LEMMA Allocated ==
  ASSUME Registered, NEW s \in Streams, context[s].stage = "dead"
  PROVE  AllocContextId \in 0 .. IdSpace - 1 /\ AllocContextId \notin DOMAIN contexts
  <1> DEFINE free(k) == (nextId + k) % IdSpace \notin DOMAIN contexts
             S == {k \in 0 .. IdSpace - 1 : free(k)}
  <1>1. S # {}
    <2>1. PICK id \in 0 .. IdSpace - 1 : id \notin DOMAIN contexts
      BY FreeId
    <2>2. IdSpace \in Nat \ {0} /\ nextId \in 0 .. IdSpace - 1
      BY IdSpaceIsNat DEF Registered
    <2>3. \E k \in 0 .. IdSpace - 1 : (nextId + k) % IdSpace = id
      BY Zenon, Around, <2>1, <2>2
    <2> QED BY <2>1, <2>3
  <1>2. PICK m \in S : \A k \in S : ~(k < m)
    <2>1. S \in SUBSET Nat
      BY IdSpaceIsNat
    <2> HIDE DEF S
    <2> QED BY <1>1, <2>1, Least
  <1>3. \E k \in 0 .. IdSpace - 1 : free(k) /\ \A j \in 0 .. k - 1 : ~free(j)
    BY <1>2, IdSpaceIsNat
  <1> DEFINE c == CHOOSE k \in 0 .. IdSpace - 1 : free(k) /\ \A j \in 0 .. k - 1 : ~free(j)
  <1>4. c \in 0 .. IdSpace - 1 /\ free(c)
    BY <1>3
  <1>5. AllocContextId = (nextId + c) % IdSpace
    BY DEF AllocContextId
  <1> HIDE DEF c
  <1>6. (nextId + c) % IdSpace \in 0 .. IdSpace - 1
    BY <1>4, IdSpaceIsNat DEF Registered
  <1> QED BY <1>4, <1>5, <1>6

LEMMA MakesStep ==
  ASSUME Registered, NEW s \in Streams, MakesContext(s)
  PROVE  Registered'
  <1> DEFINE id == AllocContextId
  <1>1. /\ context[s].stage = "dead" /\ s \in Objects
        /\ context' = [context EXCEPT ![s] = [id |-> id, stage |-> "new"]]
        /\ contexts' = [i \in DOMAIN contexts \cup {id} |-> IF i = id THEN s ELSE contexts[i]]
        /\ nextId' = (id + 1) % IdSpace
    BY DEF MakesContext, Objects
  <1>2. id \in 0 .. IdSpace - 1 /\ id \notin DOMAIN contexts
    BY <1>1, Allocated
  <1> HIDE DEF id
  <1>3. nextId' \in 0 .. IdSpace - 1
    BY <1>1, <1>2, IdSpaceIsNat
  <1>4. context' \in [Objects -> [id : 0 .. IdSpace - 1, stage : Stages]]
    BY <1>1, <1>2 DEF Registered, Stages
  <1>5. s \notin Living /\ Living' = Living \cup {s}
    BY <1>1 DEF Registered, Living
  <1>6. \A i \in DOMAIN contexts : contexts[i] \in Living /\ contexts[i] # s
    BY <1>5 DEF Registered, Range
  <1>7. Range(contexts') = Living'
    <2>1. Range(contexts') = Range(contexts) \cup {s}
      BY <1>1, <1>2 DEF Range
    <2> QED BY <2>1, <1>5 DEF Registered
  <1>8. \A i \in DOMAIN contexts' : context'[contexts'[i]].id = i
    BY <1>1, <1>2, <1>6 DEF Registered
  <1>9. \A o \in Living' : context'[o].id \in DOMAIN contexts' /\ contexts'[context'[o].id] = o
    BY <1>1, <1>2, <1>5 DEF Registered, Living
  <1> QED BY <1>3, <1>4, <1>7, <1>8, <1>9 DEF Registered

LEMMA DestroysStep ==
  ASSUME Registered, NEW s \in Streams, DestroysContext(s)
  PROVE  Registered'
  <1> DEFINE id == context[s].id
  <1>1. /\ context[s].stage # "dead" /\ s \in Objects /\ nextId' = nextId
        /\ context' = [context EXCEPT ![s] = [id |-> 0, stage |-> "dead"]]
        /\ contexts' = [i \in DOMAIN contexts \ {id} |-> contexts[i]]
    BY DEF DestroysContext, Objects, Restrict
  <1>2. s \in Living /\ id \in DOMAIN contexts /\ contexts[id] = s
    BY <1>1 DEF Registered, Living
  <1> HIDE DEF id
  <1>3. context' \in [Objects -> [id : 0 .. IdSpace - 1, stage : Stages]]
    BY <1>1, IdSpaceIsNat DEF Registered, Stages
  <1>4. Living' = Living \ {s}
    BY <1>1 DEF Registered, Living
  <1>5. \A i \in DOMAIN contexts \ {id} : contexts[i] \in Living \ {s}
    BY <1>2 DEF Registered, Range, id
  <1>6. \A o \in Living \ {s} : context[o].id \in DOMAIN contexts \ {id} /\ contexts[context[o].id] = o
    BY <1>2 DEF Registered
  <1>7. Range(contexts') = Living'
    <2>1. Range(contexts') \subseteq Living \ {s}
      BY <1>1, <1>5 DEF Range
    <2>2. Living \ {s} \subseteq Range(contexts')
      BY <1>1, <1>6 DEF Range
    <2> QED BY <2>1, <2>2, <1>4
  <1>8. \A i \in DOMAIN contexts' : context'[contexts'[i]].id = i
    BY <1>1, <1>5 DEF Registered, Living
  <1>9. \A o \in Living' : context'[o].id \in DOMAIN contexts' /\ contexts'[context'[o].id] = o
    BY <1>1, <1>4, <1>6 DEF Living
  <1> QED BY <1>1, <1>3, <1>7, <1>8, <1>9 DEF Registered

(* A handler changes how far a context has come, never its id. *)
LEMMA CallsGuestStep ==
  ASSUME Registered, NEW o \in Objects, NEW event \in DOMAIN Events, CallsGuest(o, event)
  PROVE  Registered'
  <1>1. /\ context[o].stage = Events[event][1]
        /\ context' = [context EXCEPT ![o].stage = Events[event][2]]
        /\ contexts' = contexts /\ nextId' = nextId
    BY DEF CallsGuest
  <1>2. Events[event][1] # "dead" /\ Events[event][2] \in Stages \ {"dead"}
    BY DEF Events, Stages
  <1>3. context' \in [Objects -> [id : 0 .. IdSpace - 1, stage : Stages]]
    BY <1>1, <1>2 DEF Registered
  <1>4. \A p \in Objects : context'[p].id = context[p].id
    BY <1>1 DEF Registered
  <1>5. Living' = Living
    BY <1>1, <1>2 DEF Registered, Living
  <1>6. \A i \in DOMAIN contexts : contexts[i] \in Objects
    BY DEF Registered, Range, Living
  <1> QED BY <1>1, <1>3, <1>4, <1>5, <1>6 DEF Registered, Living

LEMMA NextRegistered ==
  ASSUME Registered, [Next]_vars
  PROVE  Registered'
  <1>1. ASSUME UNCHANGED <<context, contexts, nextId>> PROVE Registered'
    BY <1>1 DEF Registered, Living
  <1>2. CASE CallsHost \/ SetsEffective \/ CopiesDirectly \/ Allocates \/ MovesPairs
             \/ Answers \/ AnswersCallout \/ UNCHANGED vars
    BY <1>1, <1>2 DEF CallsHost, SetsEffective, CopiesDirectly, Allocates, MovesPairs, Answers,
                      AnswersCallout, HostSteps, vars
  <1>3. CASE Restricted \/ \E trap \in BOOLEAN : Ends(trap)
    BY <1>1, <1>3 DEF Restricted, Ends
  <1>4. ASSUME NEW s \in Streams, MakesContext(s) \/ DestroysContext(s) PROVE Registered'
    BY <1>4, MakesStep, DestroysStep
  <1>5. ASSUME NEW o \in Objects, NEW event \in DOMAIN Events, CallsGuest(o, event) PROVE Registered'
    BY <1>5, CallsGuestStep
  <1> QED BY <1>2, <1>3, <1>4, <1>5 DEF Next

LEMMA InitRegistered == Init => Registered
  <1> SUFFICES ASSUME Init PROVE Registered
    OBVIOUS
  <1>1. /\ context = [o \in Objects |-> CASE o = "vm"   -> [id |-> 0, stage |-> "created"]
                                         [] o = "root" -> [id |-> 1, stage |-> "created"]
                                         [] OTHER      -> [id |-> 0, stage |-> "dead"]]
        /\ contexts = [id \in {0, 1} |-> IF id = 0 THEN "vm" ELSE "root"] /\ nextId = 2
    BY DEF Init
  <1>2. "vm" \in Objects /\ "root" \in Objects
    BY DEF Objects
  <1>3. context \in [Objects -> [id : 0 .. IdSpace - 1, stage : Stages]] /\ nextId \in 0 .. IdSpace - 1
    BY <1>1, IdSpaceIsNat DEF Stages
  <1>4. Living = {"vm", "root"}
    BY <1>1, <1>2 DEF Living
  <1>5. DOMAIN contexts = {0, 1} /\ contexts[0] = "vm" /\ contexts[1] = "root"
    BY <1>1
  <1>6. Range(contexts) = Living
    BY <1>4, <1>5 DEF Range
  <1>7. context["vm"].id = 0 /\ context["root"].id = 1
    BY <1>1, <1>2
  <1>8. \A id \in DOMAIN contexts : context[contexts[id]].id = id
    BY <1>5, <1>7
  <1>9. \A o \in Living : context[o].id \in DOMAIN contexts /\ contexts[context[o].id] = o
    BY <1>4, <1>5, <1>7
  <1> QED BY <1>3, <1>6, <1>8, <1>9 DEF Registered
-----------------------------------------------------------------------------
(* What else TypeOK says of the state. *)
IsPlugin(p) == /\ p = [map |-> p.map, factories |-> p.factories, fell |-> p.fell]
               /\ p.fell \in BOOLEAN
Bounded ==
    /\ \E S : calls \in Seq(S)
    /\ Len(calls) <= MaxCalls
    /\ vm = [restricted |-> vm.restricted, failed |-> vm.failed] /\ vm.failed \in BOOLEAN
    /\ IsPlugin(plugin)

LEMMA PluginKept ==
  ASSUME NEW p, IsPlugin(p), NEW id, NEW k
  PROVE  /\ IsPlugin(Falls(p)) /\ IsPlugin(Put(p, id, k))
         /\ IsPlugin(GetContext(p, id)) /\ IsPlugin(GetRootContext(p, id))
         /\ IsPlugin(GetContextBase(p, id)) /\ IsPlugin(OnDelete(p, id))
  <1>0. ASSUME NEW m PROVE IsPlugin([p EXCEPT !.map = m])
    BY DEF IsPlugin
  <1>1. IsPlugin(Falls(p)) /\ IsPlugin(Put(p, id, k))
    <2>1. IsPlugin(Falls(p))
      BY DEF IsPlugin, Falls
    <2> QED BY <1>0, <2>1 DEF Put
  <1>2. /\ IsPlugin(GetContext(p, id)) /\ IsPlugin(GetRootContext(p, id))
        /\ IsPlugin(GetContextBase(p, id))
    BY <1>1 DEF GetContext, GetRootContext, GetContextBase
  <1>3. IsPlugin(OnDelete(p, id))
    <2>1. ASSUME NEW q, IsPlugin(q), NEW m PROVE IsPlugin([q EXCEPT !.map = m])
      BY <2>1 DEF IsPlugin
    <2> QED BY <1>2, <2>1 DEF OnDelete
  <1> QED BY <1>1, <1>2, <1>3

LEMMA PluginCreates ==
  ASSUME NEW p, IsPlugin(p), NEW id, NEW parent
  PROVE  IsPlugin(OnCreate(p, id, parent))
  <1> DEFINE q == IF parent \in DOMAIN p.map THEN p ELSE Put(p, parent, "empty")
  <1>1. IsPlugin(q)
    BY PluginKept
  <1>2. IsPlugin(Put(q, id, "stream")) /\ IsPlugin(Falls(Put(q, id, "empty")))
    <2> HIDE DEF q
    <2>1. IsPlugin(Put(q, id, "stream")) /\ IsPlugin(Put(q, id, "empty"))
      BY <1>1, PluginKept
    <2> QED BY <2>1, PluginKept
  <1>3. IsPlugin(EnsureContext(p, id, parent))
    BY <1>2, PluginKept DEF EnsureContext
  <1>4. IsPlugin(EnsureRootContext(p, id))
    BY PluginKept DEF EnsureRootContext
  <1> QED BY <1>3, <1>4 DEF OnCreate

LEMMA PluginDispatches ==
  ASSUME IsPlugin(plugin), NEW o, NEW event
  PROVE  IsPlugin(Dispatch(o, event))
  BY PluginCreates, PluginKept DEF Dispatch

LEMMA InitBounded == Init => Bounded
  <1> SUFFICES ASSUME Init PROVE Bounded
    OBVIOUS
  <1>1. calls \in Seq({}) /\ Len(calls) <= MaxCalls
    BY HostCallsAssumption DEF Init
  <1>2. PICK fs : plugin = OnCreate(NewPlugin(fs), 1, 0)
    BY DEF Init
  <1>3. IsPlugin(NewPlugin(fs))
    BY DEF IsPlugin, NewPlugin
  <1>4. IsPlugin(plugin)
    BY <1>2, <1>3, PluginCreates
  <1> QED BY <1>1, <1>4 DEF Init, Bounded

LEMMA CallsBounded ==
  ASSUME Bounded, NEW c,
         calls' = calls \/ (calls' = Append(calls, c) /\ Len(calls) < MaxCalls)
  PROVE  (\E S : calls' \in Seq(S)) /\ Len(calls') <= MaxCalls
  <1>1. PICK S : calls \in Seq(S)
    BY DEF Bounded
  <1>2. CASE calls' = calls
    BY <1>2 DEF Bounded
  <1>3. CASE calls' = Append(calls, c) /\ Len(calls) < MaxCalls
    <2>1. calls' \in Seq(S \cup {c}) /\ Len(calls') = Len(calls) + 1 /\ Len(calls) \in Nat
      BY <1>1, <1>3
    <2> QED BY <2>1, <1>3, HostCallsAssumption
  <1> QED BY <1>2, <1>3

LEMMA NextBounded ==
  ASSUME Bounded, [Next]_vars
  PROVE  Bounded'
  <1>1. CASE CallsHost \/ SetsEffective \/ CopiesDirectly \/ MovesPairs
             \/ (\E s \in Streams : MakesContext(s) \/ DestroysContext(s)) \/ UNCHANGED vars
    <2>1. UNCHANGED <<calls, vm, plugin>>
      BY <1>1 DEF CallsHost, SetsEffective, CopiesDirectly, MovesPairs, MakesContext,
                  DestroysContext, vars
    <2> QED BY <2>1 DEF Bounded
  <1>2. CASE Allocates
    BY <1>2 DEF Allocates, Bounded
  <1>3. CASE Answers
    <2>1. PICK c : calls' = calls \/ (calls' = Append(calls, c) /\ Len(calls) < MaxCalls)
      BY <1>3 DEF Answers
    <2>2. UNCHANGED <<vm, plugin>>
      BY <1>3 DEF Answers
    <2> QED BY <2>1, <2>2, CallsBounded DEF Bounded
  <1>4. CASE AnswersCallout
    <2>1. PICK c \in DOMAIN calls : calls' = RemoveAt(calls, c)
      BY <1>4 DEF AnswersCallout
    <2>2. PICK S : calls \in Seq(S)
      BY DEF Bounded
    <2>3. calls' \in Seq(S) /\ Len(calls') <= Len(calls) /\ Len(calls) \in Nat
      BY <2>1, <2>2 DEF RemoveAt
    <2>4. vm' = vm /\ IsPlugin(plugin')
      BY <1>4, PluginKept DEF AnswersCallout, Bounded
    <2> QED BY <2>3, <2>4, HostCallsAssumption DEF Bounded
  <1>5. ASSUME NEW trap \in BOOLEAN, Ends(trap) PROVE Bounded'
    <2>1. calls' = calls /\ IsPlugin(plugin')
      BY <1>5, PluginKept DEF Ends, Bounded
    <2>2. PICK r : vm' = [failed |-> vm.failed \/ trap, restricted |-> r]
      BY <1>5 DEF Ends
    <2> QED BY <2>1, <2>2 DEF Bounded
  <1>6. ASSUME NEW o \in Objects, NEW event \in DOMAIN Events, CallsGuest(o, event) PROVE Bounded'
    <2>1. calls' = calls /\ vm' = vm /\ IsPlugin(plugin')
      BY <1>6, PluginDispatches DEF CallsGuest, Bounded
    <2> QED BY <2>1 DEF Bounded
  <1> QED BY <1>1, <1>2, <1>3, <1>4, <1>5, <1>6 DEF Next, Restricted

-----------------------------------------------------------------------------
Inv == Nesting /\ Registered /\ Bounded

LEMMA InitInv == Init => Inv
  BY InitNesting, InitRegistered, InitBounded DEF Inv

LEMMA NextInv == Inv /\ [Next]_vars => Inv'
  BY NextNesting, NextRegistered, NextBounded, IdsInSpace DEF Inv

LEMMA InvMeansIds == Inv => IdsAreUnique
  <1> SUFFICES ASSUME Inv PROVE IdsAreUnique
    OBVIOUS
  <1>1. current \in Objects \cup {Nobody} /\ effective \in 0 .. IdSpace - 1 /\ Len(stack) <= MaxDepth
    <2>1. Len(stack) \in Nat /\ Len(stack) <= MaxDepth
      BY DEF Inv, Nesting, IsStack
    <2>2. [current |-> current, effective |-> effective] = Seen(stack, Len(stack))
      BY DEF Inv, Nesting, Faithful
    <2>3. CASE Len(stack) = 0
      BY <2>1, <2>2, <2>3, IdSpaceIsNat DEF Seen
    <2>4. CASE Len(stack) # 0
      <3>1. IsFrame(stack[Len(stack)])
        BY <2>1, <2>4 DEF Inv, Nesting, IsStack
      <3> QED BY <2>1, <2>2, <2>4, <3>1 DEF Seen, IsFrame
    <2> QED BY <2>3, <2>4, <2>1
  <1>2. TypeOK
    BY <1>1 DEF TypeOK, Inv, Registered, Stages, Bounded, IsPlugin
  <1> QED BY <1>2 DEF IdsAreUnique, Inv, Registered

(* An id names one living context: ids come round, and none that is in use is given to a     *)
(* new stream, nor the one of the VM context (WasmBase::allocContextId, contexts_).  *)
THEOREM IdsUnique == Spec => []IdsAreUnique
  BY InitInv, NextInv, InvMeansIds, PTL DEF Spec

(* However guest calls nest, end and trap, and whatever contexts the guest makes effective,   *)
(* each call has the current and the effective context that it had, once the calls made    *)
(* within it are over (SaveRestoreContext in wasm_vm.h, set_effective_context).           *)
THEOREM EffectiveContextStays == Spec => []EffectiveStaysInItsCall
  <1>1. Inv => EffectiveStaysInItsCall
    BY NestingMeans DEF Inv
  <1> QED BY <1>1, InitInv, NextInv, PTL DEF Spec

-----------------------------------------------------------------------------
(* The host functions that run in the frames. *)
StepNames == {"type", "read", "find", "self", "ask", "ask anyway", "effective", "pairs",
              "copy", "write", "raise"}

LEMMA HostFunctionsKnown ==
  ASSUME NEW f \in DOMAIN HostFunctions
  PROVE  HostFunctions[f].steps \in Seq(StepNames)
  <1> DEFINE Function == [root : BOOLEAN, steps : Seq(StepNames)]
  <1>1. {set_property, get_property, get_configuration, get_status, continue_request,
         continue_response, continue_stream, close_stream, send_local_response,
         clear_route_cache} \subseteq Function
    BY DEF StepNames, On, OnRoot, set_property, get_property, get_configuration, get_status, continue_request,
           continue_response, continue_stream, close_stream, send_local_response,
           clear_route_cache
  <1>2. {set_effective_context, done, call_foreign_function, get_shared_data,
         set_shared_data, register_shared_queue, dequeue_shared_queue,
         resolve_shared_queue, enqueue_shared_queue, add_header_map_value} \subseteq Function
    BY DEF StepNames, On, OnRoot, set_effective_context, done, call_foreign_function, get_shared_data,
           set_shared_data, register_shared_queue, dequeue_shared_queue,
           resolve_shared_queue, enqueue_shared_queue, add_header_map_value
  <1>3. {get_header_map_value, replace_header_map_value, remove_header_map_value,
         get_header_map_pairs, set_header_map_pairs, get_header_map_size,
         get_buffer_bytes, get_buffer_status, set_buffer_bytes, http_call} \subseteq Function
    BY DEF StepNames, On, OnRoot, get_header_map_value, replace_header_map_value, remove_header_map_value,
           get_header_map_pairs, set_header_map_pairs, get_header_map_size,
           get_buffer_bytes, get_buffer_status, set_buffer_bytes, http_call
  <1>4. {grpc_call, grpc_stream, grpc_cancel, grpc_close, grpc_send, define_metric,
         increment_metric, record_metric, get_metric, set_tick_period_milliseconds} \subseteq Function
    BY DEF StepNames, On, OnRoot, grpc_call, grpc_stream, grpc_cancel, grpc_close, grpc_send, define_metric,
           increment_metric, record_metric, get_metric, set_tick_period_milliseconds
  <1>5. {get_current_time_nanoseconds, log, get_log_level, pthread_equal,
         emscripten_notify_memory_growth, args_get, path_open, fd_prestat_get,
         fd_prestat_dir_name, fd_write} \subseteq Function
    BY DEF StepNames, On, OnRoot, get_current_time_nanoseconds, log, get_log_level, pthread_equal,
           emscripten_notify_memory_growth, args_get, path_open, fd_prestat_get,
           fd_prestat_dir_name, fd_write
  <1>6. {fd_read, fd_seek, fd_close, fd_fdstat_get, environ_get, environ_sizes_get,
         args_sizes_get, clock_time_get, random_get, proc_exit} \subseteq Function
    BY DEF StepNames, On, OnRoot, fd_read, fd_seek, fd_close, fd_fdstat_get, environ_get, environ_sizes_get,
           args_sizes_get, clock_time_get, random_get, proc_exit
  <1> HIDE DEF Function
  <1>7. HostFunctions[f] \in Function
    BY <1>1, <1>2, <1>3, <1>4, <1>5, <1>6 DEF HostFunctions
  <1> QED BY <1>7 DEF Function

LEMMA StepsOfSome ==
  /\ HostFunctions["http_call"].steps = <<"read", "write", "ask anyway", "write">>
  /\ HostFunctions["log"].steps = <<"type", "read", "self">>
  /\ HostFunctions["fd_write"].steps = <<"type", "read", "self", "write">>
  /\ HostFunctions["clock_time_get"].steps = <<"type", "write">>
  BY DEF HostFunctions, http_call, OnRoot, On, log, fd_write, clock_time_get

IsHost(h) == /\ h = [f |-> h.f, acting |-> h.acting, bad |-> h.bad, steps |-> h.steps]
             /\ h.steps \in Seq(StepNames)
Asks(step) == step \in Asking \cup {"copy"}
NeverAsks(steps) == \A i \in 1 .. Len(steps) : ~Asks(steps[i])

(* The steps of http_call, all of them, and those from the second and the third one on. *)
AllOfHttp(s) == Len(s) = 4 /\ s[1] = "read" /\ s[2] = "write" /\ s[3] = "ask anyway" /\ s[4] = "write"
HttpAsks(s) == Len(s) = 2 /\ s[1] = "ask anyway" /\ s[2] = "write"
HttpWrites(s) == Len(s) = 1 /\ s[1] = "write"

(* A host function as it begins or goes on, ... *)
Going(h) ==
    /\ IsHost(h) /\ h.f # "none"
    /\ h.f = "http_call" => AllOfHttp(h.steps) \/ HttpWrites(h.steps)
    /\ h.f \in AllowedInMalloc => NeverAsks(h.steps)

(* ... and in a frame between two of its steps, if there is one.  Where it asks and does    *)
(* nothing afterwards it has let go of its context.                                   *)
Waiting(h) ==
    /\ IsHost(h)
    /\ h.f = "none" => h.steps = <<>>
    /\ h.f = "http_call" => HttpAsks(h.steps) /\ h.bad # "write"
    /\ h.f \in AllowedInMalloc => NeverAsks(h.steps)
    /\ Len(h.steps) = 1 /\ h.steps[1] \in Asking => h.acting = Nobody

LEMMA Shapes ==
  ASSUME NEW s
  PROVE  /\ s = <<"read", "write", "ask anyway", "write">> => AllOfHttp(s)
         /\ s = <<"type", "read", "self">> => NeverAsks(s)
         /\ s = <<"type", "read", "self", "write">> => NeverAsks(s)
         /\ s = <<"type", "write">> => NeverAsks(s)
  <1>1. ASSUME s = <<"read", "write", "ask anyway", "write">> PROVE AllOfHttp(s)
    BY <1>1 DEF AllOfHttp
  <1>2. ASSUME s = <<"type", "read", "self">> PROVE NeverAsks(s)
    <2>1. Len(s) = 3 /\ s[1] = "type" /\ s[2] = "read" /\ s[3] = "self"
      BY <1>2
    <2>2. \A i \in 1 .. 3 : i = 1 \/ i = 2 \/ i = 3
      OBVIOUS
    <2> QED BY <2>1, <2>2 DEF NeverAsks, Asks, Asking
  <1>3. ASSUME s = <<"type", "read", "self", "write">> PROVE NeverAsks(s)
    <2>1. Len(s) = 4 /\ s[1] = "type" /\ s[2] = "read" /\ s[3] = "self" /\ s[4] = "write"
      BY <1>3
    <2>2. \A i \in 1 .. 4 : i = 1 \/ i = 2 \/ i = 3 \/ i = 4
      OBVIOUS
    <2> QED BY <2>1, <2>2 DEF NeverAsks, Asks, Asking
  <1>4. ASSUME s = <<"type", "write">> PROVE NeverAsks(s)
    <2>1. Len(s) = 2 /\ s[1] = "type" /\ s[2] = "write"
      BY <1>4
    <2>2. \A i \in 1 .. 2 : i = 1 \/ i = 2
      OBVIOUS
    <2> QED BY <2>1, <2>2 DEF NeverAsks, Asks, Asking
  <1> QED BY <1>1, <1>2, <1>3, <1>4

LEMMA HttpParts ==
  ASSUME NEW S, NEW s \in Seq(S)
  PROVE  /\ AllOfHttp(s) => /\ HttpAsks(SubSeq(s, 3, 4))
                            /\ "write" \in ToSet(SubSeq(s, 1, 2))
         /\ HttpAsks(s) => HttpWrites(Tail(s))
  <1>1. ASSUME Len(s) = 4
        PROVE  /\ Len(SubSeq(s, 3, 4)) = 2
               /\ SubSeq(s, 3, 4)[1] = s[3] /\ SubSeq(s, 3, 4)[2] = s[4]
               /\ Len(SubSeq(s, 1, 2)) = 2 /\ SubSeq(s, 1, 2)[2] = s[2]
    BY <1>1
  <1>2. ASSUME AllOfHttp(s) PROVE HttpAsks(SubSeq(s, 3, 4))
    BY <1>1, <1>2 DEF AllOfHttp, HttpAsks
  <1>3. ASSUME AllOfHttp(s) PROVE "write" \in ToSet(SubSeq(s, 1, 2))
    <2>1. Len(s) = 4 /\ s[2] = "write"
      BY <1>3 DEF AllOfHttp
    <2>2. 2 \in DOMAIN SubSeq(s, 1, 2) /\ SubSeq(s, 1, 2)[2] = "write"
      BY <1>1, <2>1
    <2> QED BY <2>2 DEF ToSet
  <1>4. ASSUME HttpAsks(s) PROVE HttpWrites(Tail(s))
    <2>0. Len(s) = 2
      BY <1>4 DEF HttpAsks
    <2>1. s[2] = "write"
      BY <1>4 DEF HttpAsks
    <2>2. /\ s # <<>> => Len(Tail(s)) = Len(s) - 1
          /\ \A i \in 1 .. Len(s) - 1 : Tail(s)[i] = s[i + 1]
      OBVIOUS
    <2>3. s # <<>>
      BY <2>0
    <2> DEFINE t == Tail(s)
    <2>4. Len(t) = Len(s) - 1 /\ \A i \in 1 .. Len(s) - 1 : t[i] = s[i + 1]
      BY <2>2, <2>3
    <2> HIDE DEF t
    <2>5. Len(t) = 1 /\ t[1] = s[2]
      BY <2>0, <2>4
    <2> QED BY <2>1, <2>5 DEF HttpWrites, t
  <1> QED BY <1>2, <1>3, <1>4

LEMMA NoHostWaits == Waiting(NoHost) /\ NoHost.acting = Nobody /\ NoHost.f = "none"
  BY DEF Waiting, NoHost, IsHost, AllowedInMalloc

(* A call begins with all the steps of its function. *)
LEMMA BeginsGoing ==
  ASSUME NEW call \in AllCalls, NEW h,
         h = [f |-> h.f, acting |-> h.acting, bad |-> h.bad, steps |-> h.steps],
         h.f = call.f, h.steps = call.steps
  PROVE  Going(h)
  <1>1. PICK f \in DOMAIN HostFunctions : call = HostCallsOf(f)
    BY DEF AllCalls
  <1>2. call.steps = HostFunctions[f].steps /\ call.f = IF f \in Told THEN f ELSE "other"
    BY <1>1 DEF HostCallsOf
  <1>3. call.steps \in Seq(StepNames)
    BY <1>2, HostFunctionsKnown
  <1>4. call.f # "none"
    BY <1>2 DEF Told, AllowedInMalloc
  <1>5. ASSUME call.f = "http_call"
        PROVE  AllOfHttp(call.steps)
    <2>1. call.steps = <<"read", "write", "ask anyway", "write">>
      BY <1>2, <1>5, StepsOfSome
    <2> QED BY <2>1, Shapes
  <1>6. ASSUME call.f \in AllowedInMalloc
        PROVE  NeverAsks(call.steps)
    <2>1. f = call.f /\ f \in {"log", "fd_write", "clock_time_get"}
      BY <1>2, <1>6 DEF AllowedInMalloc
    <2>2. CASE f = "log"
      <3>1. call.steps = <<"type", "read", "self">>
        BY <1>2, <2>2, StepsOfSome
      <3> QED BY <3>1, Shapes
    <2>3. CASE f = "fd_write"
      <3>1. call.steps = <<"type", "read", "self", "write">>
        BY <1>2, <2>3, StepsOfSome
      <3> QED BY <3>1, Shapes
    <2>4. CASE f = "clock_time_get"
      <3>1. call.steps = <<"type", "write">>
        BY <1>2, <2>4, StepsOfSome
      <3> QED BY <3>1, Shapes
    <2> QED BY <2>1, <2>2, <2>3, <2>4
  <1> QED BY <1>3, <1>4, <1>5, <1>6 DEF Going, IsHost

(* Where a function stops that has these steps ahead, and what it passes until then. *)
Loud(s) == {i \in 1 .. Len(s) : s[i] \notin Silent}
StopAt(s) == IF Loud(s) # {} THEN Min(Loud(s)) ELSE 0
RestOf(s) == IF StopAt(s) = 0 THEN <<>> ELSE SubSeq(s, StopAt(s), Len(s))
Passed(s) == ToSet(IF StopAt(s) = 0 THEN s ELSE SubSeq(s, 1, StopAt(s) - 1))

LEMMA OnwardIs ==
  ASSUME NEW f, NEW g \in Onward(f)
  PROVE  \/ g = Abandoned(f)
         \/ g = [f EXCEPT !.host = Rest(f.host, RestOf(f.host.steps))]
            /\ f.host.bad \notin Passed(f.host.steps)
  BY Zenon DEF Onward, SelectInSeq, Loud, StopAt, RestOf, Passed

LEMMA StopAtIs ==
  ASSUME NEW s \in Seq(StepNames), StopAt(s) # 0
  PROVE  StopAt(s) \in 1 .. Len(s) /\ s[StopAt(s)] \notin Silent
  <1>1. Loud(s) \in SUBSET Nat /\ Loud(s) # {} /\ StopAt(s) = Min(Loud(s))
    BY DEF Loud, StopAt
  <1>2. PICK m \in Loud(s) : \A k \in Loud(s) : ~(k < m)
    BY <1>1, Least
  <1>3. \A k \in Loud(s) : m <= k
    BY <1>1, <1>2
  <1>4. Min(Loud(s)) \in Loud(s)
    BY <1>3 DEF Min
  <1> QED BY <1>1, <1>4 DEF Loud

LEMMA RestOfIs ==
  ASSUME NEW s \in Seq(StepNames)
  PROVE  /\ RestOf(s) \in Seq(StepNames)
         /\ NeverAsks(s) => NeverAsks(RestOf(s))
  <1>1. CASE StopAt(s) = 0
    BY <1>1 DEF RestOf, NeverAsks
  <1>2. CASE StopAt(s) # 0
    <2>1. StopAt(s) \in 1 .. Len(s)
      BY <1>2, StopAtIs
    <2> DEFINE k == StopAt(s)
    <2>2. RestOf(s) = SubSeq(s, k, Len(s))
      BY <1>2 DEF RestOf
    <2> HIDE DEF k
    <2>3. /\ RestOf(s) \in Seq(StepNames) /\ Len(RestOf(s)) = Len(s) - k + 1
          /\ \A i \in 1 .. Len(RestOf(s)) : RestOf(s)[i] = s[k + i - 1] /\ k + i - 1 \in 1 .. Len(s)
      BY <2>1, <2>2 DEF k
    <2> QED BY <2>3 DEF NeverAsks
  <1> QED BY <1>1, <1>2

LEMMA HttpRest ==
  ASSUME NEW s \in Seq(StepNames)
  PROVE  /\ AllOfHttp(s) => HttpAsks(RestOf(s)) /\ "write" \in Passed(s)
         /\ HttpWrites(s) => RestOf(s) = <<>>
  <1>1. ASSUME AllOfHttp(s)
        PROVE  HttpAsks(RestOf(s)) /\ "write" \in Passed(s)
    <2>1. Len(s) = 4 /\ s[1] \in Silent /\ s[2] \in Silent /\ s[3] \notin Silent /\ s[4] \in Silent
      BY <1>1 DEF AllOfHttp, Silent
    <2>2. Loud(s) = {3}
      <3>1. \A i \in 1 .. 4 : i = 1 \/ i = 2 \/ i = 3 \/ i = 4
        OBVIOUS
      <3> QED BY <2>1, <3>1 DEF Loud
    <2>3. Min({3}) = 3
      BY DEF Min
    <2>4. StopAt(s) = 3
      BY <2>2, <2>3 DEF StopAt
    <2>5. RestOf(s) = SubSeq(s, 3, 4)
      BY <2>1, <2>4 DEF RestOf
    <2>6. HttpAsks(RestOf(s))
      BY <1>1, <2>5, HttpParts
    <2>7. Passed(s) = ToSet(SubSeq(s, 1, 2))
      BY <2>4 DEF Passed
    <2> QED BY <1>1, <2>6, <2>7, HttpParts
  <1>2. ASSUME HttpWrites(s)
        PROVE  RestOf(s) = <<>>
    <2>1. Loud(s) = {}
      BY <1>2 DEF Loud, HttpWrites, Silent
    <2> QED BY <2>1 DEF RestOf, StopAt
  <1> QED BY <1>1, <1>2

(* What a frame is in whose call the guest goes on: the same call at another step. *)
Follows(f, g) ==
    /\ g.object = f.object /\ g.event = f.event
    /\ Waiting(g.host)
    /\ g.host.acting \in {f.host.acting, Nobody}
    /\ g.host.f \in {f.host.f, "none"}

LEMMA AbandonedFollows ==
  ASSUME NEW f, IsFrame(f)
  PROVE  Follows(f, Abandoned(f))
  <1>1. /\ Abandoned(f).object = f.object /\ Abandoned(f).event = f.event
        /\ Abandoned(f).host = NoHost
    BY DEF Abandoned, IsFrame
  <1> QED BY <1>1, NoHostWaits DEF Follows

LEMMA OnwardFollows ==
  ASSUME NEW f, IsFrame(f), Going(f.host), NEW g \in Onward(f)
  PROVE  Follows(f, g)
  <1>1. CASE g = Abandoned(f)
    BY <1>1, AbandonedFollows
  <1>2. CASE g = [f EXCEPT !.host = Rest(f.host, RestOf(f.host.steps))]
             /\ f.host.bad \notin Passed(f.host.steps)
    <2> DEFINE h == f.host
               steps == RestOf(h.steps)
               r == Rest(h, steps)
    <2>1. /\ g.object = f.object /\ g.event = f.event /\ g.host = r
      BY <1>2 DEF IsFrame
    <2>2. IsHost(h) /\ h.f # "none" /\ h.steps \in Seq(StepNames)
      BY DEF Going, IsHost
    <2>3. steps \in Seq(StepNames) /\ (NeverAsks(h.steps) => NeverAsks(steps))
      BY <2>2, RestOfIs
    <2>4. h.f = "http_call" => \/ steps = <<>>
                               \/ HttpAsks(steps) /\ h.bad # "write"
      BY <1>2, <2>2, HttpRest DEF Going
    <2>5. CASE steps = <<>>
      <3>1. r = NoHost
        BY <2>5 DEF Rest
      <3> QED BY <2>1, <3>1, NoHostWaits DEF Follows
    <2>6. CASE steps # <<>>
      <3> DEFINE acting == IF Head(steps) \in Asking /\ Len(steps) = 1 THEN Nobody ELSE h.acting
                 bad == IF h.f \in Callouts \/ "pairs" \in ToSet(steps) THEN h.bad ELSE "nothing"
      <3>1. r = [h EXCEPT !.steps = steps, !.acting = acting, !.bad = bad]
        BY <2>6 DEF Rest
      <3> HIDE DEF steps, acting, bad, h
      <3>2. r = [f |-> h.f, acting |-> acting, bad |-> bad, steps |-> steps]
        BY <2>2, <3>1 DEF IsHost
      <3> HIDE DEF r
      <3>3. r.f = h.f /\ r.acting = acting /\ r.bad = bad /\ r.steps = steps
        BY <3>2
      <3>4. IsHost(r)
        BY <2>3, <3>2, <3>3 DEF IsHost
      <3>5. r.f = "http_call" => HttpAsks(r.steps) /\ r.bad # "write"
        BY <2>4, <2>6, <3>3 DEF bad, Callouts
      <3>6. r.f \in AllowedInMalloc => NeverAsks(r.steps)
        BY <2>3, <3>3 DEF Going, h
      <3>7. Len(r.steps) = 1 /\ r.steps[1] \in Asking => r.acting = Nobody
        BY <2>3, <3>3 DEF acting
      <3>8. acting \in {h.acting, Nobody}
        BY DEF acting
      <3> QED BY <2>1, <2>2, <3>3, <3>4, <3>5, <3>6, <3>7, <3>8 DEF Follows, Waiting, h
    <2> QED BY <2>5, <2>6
  <1> QED BY <1>1, <1>2, OnwardIs

LEMMA OtherSteps ==
  ASSUME NEW h, h = [f |-> h.f, acting |-> h.acting, bad |-> h.bad, steps |-> h.steps], NEW s
  PROVE  [h EXCEPT !.steps = s] = [f |-> h.f, acting |-> h.acting, bad |-> h.bad, steps |-> s]
  OBVIOUS

LEMMA AdvancedFollows ==
  ASSUME NEW f, IsFrame(f), Waiting(f.host), f.host.steps # <<>>, NEW g \in Advanced(f)
  PROVE  Follows(f, g)
  <1> DEFINE h == f.host
             n == [f EXCEPT !.host.steps = Tail(@)]
             k == [h EXCEPT !.steps = Tail(h.steps)]
  <1>1. n = [f EXCEPT !.host = k]
    OBVIOUS
  <1>2. IsFrame(n) /\ n.object = f.object /\ n.event = f.event /\ n.host = k
    BY <1>1 DEF IsFrame
  <1>3. IsHost(h) /\ h.steps \in Seq(StepNames) /\ h.steps # <<>>
    BY DEF Waiting, IsHost
  <1> HIDE DEF h
  <1>4. k = [f |-> h.f, acting |-> h.acting, bad |-> h.bad, steps |-> Tail(h.steps)]
    <2>1. h = [f |-> h.f, acting |-> h.acting, bad |-> h.bad, steps |-> h.steps]
      BY <1>3 DEF IsHost
    <2> QED BY <2>1, OtherSteps
  <1> HIDE DEF k
  <1>5. k.f = h.f /\ k.acting = h.acting /\ k.steps = Tail(h.steps) /\ k.bad = h.bad
    BY <1>4
  <1>6. /\ Tail(h.steps) \in Seq(StepNames) /\ Len(Tail(h.steps)) = Len(h.steps) - 1
        /\ \A i \in 1 .. Len(Tail(h.steps)) : Tail(h.steps)[i] = h.steps[i + 1] /\ i + 1 \in 1 .. Len(h.steps)
    BY <1>3
  <1>7. IsHost(k)
    BY <1>4, <1>5, <1>6 DEF IsHost
  <1>8. Going(k)
    <2>1. k.f # "none"
      BY <1>3, <1>5 DEF Waiting, h
    <2>2. k.f = "http_call" => HttpWrites(k.steps)
      BY <1>3, <1>5, HttpParts DEF Waiting, h
    <2>3. k.f \in AllowedInMalloc => NeverAsks(k.steps)
      BY <1>5, <1>6 DEF Waiting, NeverAsks, h
    <2> QED BY <1>7, <2>1, <2>2, <2>3 DEF Going
  <1> HIDE DEF n
  <1>9. g \in Onward(n)
    BY DEF Advanced, n
  <1>10. Follows(n, g)
    BY <1>2, <1>8, <1>9, OnwardFollows
  <1> QED BY <1>2, <1>5, <1>10 DEF Follows, h

-----------------------------------------------------------------------------
(* The guest calls under way.  All but the innermost wait in a host function, for the      *)
(* embedder or for the allocation of memory.  The allocator is restricted to functions     *)
(* that ask nobody, so that the embedder never runs on top of it.                       *)
WaitsBelow(f, g) ==
    /\ f.event # "malloc" /\ f.host.steps # <<>> /\ Asks(f.host.steps[1])
    /\ f.host.steps[1] = "copy" => g.event = "malloc"

Stands(s) ==
    /\ \A k \in 1 .. Len(s) : Waiting(s[k].host)
    /\ \A k \in 1 .. Len(s) - 1 : WaitsBelow(s[k], s[k + 1])
    /\ s # <<>> /\ s[Len(s)].event = "malloc" =>
          s[Len(s)].host.f \in AllowedInMalloc \cup {"none"}
Uses(s, living) ==
    \A k \in 1 .. Len(s) : s[k].object \in living /\ s[k].host.acting \in living \cup {Nobody}
Allocator(s, v) == s # <<>> /\ s[Len(s)].event = "malloc" => v.restricted = AllowedInMalloc

(* The VM context and the root context stay. *)
Lasting == /\ context["vm"].stage = "created" /\ context["root"].stage = "created"
           /\ context["vm"].id = 0 /\ context["root"].id = 1

Guests == Stands(stack) /\ Uses(stack, Living) /\ Allocator(stack, vm) /\ Lasting

LEMMA StackIs ==
  ASSUME NEW s, IsStack(s)
  PROVE  /\ Len(s) \in Nat /\ DOMAIN s = 1 .. Len(s)
         /\ s # <<>> => Len(s) \in Nat \ {0} /\ Last(s) = s[Len(s)] /\ IsFrame(s[Len(s)])
         /\ s = <<>> => Len(s) = 0
  BY DEF IsStack, Last

(* The innermost call goes on. *)
LEMMA TopFollows ==
  ASSUME NEW s, IsStack(s), s # <<>>, NEW g, NEW living,
         Stands(s), Uses(s, living),
         g.object = s[Len(s)].object, g.event = s[Len(s)].event, Waiting(g.host),
         g.host.acting \in living \cup {Nobody},
         g.event = "malloc" => g.host.f \in AllowedInMalloc \cup {"none"}
  PROVE  LET t == [s EXCEPT ![Len(s)] = g]
         IN Stands(t) /\ Uses(t, living) /\ Len(t) = Len(s) /\ t[Len(t)] = g /\ t # <<>>
  <1> DEFINE t == [s EXCEPT ![Len(s)] = g]
             n == Len(s)
  <1>1. PICK S : s \in Seq(S)
    BY DEF IsStack
  <1>2. n \in Nat \ {0} /\ DOMAIN s = 1 .. n
    BY <1>1
  <1>3. t \in Seq(S \cup {g}) /\ Len(t) = n
    BY <1>1, <1>2
  <1>4. t[n] = g /\ \A k \in 1 .. n : k # n => t[k] = s[k]
    BY <1>2
  <1>5. t # <<>>
    BY <1>2, <1>3
  <1> HIDE DEF t, n
  <1>6. \A k \in 1 .. n : Waiting(s[k].host)
    BY DEF Stands, n
  <1>7. \A k \in 1 .. n : Waiting(t[k].host)
    BY <1>4, <1>6
  <1>8. ASSUME NEW k \in 1 .. n - 1 PROVE WaitsBelow(t[k], t[k + 1])
    <2>1. k \in 1 .. n /\ k + 1 \in 1 .. n /\ k # n
      BY <1>2
    <2>2. WaitsBelow(s[k], s[k + 1])
      BY DEF Stands, n
    <2>3. t[k] = s[k] /\ t[k + 1].event = s[k + 1].event
      BY <1>4, <2>1 DEF n
    <2> QED BY <2>2, <2>3 DEF WaitsBelow
  <1>9. Stands(t)
    BY <1>3, <1>4, <1>7, <1>8 DEF Stands
  <1>10. Uses(t, living)
    <2> SUFFICES ASSUME NEW k \in 1 .. n
                 PROVE  t[k].object \in living /\ t[k].host.acting \in living \cup {Nobody}
      BY <1>3 DEF Uses
    <2>1. s[k].object \in living /\ s[k].host.acting \in living \cup {Nobody}
      BY DEF Uses, n
    <2> QED BY <1>4, <2>1 DEF n
  <1> QED BY <1>3, <1>4, <1>5, <1>9, <1>10 DEF t, n

(* A call begins on top of one that waits. *)
LEMMA CallBegins ==
  ASSUME NEW s, IsStack(s), NEW g, NEW living, Stands(s), Uses(s, living),
         g.host = NoHost, g.object \in living,
         s # <<>> => WaitsBelow(s[Len(s)], g)
  PROVE  LET t == Append(s, g)
         IN Stands(t) /\ Uses(t, living) /\ t[Len(t)] = g
  <1> DEFINE t == Append(s, g)
             n == Len(s)
  <1>1. PICK S : s \in Seq(S)
    BY DEF IsStack
  <1>2. /\ n \in Nat /\ Len(t) = n + 1 /\ t[n + 1] = g
        /\ \A k \in 1 .. n : t[k] = s[k]
    BY <1>1
  <1>3. n # 0 => s # <<>>
    BY <1>1
  <1> HIDE DEF t, n
  <1>4. \A k \in 1 .. n : Waiting(s[k].host)
    BY DEF Stands, n
  <1>5. \A k \in 1 .. n + 1 : Waiting(t[k].host)
    <2> SUFFICES ASSUME NEW k \in 1 .. n + 1 PROVE Waiting(t[k].host)
      OBVIOUS
    <2>1. CASE k = n + 1
      BY <1>2, <2>1, NoHostWaits
    <2>2. CASE k # n + 1
      <3>1. k \in 1 .. n
        BY <1>2, <2>2
      <3> QED BY <1>2, <1>4, <3>1
    <2> QED BY <2>1, <2>2
  <1>6. ASSUME NEW k \in 1 .. n PROVE WaitsBelow(t[k], t[k + 1])
    <2>1. CASE k = n
      <3>1. s # <<>> /\ WaitsBelow(s[n], g)
        BY <1>2, <1>3, <2>1 DEF n
      <3> QED BY <1>2, <2>1, <3>1
    <2>2. CASE k # n
      <3>1. k \in 1 .. n - 1 /\ k + 1 \in 1 .. n
        BY <1>2, <2>2
      <3>2. WaitsBelow(s[k], s[k + 1])
        BY <3>1 DEF Stands, n
      <3> QED BY <1>2, <3>1, <3>2
    <2> QED BY <2>1, <2>2
  <1>7. Stands(t)
    <2>1. \A k \in 1 .. Len(t) - 1 : k \in 1 .. n
      BY <1>2
    <2>2. t[Len(t)].host.f = "none"
      BY <1>2, NoHostWaits
    <2> QED BY <1>2, <1>5, <1>6, <2>1, <2>2 DEF Stands
  <1>8. Uses(t, living)
    <2> SUFFICES ASSUME NEW k \in 1 .. n + 1
                 PROVE  t[k].object \in living /\ t[k].host.acting \in living \cup {Nobody}
      BY <1>2 DEF Uses
    <2>1. CASE k = n + 1
      BY <1>2, <2>1, NoHostWaits
    <2>2. CASE k # n + 1
      <3>1. k \in 1 .. n
        BY <1>2, <2>2
      <3> QED BY <1>2, <3>1 DEF Uses, n
    <2> QED BY <2>1, <2>2
  <1> QED BY <1>2, <1>7, <1>8 DEF t, n

LEMMA FrontIs ==
  ASSUME NEW S, NEW s \in Seq(S), Len(s) \in Nat \ {0}
  PROVE  /\ Front(s) \in Seq(S) /\ Len(Front(s)) = Len(s) - 1
         /\ \A k \in 1 .. Len(s) - 1 : Front(s)[k] = s[k]
  <1> DEFINE n == Len(s)
             t == SubSeq(s, 1, n - 1)
  <1>1. n \in Nat \ {0} /\ t = SubSeq(s, 1, n - 1) /\ n = Len(s)
    OBVIOUS
  <1> HIDE DEF n, t
  <1>2. t \in Seq(S)
    BY <1>1
  <1>3. Len(t) = n - 1
    BY <1>1
  <1>4. \A k \in 1 .. n - 1 : t[k] = s[k]
    BY <1>1
  <1> QED BY <1>2, <1>3, <1>4 DEF Front, n, t

(* A call ends. *)
LEMMA CallEnds ==
  ASSUME NEW s, IsStack(s), s # <<>>, NEW living, Stands(s), Uses(s, living)
  PROVE  LET t == Front(s)
         IN /\ Stands(t) /\ Uses(t, living)
            /\ t # <<>> => t[Len(t)].event # "malloc" /\ t[Len(t)].host.steps # <<>>
  <1> DEFINE t == Front(s)
             n == Len(s)
  <1>1. PICK S : s \in Seq(S)
    BY DEF IsStack
  <1>2. n \in Nat \ {0}
    BY <1>1
  <1>3. t \in Seq(S) /\ Len(t) = n - 1 /\ \A k \in 1 .. n - 1 : t[k] = s[k]
    BY <1>1, <1>2, FrontIs
  <1>4. t # <<>> => Len(t) # 0
    BY <1>3
  <1> HIDE DEF t, n
  <1>5. \A k \in 1 .. n : Waiting(s[k].host)
    BY DEF Stands, n
  <1>6. \A k \in 1 .. n - 1 : WaitsBelow(s[k], s[k + 1])
    BY DEF Stands, n
  <1>7. \A k \in 1 .. n - 1 : Waiting(t[k].host)
    BY <1>2, <1>3, <1>5
  <1>8. \A k \in 1 .. n - 2 : WaitsBelow(t[k], t[k + 1])
    <2> SUFFICES ASSUME NEW k \in 1 .. n - 2 PROVE WaitsBelow(t[k], t[k + 1])
      OBVIOUS
    <2>1. k \in 1 .. n - 1 /\ k + 1 \in 1 .. n - 1
      BY <1>2
    <2> QED BY <1>3, <1>6, <2>1
  <1>9. ASSUME t # <<>> PROVE t[Len(t)].event # "malloc" /\ t[Len(t)].host.steps # <<>>
    <2>1. n - 1 \in 1 .. n - 1
      BY <1>2, <1>3, <1>4, <1>9
    <2>2. WaitsBelow(s[n - 1], s[n - 1 + 1])
      BY <1>6, <2>1
    <2> QED BY <1>3, <2>1, <2>2 DEF WaitsBelow
  <1>10. Stands(t)
    <2>1. \A k \in 1 .. Len(t) - 1 : k \in 1 .. n - 2
      BY <1>2, <1>3
    <2> QED BY <1>3, <1>7, <1>8, <1>9, <2>1 DEF Stands
  <1>11. Uses(t, living)
    <2> SUFFICES ASSUME NEW k \in 1 .. n - 1
                 PROVE  t[k].object \in living /\ t[k].host.acting \in living \cup {Nobody}
      BY <1>3 DEF Uses
    <2>1. k \in 1 .. n
      BY <1>2
    <2> QED BY <1>3, <2>1 DEF Uses, n
  <1> QED BY <1>9, <1>10, <1>11 DEF t

LEMMA GuestsActOnLiving == ASSUME Inv, Guests PROVE ActsOnLivingContext
  <1>1. DOMAIN stack = 1 .. Len(stack)
    BY StackIs DEF Inv, Nesting
  <1> QED BY <1>1 DEF ActsOnLivingContext, Guests, Uses

LEMMA TopIs ==
  ASSUME Inv, Guests, stack # <<>>
  PROVE  /\ Len(stack) \in Nat \ {0} /\ Top = stack[Len(stack)] /\ IsFrame(Top)
         /\ IsStack(stack) /\ Stands(stack) /\ Uses(stack, Living)
         /\ Waiting(Top.host) /\ Top.object \in Living /\ Top.host.acting \in Living \cup {Nobody}
         /\ Top.event = "malloc" => /\ Top.host.f \in AllowedInMalloc \cup {"none"}
                                    /\ vm.restricted = AllowedInMalloc
  <1>1. IsStack(stack)
    BY DEF Inv, Nesting
  <1>2. Len(stack) \in Nat \ {0} /\ Top = stack[Len(stack)] /\ IsFrame(Top)
    BY <1>1, StackIs DEF Top
  <1>3. Len(stack) \in 1 .. Len(stack)
    BY <1>2
  <1> QED BY <1>1, <1>2, <1>3 DEF Guests, Stands, Uses, Allocator

(* Where the embedder runs, or memory is allocated, a guest that is not the allocator waits. *)
LEMMA TopWaits ==
  ASSUME Inv, Guests, InHost, Asks(Step)
  PROVE  /\ Top.event # "malloc" /\ Top.host.steps # <<>> /\ Asks(Top.host.steps[1])
         /\ Step = Top.host.steps[1]
  <1>1. stack # <<>> /\ Top.host.steps # <<>>
    BY DEF InHost
  <1>2. Waiting(Top.host)
    BY <1>1, TopIs
  <1>3. Top.host.steps \in Seq(StepNames)
    BY <1>2 DEF Waiting, IsHost
  <1>4. Step = Top.host.steps[1] /\ 1 \in 1 .. Len(Top.host.steps)
    BY <1>1, <1>3 DEF Step
  <1>5. ASSUME Top.event = "malloc" PROVE FALSE
    <2>1. Top.host.f \in AllowedInMalloc \cup {"none"}
      BY <1>1, <1>5, TopIs
    <2>2. Top.host.f \in AllowedInMalloc
      BY <1>1, <1>2, <2>1 DEF Waiting
    <2> QED BY <1>2, <1>4, <2>2 DEF Waiting, NeverAsks
  <1> QED BY <1>1, <1>4, <1>5

(* A step within the innermost guest call. *)
LEMMA GoesOn ==
  ASSUME Inv, Guests, stack # <<>>, NEW g, stack' = WithTop(g),
         g.object = Top.object, g.event = Top.event, Waiting(g.host),
         g.host.acting \in Living \cup {Nobody},
         g.event = "malloc" => g.host.f \in AllowedInMalloc \cup {"none"},
         UNCHANGED <<context, vm>>
  PROVE  Guests'
  <1>1. stack' = [stack EXCEPT ![Len(stack)] = g]
    BY DEF WithTop
  <1>2. LET t == [stack EXCEPT ![Len(stack)] = g]
        IN Stands(t) /\ Uses(t, Living) /\ Len(t) = Len(stack) /\ t[Len(t)] = g /\ t # <<>>
    BY TopIs, TopFollows
  <1>3. Stands(stack') /\ Uses(stack', Living) /\ stack'[Len(stack')] = g
    BY <1>1, <1>2
  <1>4. Living' = Living
    BY DEF Living
  <1>5. Allocator(stack', vm')
    BY <1>3, TopIs DEF Allocator
  <1> QED BY <1>3, <1>4, <1>5 DEF Guests, Lasting, Stands, Uses, Allocator

LEMMA GoesOnFollowing ==
  ASSUME Inv, Guests, stack # <<>>, NEW g, stack' = WithTop(g), Follows(Top, g),
         UNCHANGED <<context, vm>>
  PROVE  Guests'
  <1>1. /\ g.object = Top.object /\ g.event = Top.event /\ Waiting(g.host)
        /\ g.host.acting \in Living \cup {Nobody}
        /\ g.event = "malloc" => g.host.f \in AllowedInMalloc \cup {"none"}
    BY TopIs DEF Follows
  <1> QED BY <1>1, GoesOn

LEMMA HostGoesOn ==
  ASSUME Inv, Guests, InHost, NEW g \in Advanced(Top) \cup {Abandoned(Top)}, stack' = WithTop(g),
         UNCHANGED <<context, vm>>
  PROVE  Guests'
  <1>1. stack # <<>> /\ Top.host.steps # <<>>
    BY DEF InHost
  <1>2. IsFrame(Top) /\ Waiting(Top.host)
    BY <1>1, TopIs
  <1>3. Follows(Top, g)
    BY <1>1, <1>2, AdvancedFollows, AbandonedFollows
  <1> QED BY <1>1, <1>3, GoesOnFollowing

(* A guest call, by the embedder or for memory. *)
LEMMA GuestIsCalled ==
  ASSUME Inv, Guests, NEW o \in Living, NEW event, SaveContext(o, event),
         stack # <<>> => /\ InHost /\ Asks(Step)
                         /\ Step = "copy" => event = "malloc",
         Living' = Living, Lasting',
         event = "malloc" => vm'.restricted = AllowedInMalloc
  PROVE  Guests'
  <1> DEFINE g == Frame(o, event)
  <1>1. stack' = Append(stack, g) /\ g.object = o /\ g.event = event /\ g.host = NoHost
    BY DEF SaveContext, Frame
  <1> HIDE DEF g
  <1>2. ASSUME stack # <<>> PROVE WaitsBelow(stack[Len(stack)], g)
    <2>1. InHost /\ Asks(Step) /\ Top = stack[Len(stack)]
      BY <1>2, TopIs
    <2> QED BY <1>1, <1>2, <2>1, TopWaits DEF WaitsBelow
  <1>3. IsStack(stack) /\ Stands(stack) /\ Uses(stack, Living)
    BY DEF Inv, Nesting, Guests
  <1>4. LET t == Append(stack, g) IN Stands(t) /\ Uses(t, Living) /\ t[Len(t)] = g
    BY <1>1, <1>2, <1>3, CallBegins
  <1>5. Stands(stack') /\ Uses(stack', Living) /\ stack'[Len(stack')] = g
    BY <1>1, <1>4
  <1>6. Allocator(stack', vm')
    BY <1>1, <1>5 DEF Allocator
  <1> QED BY <1>5, <1>6 DEF Guests, Stands, Uses, Allocator

LEMMA EmbedderAsked ==
  ASSUME EmbedderRuns, stack # <<>>
  PROVE  InHost /\ Asks(Step) /\ Step # "copy"
  BY DEF EmbedderRuns, Asks, Asking

-----------------------------------------------------------------------------
LEMMA InitGuests == Init => Guests
  <1> SUFFICES ASSUME Init PROVE Guests
    OBVIOUS
  <1>1. stack = <<>> /\ Len(stack) = 0
    BY DEF Init
  <1>2. Lasting
    <2>1. "vm" \in Objects /\ "root" \in Objects
      BY DEF Objects
    <2> QED BY <2>1 DEF Init, Lasting
  <1> QED BY <1>1, <1>2 DEF Guests, Stands, Uses, Allocator

LEMMA OwnContextLives ==
  ASSUME Inv, Guests, stack # <<>>
  PROVE  contextOrEffectiveContext \in Living
  <1>1. CASE effective \in DOMAIN contexts
    <2>1. contexts[effective] \in Living
      BY <1>1 DEF Inv, Registered, Range
    <2>2. current \in Living
      <3>1. [current |-> current, effective |-> effective] = Seen(stack, Len(stack))
        BY DEF Inv, Nesting, Faithful
      <3>2. current = Top.object
        BY <3>1, TopIs DEF Seen
      <3> QED BY <3>2, TopIs
    <2> QED BY <2>1, <2>2 DEF contextOrEffectiveContext
  <1>2. CASE effective \notin DOMAIN contexts
    <2>1. [current |-> current, effective |-> effective] = Seen(stack, Len(stack))
      BY DEF Inv, Nesting, Faithful
    <2>2. current = Top.object
      BY <2>1, TopIs DEF Seen
    <2> QED BY <1>2, <2>2, TopIs DEF contextOrEffectiveContext
  <1> QED BY <1>1, <1>2

LEMMA RootLives == ASSUME Inv, Guests PROVE "root" \in Living /\ "vm" \in Living
  BY DEF Guests, Lasting, Living, Objects

LEMMA CallsHostGuests == ASSUME Inv, Guests, CallsHost PROVE Guests'
  <1>1. stack # <<>> /\ UNCHANGED <<context, vm>>
    BY DEF CallsHost
  <1>2. PICK call, frame : call \in AllCalls /\ MayCall(call) /\ frame \in Started(call)
                           /\ stack' = WithTop(frame)
    BY Zenon DEF CallsHost
  <1> DEFINE self == contextOrEffectiveContext
             acting == IF ~call.root \/ self = "vm" THEN self ELSE "root"
             host(bad) == [f |-> call.f, steps |-> call.steps, bad |-> bad, acting |-> acting]
             next(p, use) == Onward([Top EXCEPT !.host = host(Badly(p, use))])
  <1>3. PICK bad : frame \in Onward([Top EXCEPT !.host = host(bad)])
    <2>1. Started(call) =
              UNION {next(p, use) : p \in Pointers, use \in PointerUses(call.steps) \cup {"nothing"}}
      BY DEF Started
    <2> HIDE DEF next
    <2>2. PICK p, use : frame \in next(p, use)
      BY <1>2, <2>1
    <2> QED BY <2>2 DEF next
  <1>4. acting \in Living
    BY <1>1, OwnContextLives, RootLives
  <1> HIDE DEF acting
  <1> DEFINE h == host(bad)
             f == [Top EXCEPT !.host = h]
  <1>5. h = [f |-> h.f, acting |-> h.acting, bad |-> h.bad, steps |-> h.steps]
        /\ h.f = call.f /\ h.steps = call.steps /\ h.acting = acting
    OBVIOUS
  <1>6. frame \in Onward(f)
    BY <1>3
  <1> HIDE DEF h
  <1>7. Going(h)
    BY <1>2, <1>5, BeginsGoing
  <1>8. IsFrame(f) /\ f.host = h /\ f.object = Top.object /\ f.event = Top.event
    <2>1. IsFrame(Top)
      BY <1>1, TopIs
    <2> QED BY <2>1 DEF IsFrame
  <1> HIDE DEF f
  <1>9. Follows(f, frame)
    BY <1>6, <1>7, <1>8, OnwardFollows
  <1>10. Top.event = "malloc" => call.f \in AllowedInMalloc
    <2> SUFFICES ASSUME Top.event = "malloc" PROVE call.f \in AllowedInMalloc
      OBVIOUS
    <2>1. CASE EnforcesRestriction(engine)
      <3>1. engine = "v8" /\ vm.restricted = AllowedInMalloc
        BY <1>1, <2>1, TopIs DEF EnforcesRestriction
      <3>2. Runs(call)
        BY <1>2 DEF MayCall
      <3>3. AllowedInMalloc = AnyFunction \/ call.f \in AllowedInMalloc
        BY <3>1, <3>2 DEF Runs, HostFunctionRuns, V8HostCall
      <3>4. "log" \in AllowedInMalloc /\ "log" \notin AnyFunction
        BY DEF AllowedInMalloc, AnyFunction
      <3> QED BY <3>3, <3>4
    <2>2. CASE ~EnforcesRestriction(engine)
      BY <1>2, <2>2 DEF MayCall
    <2> QED BY <2>1, <2>2
  <1>11. /\ frame.object = Top.object /\ frame.event = Top.event /\ Waiting(frame.host)
         /\ frame.host.acting \in Living \cup {Nobody}
         /\ frame.event = "malloc" => frame.host.f \in AllowedInMalloc \cup {"none"}
    BY <1>4, <1>5, <1>8, <1>9, <1>10 DEF Follows
  <1> QED BY <1>1, <1>2, <1>11, GoesOn

LEMMA EndsGuests == ASSUME Inv, Guests, NEW trap \in BOOLEAN, Ends(trap) PROVE Guests'
  <1> DEFINE below == Front(stack)
             caller == Last(below)
  <1>1. stack # <<>> /\ UNCHANGED context
    BY DEF Ends
  <1>2. IsStack(stack) /\ Stands(stack) /\ Uses(stack, Living)
    BY DEF Inv, Nesting, Guests
  <1>3. /\ Stands(below) /\ Uses(below, Living)
        /\ below # <<>> => below[Len(below)].event # "malloc" /\ below[Len(below)].host.steps # <<>>
    BY <1>1, <1>2, CallEnds
  <1>4. IsStack(below)
    <2>1. Nested(stack)
      BY DEF Inv, Nesting, Faithful
    <2>2. Top.saved.current = stack[Len(stack)].saved.current
          /\ Top.saved.effective = stack[Len(stack)].saved.effective
      BY <1>1, TopIs
    <2> QED BY <1>1, <1>2, <2>1, TopEnds
  <1>5. Living' = Living /\ Lasting'
    BY <1>1 DEF Living, Guests, Lasting
  <1>6. ASSUME stack' = below PROVE Guests'
    <2>1. Stands(stack') /\ Uses(stack', Living) /\ Allocator(stack', vm')
      BY <1>3, <1>6 DEF Allocator
    <2> QED BY <1>5, <2>1 DEF Guests, Stands, Uses, Allocator
  <1>7. CASE Top.event # "malloc"
    <2>1. RestoreContext(below)
      BY <1>7 DEF Ends
    <2> QED BY <1>6, <2>1 DEF RestoreContext
  <1>8. CASE Top.event = "malloc"
    <2>1. PICK frame :
              /\ frame \in {caller} \cup Advanced(caller) \cup {Abandoned(caller)}
              /\ RestoreContext([below EXCEPT ![Len(below)] = frame])
      BY <1>8, Zenon DEF Ends
    <2>2. stack' = [below EXCEPT ![Len(below)] = frame]
      BY <2>1 DEF RestoreContext
    <2>3. CASE below = <<>>
      <3>1. stack' = below
        BY <2>2, <2>3
      <3> QED BY <1>6, <3>1
    <2>4. CASE below # <<>>
      <3>1. /\ caller = below[Len(below)] /\ IsFrame(caller) /\ Len(below) \in 1 .. Len(below)
        BY <1>4, <2>4, StackIs
      <3>2. /\ Waiting(caller.host) /\ caller.host.steps # <<>> /\ caller.event # "malloc"
            /\ caller.object \in Living /\ caller.host.acting \in Living \cup {Nobody}
        BY <1>3, <2>4, <3>1 DEF Stands, Uses
      <3> HIDE DEF below, caller
      <3>3. frame = caller \/ Follows(caller, frame)
        BY <2>1, <3>1, <3>2, AdvancedFollows, AbandonedFollows
      <3>4. /\ frame.object = caller.object /\ frame.event = caller.event /\ Waiting(frame.host)
            /\ frame.host.acting \in Living \cup {Nobody}
            /\ frame.event # "malloc"
        BY <3>2, <3>3 DEF Follows
      <3>5. LET t == [below EXCEPT ![Len(below)] = frame]
            IN Stands(t) /\ Uses(t, Living) /\ Len(t) = Len(below) /\ t[Len(t)] = frame /\ t # <<>>
        BY <1>3, <1>4, <2>4, <3>1, <3>4, TopFollows
      <3>6. Stands(stack') /\ Uses(stack', Living) /\ stack'[Len(stack')] = frame
        BY <2>2, <3>5
      <3>7. Allocator(stack', vm')
        BY <3>4, <3>6 DEF Allocator
      <3> QED BY <1>5, <3>6, <3>7 DEF Guests, Stands, Uses, Allocator
    <2> QED BY <2>3, <2>4
  <1> QED BY <1>7, <1>8

LEMMA SetsEffectiveGuests == ASSUME Inv, Guests, SetsEffective PROVE Guests'
  <1>1. InHost /\ stack # <<>> /\ Top.host.steps # <<>> /\ UNCHANGED <<context, vm>>
    BY DEF SetsEffective, InHost, HostSteps
  <1>2. PICK id \in DOMAIN contexts :
            \E frame \in Advanced([Top EXCEPT !.chosen = id]) : stack' = WithTop(frame)
    BY Zenon DEF SetsEffective, HostSteps
  <1> DEFINE top == [Top EXCEPT !.chosen = id]
  <1>3. PICK frame \in Advanced(top) : stack' = WithTop(frame)
    BY <1>2
  <1>4. id \in 0 .. IdSpace - 1
    BY IdsInSpace DEF Inv
  <1>5. IsFrame(Top) /\ Waiting(Top.host)
    BY <1>1, TopIs
  <1>6. IsFrame(top) /\ top.object = Top.object /\ top.event = Top.event /\ top.host = Top.host
    BY <1>4, <1>5 DEF IsFrame
  <1> HIDE DEF top
  <1>7. Follows(top, frame)
    BY <1>1, <1>3, <1>5, <1>6, AdvancedFollows
  <1>8. Follows(Top, frame)
    BY <1>6, <1>7 DEF Follows
  <1> QED BY <1>1, <1>3, <1>8, GoesOnFollowing

LEMMA AllocatesGuests == ASSUME Inv, Guests, Allocates PROVE Guests'
  <1>1. InHost /\ SaveContext("vm", "malloc") /\ context' = context
        /\ vm' = [vm EXCEPT !.restricted = AllowedInMalloc]
        /\ (Step = "copy" \/ Step = "ask anyway")
    BY DEF Allocates
  <1>2. Asks(Step)
    BY <1>1 DEF Asks, Asking
  <1>3. Living' = Living /\ Lasting'
    BY <1>1 DEF Living, Guests, Lasting
  <1>4. vm'.restricted = AllowedInMalloc
    BY <1>1 DEF Inv, Bounded
  <1> QED BY <1>1, <1>2, <1>3, <1>4, RootLives, GuestIsCalled

LEMMA AnswersCalloutGuests == ASSUME Inv, Guests, AnswersCallout PROVE Guests'
  <1>1. EmbedderRuns /\ SaveContext("root", "handle") /\ context' = context
    BY DEF AnswersCallout
  <1>2. Living' = Living /\ Lasting'
    BY <1>1 DEF Living, Guests, Lasting
  <1> QED BY <1>1, <1>2, RootLives, EmbedderAsked, GuestIsCalled

LEMMA CallsGuestGuests ==
  ASSUME Inv, Guests, NEW o \in Objects, NEW event \in DOMAIN Events, CallsGuest(o, event)
  PROVE  Guests'
  <1>1. /\ EmbedderRuns /\ SaveContext(o, IF event = "delete" THEN event ELSE "handle")
        /\ o \in Streams \cup {"root"} /\ context[o].stage = Events[event][1]
        /\ o = "root" => event = "handle"
        /\ context' = [context EXCEPT ![o].stage = Events[event][2]]
    BY DEF CallsGuest
  <1>2. Events[event][1] # "dead" /\ Events[event][2] # "dead"
    BY DEF Events
  <1>3. Events["handle"][2] = "created"
    BY DEF Events
  <1>4. Living' = Living /\ o \in Living
    BY <1>1, <1>2 DEF Living, Inv, Registered
  <1>5. Lasting'
    <2>1. o # "vm" /\ "vm" \in Objects /\ "root" \in Objects
      BY <1>1, HostCallsAssumption DEF Objects
    <2> QED BY <1>1, <1>3, <2>1 DEF Guests, Lasting, Inv, Registered
  <1>6. (IF event = "delete" THEN event ELSE "handle") # "malloc"
    OBVIOUS
  <1> DEFINE e == IF event = "delete" THEN event ELSE "handle"
  <1>7. SaveContext(o, e) /\ e # "malloc"
    BY <1>1, <1>6
  <1> HIDE DEF e
  <1> QED BY <1>1, <1>4, <1>5, <1>7, EmbedderAsked, GuestIsCalled

LEMMA MakesContextGuests ==
  ASSUME Inv, Guests, NEW s \in Streams, MakesContext(s)
  PROVE  Guests'
  <1>1. /\ UNCHANGED <<stack, vm>>
        /\ \E id : context' = [context EXCEPT ![s] = [id |-> id, stage |-> "new"]]
    BY Zenon DEF MakesContext
  <1>2. s # "vm" /\ s # "root"
    BY HostCallsAssumption
  <1>3. Living \subseteq Living'
    BY <1>1 DEF Living, Inv, Registered
  <1>4. Lasting'
    BY <1>1, <1>2 DEF Guests, Lasting, Inv, Registered
  <1>5. Uses(stack, Living')
    BY <1>3 DEF Guests, Uses
  <1> QED BY <1>1, <1>4, <1>5 DEF Guests, Stands, Uses, Allocator

(* A context that is destroyed is in no call, nor does a host function go on with it. *)
LEMMA DestroyedIsUnused ==
  ASSUME Inv, Guests, EmbedderRuns, NEW s \in Streams, ~AskedAbout(s),
         NEW k \in 1 .. Len(stack)
  PROVE  stack[k].host.acting \in {s} => stack[k].host.acting = Nobody
  <1> DEFINE h == stack[k].host
  <1>1. Len(stack) \in Nat /\ stack # <<>> /\ DOMAIN stack = 1 .. Len(stack)
    BY StackIs DEF Inv, Nesting
  <1>2. \A i \in Nat \ {0} : \A j \in 1 .. i : j # i => j \in 1 .. i - 1 /\ j + 1 \in 1 .. i
    OBVIOUS
  <1>3. Len(stack) \in Nat \ {0}
    BY <1>1, StackIs DEF Inv, Nesting
  <1>4. Waiting(h)
    BY DEF Guests, Stands
  <1>5. h.steps \in Seq(StepNames)
    BY <1>4 DEF Waiting, IsHost
  <1>6. h.steps # <<>> /\ h.steps[1] \in Asking
    <2>1. CASE k = Len(stack)
      <3>1. stack[k] = Top /\ InHost /\ Step # "copy"
        BY <1>1, <2>1, TopIs, EmbedderAsked
      <3>2. InHost /\ Asks(Step)
        BY <1>1, EmbedderAsked
      <3>3. Top.host.steps # <<>> /\ Step = Top.host.steps[1]
        BY <3>2, TopWaits
      <3> QED BY <3>1, <3>2, <3>3 DEF Asks
    <2>2. CASE k # Len(stack)
      <3>1. k \in 1 .. Len(stack) - 1 /\ k + 1 \in 1 .. Len(stack)
        BY <1>2, <1>3, <2>2
      <3>2. WaitsBelow(stack[k], stack[k + 1])
        BY <3>1 DEF Guests, Stands
      <3>3. stack[k + 1].event # "malloc"
        <4>1. CASE k + 1 = Len(stack)
          <5>1. InHost /\ Asks(Step)
            BY <1>1, EmbedderAsked
          <5> QED BY <1>1, <4>1, <5>1, TopIs, TopWaits
        <4>2. CASE k + 1 # Len(stack)
          <5>1. k + 1 \in 1 .. Len(stack) - 1
            BY <1>2, <1>3, <3>1, <4>2
          <5>2. WaitsBelow(stack[k + 1], stack[k + 1 + 1])
            BY <5>1 DEF Guests, Stands
          <5> QED BY <5>2 DEF WaitsBelow
        <4> QED BY <4>1, <4>2
      <3> QED BY <3>2, <3>3 DEF WaitsBelow, Asks
    <2> QED BY <2>1, <2>2
  <1> HIDE DEF h
  <1>7. Len(h.steps) \in Nat \ {0} /\ Head(h.steps) = h.steps[1]
    BY <1>5, <1>6
  <1>8. CASE Len(h.steps) = 1
    <2>1. h.acting = Nobody
      BY <1>4, <1>6, <1>8 DEF Waiting
    <2> QED BY <2>1 DEF h
  <1>9. CASE Len(h.steps) # 1
    <2> DEFINE m == Len(h.steps)
    <2>1. m \in Nat \ {0} /\ m # 1
      BY <1>7, <1>9
    <2> HIDE DEF m
    <2>2. m > 1
      BY <2>1
    <2>3. Len(h.steps) > 1
      BY <2>2 DEF m
    <2> QED BY <1>1, <1>6, <1>7, <2>3 DEF AskedAbout, h
  <1> QED BY <1>8, <1>9

LEMMA DestroysContextGuests ==
  ASSUME Inv, Guests, NEW s \in Streams, DestroysContext(s)
  PROVE  Guests'
  <1>1. /\ UNCHANGED <<stack, vm>> /\ EmbedderRuns /\ ~AskedAbout(s)
        /\ context' = [context EXCEPT ![s] = [id |-> 0, stage |-> "dead"]]
        /\ \A k \in DOMAIN stack : stack[k].object # s
    BY DEF DestroysContext
  <1>2. s # "vm" /\ s # "root"
    BY HostCallsAssumption
  <1>3. Living \ {s} \subseteq Living'
    BY <1>1 DEF Living, Inv, Registered
  <1>4. Lasting'
    BY <1>1, <1>2 DEF Guests, Lasting, Inv, Registered
  <1>5. DOMAIN stack = 1 .. Len(stack)
    BY StackIs DEF Inv, Nesting
  <1>6. Uses(stack, Living')
    <2> SUFFICES ASSUME NEW k \in 1 .. Len(stack)
                 PROVE  stack[k].object \in Living' /\ stack[k].host.acting \in Living' \cup {Nobody}
      BY DEF Uses
    <2>1. stack[k].object \in Living /\ stack[k].host.acting \in Living \cup {Nobody}
      BY DEF Guests, Uses
    <2>2. stack[k].object # s /\ (stack[k].host.acting \in {s} => stack[k].host.acting = Nobody)
      BY <1>1, <1>5, DestroyedIsUnused
    <2> QED BY <1>3, <2>1, <2>2
  <1> QED BY <1>1, <1>4, <1>6 DEF Guests, Stands, Uses, Allocator

LEMMA NextGuests == ASSUME Inv, Guests, [Next]_vars PROVE Guests'
  <1>1. CASE CallsHost
    BY <1>1, CallsHostGuests
  <1>2. CASE Restricted
    BY <1>2, EndsGuests DEF Restricted
  <1>3. ASSUME NEW trap \in BOOLEAN, Ends(trap) PROVE Guests'
    BY <1>3, EndsGuests
  <1>4. CASE SetsEffective
    BY <1>4, SetsEffectiveGuests
  <1>5. CASE CopiesDirectly
    <2>1. PICK frame \in Advanced(Top) \cup {Abandoned(Top)} : stack' = WithTop(frame)
      BY <1>5, Zenon DEF CopiesDirectly, HostSteps
    <2>2. InHost /\ UNCHANGED <<context, vm>>
      BY <1>5 DEF CopiesDirectly, HostSteps
    <2> QED BY <2>1, <2>2, HostGoesOn
  <1>6. CASE Allocates
    BY <1>6, AllocatesGuests
  <1>7. CASE MovesPairs
    <2>1. PICK frame \in Advanced(Top) : stack' = WithTop(frame)
      BY <1>7, Zenon DEF MovesPairs, HostSteps
    <2>2. InHost /\ UNCHANGED <<context, vm>>
      BY <1>7 DEF MovesPairs, HostSteps
    <2> QED BY <2>1, <2>2, HostGoesOn
  <1>8. CASE Answers
    <2>1. PICK frame \in Advanced(Top) \cup {Abandoned(Top)} : stack' = WithTop(frame)
      BY <1>8, Zenon DEF Answers
    <2>2. InHost /\ UNCHANGED <<context, vm>>
      BY <1>8 DEF Answers
    <2> QED BY <2>1, <2>2, HostGoesOn
  <1>9. CASE AnswersCallout
    BY <1>9, AnswersCalloutGuests
  <1>10. ASSUME NEW s \in Streams, MakesContext(s) \/ DestroysContext(s) PROVE Guests'
    BY <1>10, MakesContextGuests, DestroysContextGuests
  <1>11. ASSUME NEW o \in Objects, NEW event \in DOMAIN Events, CallsGuest(o, event) PROVE Guests'
    BY <1>11, CallsGuestGuests
  <1>12. CASE UNCHANGED vars
    <2>1. UNCHANGED <<stack, context, vm>>
      BY <1>12 DEF vars
    <2> QED BY <2>1 DEF Guests, Stands, Uses, Allocator, Lasting, Living
  <1> QED BY <1>1, <1>2, <1>3, <1>4, <1>5, <1>6, <1>7, <1>8, <1>9, <1>10, <1>11, <1>12 DEF Next

(* The context a host function has looked up is there until the function is over, and so are    *)
(* those of the guest calls under way, whatever contexts the embedder makes and destroys       *)
(* while it is asked (the context pointers of exports.cc, current_context_).               *)
THEOREM ActsOnLiving == Spec => []ActsOnLivingContext
  <1>1. Init => Inv /\ Guests
    BY InitInv, InitGuests
  <1>2. Inv /\ Guests /\ [Next]_vars => (Inv /\ Guests)'
    BY NextInv, NextGuests
  <1>3. Inv /\ Guests => ActsOnLivingContext
    BY GuestsActOnLiving
  <1> QED BY <1>1, <1>2, <1>3, PTL DEF Spec

-----------------------------------------------------------------------------
(* The callouts: one that starts is told of, since the frame it starts in still has to     *)
(* write the token and could do so before.                                            *)
LEMMA AnswersKnown ==
  ASSUME Inv, Guests, HttpCallsAreKnown, Answers
  PROVE  HttpCallsAreKnown'
  <1>1. stack # <<>> /\ Waiting(Top.host)
    <2>1. stack # <<>>
      BY DEF Answers, InHost
    <2> QED BY <2>1, TopIs
  <1>2. InHost /\ Step \in Asking
    BY DEF Answers
  <1>3. Top.host.f = "http_call" => (Top.host.bad # "write") = TRUE
    BY <1>1 DEF Waiting
  <1>4. CASE calls' = calls
    BY <1>4 DEF HttpCallsAreKnown
  <1>5. CASE calls' # calls
    <2> DEFINE c == [f |-> Top.host.f, told |-> Top.host.bad # "write"]
    <2>1. Top.host.f \in Callouts /\ calls' = Append(calls, c)
      BY <1>5 DEF Answers
    <2>2. c.told
      BY <1>3, <2>1 DEF Callouts
    <2>3. PICK S : calls \in Seq(S)
      BY DEF Inv, Bounded
    <2> HIDE DEF c
    <2>4. \A i \in DOMAIN calls' : (i \in DOMAIN calls /\ calls'[i] = calls[i]) \/ calls'[i] = c
      BY <2>1, <2>3
    <2>5. ASSUME NEW i \in DOMAIN calls' PROVE calls'[i].told
      BY <2>2, <2>4, <2>5 DEF HttpCallsAreKnown
    <2> QED BY <2>5 DEF HttpCallsAreKnown
  <1> QED BY <1>4, <1>5

LEMMA AnswersCalloutKnown ==
  ASSUME Inv, HttpCallsAreKnown, AnswersCallout
  PROVE  HttpCallsAreKnown'
  <1>1. PICK c \in DOMAIN calls : calls' = RemoveAt(calls, c)
    BY DEF AnswersCallout
  <1>2. PICK S : calls \in Seq(S)
    BY DEF Inv, Bounded
  <1>3. \A i \in DOMAIN calls' : \E j \in DOMAIN calls : calls'[i] = calls[j]
    <2> DEFINE n == Len(calls)
               a == SubSeq(calls, 1, c - 1)
               b == SubSeq(calls, c + 1, n)
    <2>1. calls' = a \o b
      BY <1>1 DEF RemoveAt
    <2>2. n \in Nat /\ c \in 1 .. n /\ DOMAIN calls = 1 .. n
      BY <1>2
    <2>3. /\ a \in Seq(S) /\ Len(a) = c - 1
          /\ \A i \in 1 .. c - 1 : a[i] = calls[i]
      BY <1>2, <2>2
    <2>4. /\ b \in Seq(S) /\ Len(b) = n - c
          /\ \A i \in 1 .. n - c : b[i] = calls[c + i]
      BY <1>2, <2>2
    <2> HIDE DEF a, b, n
    <2>5. DOMAIN calls' = 1 .. n - 1
      BY <2>1, <2>2, <2>3, <2>4
    <2>6. ASSUME NEW i \in 1 .. n - 1 PROVE \E j \in 1 .. n : calls'[i] = calls[j]
      <3>1. CASE i < c
        <4>1. calls'[i] = a[i]
          BY <2>1, <2>2, <2>3, <2>4, <3>1
        <4>2. i \in 1 .. c - 1 /\ i \in 1 .. n
          BY <2>2, <3>1
        <4> QED BY <2>3, <4>1, <4>2
      <3>2. CASE ~(i < c)
        <4>1. i \in Len(a) + 1 .. Len(a) + Len(b) /\ Len(a) \in Nat
          BY <2>2, <2>3, <2>4, <3>2
        <4>2. calls'[i] = b[i - Len(a)]
          BY <2>1, <2>3, <2>4, <4>1
        <4>3. calls'[i] = b[i - (c - 1)]
          BY <2>3, <4>2
        <4>4. i - (c - 1) \in 1 .. n - c /\ c + (i - (c - 1)) \in 1 .. n
          BY <2>2, <3>2
        <4> QED BY <2>4, <4>3, <4>4
      <3> QED BY <3>1, <3>2
    <2> QED BY <2>2, <2>5, <2>6
  <1> QED BY <1>3 DEF HttpCallsAreKnown

(* A callout that is under way is one that its guest was told of, however bad a pointer it        *)
(* passed and wherever it trapped since (http_call tries the token's memory first).         *)
THEOREM HttpCallsKnown == Spec => []HttpCallsAreKnown
  <1>1. Init => HttpCallsAreKnown
    BY DEF Init, HttpCallsAreKnown
  <1>2. ASSUME Inv, Guests, HttpCallsAreKnown, [Next]_vars PROVE HttpCallsAreKnown'
    <2>1. CASE Answers
      BY <1>2, <2>1, AnswersKnown
    <2>2. CASE AnswersCallout
      BY <1>2, <2>2, AnswersCalloutKnown
    <2>3. CASE ~Answers /\ ~AnswersCallout
      <3>1. calls' = calls
        <4>1. CASE CallsHost \/ SetsEffective \/ CopiesDirectly \/ Allocates \/ MovesPairs \/ UNCHANGED vars
          BY <4>1 DEF CallsHost, SetsEffective, CopiesDirectly, Allocates, MovesPairs, vars
        <4>2. ASSUME NEW trap \in BOOLEAN, Ends(trap) PROVE calls' = calls
          BY <4>2 DEF Ends
        <4>3. CASE Restricted
          BY <4>3 DEF Restricted, Ends
        <4>4. ASSUME NEW s \in Streams, MakesContext(s) \/ DestroysContext(s) PROVE calls' = calls
          BY <4>4 DEF MakesContext, DestroysContext
        <4>5. ASSUME NEW o \in Objects, NEW event \in DOMAIN Events, CallsGuest(o, event)
              PROVE  calls' = calls
          BY <4>5 DEF CallsGuest
        <4> QED BY <1>2, <2>3, <4>1, <4>2, <4>3, <4>4, <4>5 DEF Next
      <3> QED BY <1>2, <3>1 DEF HttpCallsAreKnown
    <2> QED BY <2>1, <2>2, <2>3
  <1>3. Init => Inv /\ Guests
    BY InitInv, InitGuests
  <1>4. Inv /\ Guests /\ [Next]_vars => (Inv /\ Guests)'
    BY NextInv, NextGuests
  <1>5. Inv /\ Guests /\ HttpCallsAreKnown /\ [Next]_vars => (Inv /\ Guests /\ HttpCallsAreKnown)'
    BY <1>2, <1>4
  <1> QED BY <1>1, <1>3, <1>5, PTL DEF Spec

-----------------------------------------------------------------------------
(* The contexts that a null plugin is to hold. *)
Created == {o \in Objects \ {"vm"} : context[o].stage = "created"}
Deleting(s) == {s[k].object : k \in {i \in 1 .. Len(s) : s[i].event = "delete"}}
Held == Created \cup Deleting(stack)
MapOf(held) == [id \in {context[o].id : o \in held} |->
                   IF id = context["root"].id THEN "root" ELSE "stream"]

(* A context is deleted once: while its onDelete runs, no other guest call of it begins. *)
DeletesOnce(s) ==
    /\ \A k \in 1 .. Len(s) : s[k].event = "delete" => context[s[k].object].stage = "deleted"
    /\ \A j \in 1 .. Len(s) : \A k \in 1 .. Len(s) :
          s[j].event = "delete" /\ s[k].event = "delete" /\ s[j].object = s[k].object => j = k

Plugged == engine = "null" /\ "stream" \in plugin.factories =>
               ~plugin.fell /\ plugin.map = MapOf(Held)
Null == DeletesOnce(stack) /\ (engine = "null" => ~vm.failed) /\ Plugged

SameCalls(s, t) ==
    /\ Len(t) = Len(s)
    /\ \A k \in 1 .. Len(s) : t[k].object = s[k].object /\ t[k].event = s[k].event

LEMMA SameCallsDelete ==
  ASSUME NEW s, NEW t, SameCalls(s, t)
  PROVE  Deleting(t) = Deleting(s) /\ (DeletesOnce(s) => DeletesOnce(t))
  <1>1. Deleting(t) = Deleting(s)
    BY DEF SameCalls, Deleting
  <1>2. ASSUME DeletesOnce(s) PROVE DeletesOnce(t)
    BY <1>2 DEF SameCalls, DeletesOnce
  <1> QED BY <1>1, <1>2

LEMMA CallDeletes ==
  ASSUME NEW s, IsStack(s), NEW g
  PROVE  LET t == Append(s, g)
         IN /\ Deleting(t) = Deleting(s) \cup (IF g.event = "delete" THEN {g.object} ELSE {})
            /\ Len(t) = Len(s) + 1 /\ t[Len(s) + 1] = g /\ \A k \in 1 .. Len(s) : t[k] = s[k]
  <1> DEFINE t == Append(s, g)
             n == Len(s)
  <1>1. PICK S : s \in Seq(S)
    BY DEF IsStack
  <1>2. /\ n \in Nat /\ Len(t) = n + 1 /\ t[n + 1] = g
        /\ \A k \in 1 .. n : t[k] = s[k]
    BY <1>1
  <1> HIDE DEF t, n
  <1>3. \A k : k \in 1 .. n + 1 <=> k \in 1 .. n \/ k = n + 1
    BY <1>2
  <1>4. Deleting(t) = {t[k].object : k \in {i \in 1 .. n + 1 : t[i].event = "delete"}}
    BY <1>2 DEF Deleting
  <1>5. Deleting(s) = {s[k].object : k \in {i \in 1 .. n : s[i].event = "delete"}}
    BY DEF Deleting, n
  <1>6. Deleting(t) = Deleting(s) \cup (IF g.event = "delete" THEN {g.object} ELSE {})
    BY <1>2, <1>3, <1>4, <1>5
  <1> QED BY <1>2, <1>6 DEF t, n

LEMMA EndDeletes ==
  ASSUME NEW s, IsStack(s), s # <<>>, DeletesOnce(s)
  PROVE  LET n == Len(s)
         IN /\ DeletesOnce(Front(s))
            /\ Deleting(Front(s)) =
                   Deleting(s) \ (IF s[n].event = "delete" THEN {s[n].object} ELSE {})
  <1> DEFINE t == Front(s)
             n == Len(s)
  <1>1. PICK S : s \in Seq(S)
    BY DEF IsStack
  <1>2. n \in Nat \ {0}
    BY <1>1
  <1>3. Len(t) = n - 1 /\ \A k \in 1 .. n - 1 : t[k] = s[k]
    BY <1>1, <1>2, FrontIs
  <1> HIDE DEF t, n
  <1>4. \A k : k \in 1 .. n <=> k \in 1 .. n - 1 \/ k = n
    BY <1>2
  <1>5. n \notin 1 .. n - 1
    BY <1>2
  <1>6. \A j \in 1 .. n : \A k \in 1 .. n :
          s[j].event = "delete" /\ s[k].event = "delete" /\ s[j].object = s[k].object => j = k
    BY DEF DeletesOnce, n
  <1>7. Deleting(t) = {t[k].object : k \in {i \in 1 .. n - 1 : t[i].event = "delete"}}
    BY <1>3 DEF Deleting
  <1>8. Deleting(s) = {s[k].object : k \in {i \in 1 .. n : s[i].event = "delete"}}
    BY DEF Deleting, n
  <1>9. Deleting(t) = Deleting(s) \ (IF s[n].event = "delete" THEN {s[n].object} ELSE {})
    <2>1. ASSUME NEW o \in Deleting(t)
          PROVE  o \in Deleting(s) /\ ~(s[n].event = "delete" /\ o = s[n].object)
      BY <1>3, <1>4, <1>5, <1>6, <1>7, <1>8
    <2>2. ASSUME NEW o \in Deleting(s), ~(s[n].event = "delete" /\ o = s[n].object)
          PROVE  o \in Deleting(t)
      BY <1>3, <1>4, <1>7, <1>8, <2>2
    <2> QED BY <2>1, <2>2
  <1>10. DeletesOnce(t)
    BY <1>3, <1>4 DEF DeletesOnce, n
  <1> QED BY <1>9, <1>10 DEF t, n

LEMMA HostChanges ==
  ASSUME NEW f, IsFrame(f), NEW h
  PROVE  LET g == [f EXCEPT !.host = h]
         IN IsFrame(g) /\ g.object = f.object /\ g.event = f.event
  BY DEF IsFrame

LEMMA SameCallAndEvent ==
  ASSUME NEW f, IsFrame(f), NEW g \in Onward(f) \cup Advanced(f) \cup {Abandoned(f)}
  PROVE  g.object = f.object /\ g.event = f.event
  <1> DEFINE next == [f EXCEPT !.host.steps = Tail(@)]
             k == [f.host EXCEPT !.steps = Tail(f.host.steps)]
  <1>1. next = [f EXCEPT !.host = k]
    OBVIOUS
  <1>2. IsFrame(next) /\ next.object = f.object /\ next.event = f.event
    BY <1>1, HostChanges
  <1> HIDE DEF next, k
  <1>3. \A e : g \in Onward(e) => \E h : g = [e EXCEPT !.host = h]
    BY Zenon DEF Onward, Abandoned
  <1>4. Advanced(f) = Onward(next)
    BY DEF Advanced, next
  <1>5. CASE g \in Onward(f)
    <2>1. PICK h : g = [f EXCEPT !.host = h]
      BY <1>3, <1>5
    <2> QED BY <2>1, HostChanges
  <1>6. CASE g \in Advanced(f)
    <2>1. PICK h : g = [next EXCEPT !.host = h]
      BY <1>3, <1>4, <1>6
    <2> QED BY <1>2, <2>1, HostChanges
  <1>7. CASE g = Abandoned(f)
    BY <1>7, HostChanges DEF Abandoned
  <1> QED BY <1>5, <1>6, <1>7

LEMMA TopStays ==
  ASSUME NEW s, IsStack(s), s # <<>>, NEW g,
         g.object = s[Len(s)].object, g.event = s[Len(s)].event
  PROVE  SameCalls(s, [s EXCEPT ![Len(s)] = g])
  <1> DEFINE t == [s EXCEPT ![Len(s)] = g]
             n == Len(s)
  <1>1. PICK S : s \in Seq(S)
    BY DEF IsStack
  <1>2. n \in Nat \ {0} /\ DOMAIN s = 1 .. n
    BY <1>1
  <1>3. t \in Seq(S \cup {g}) /\ Len(t) = n
    BY <1>1, <1>2
  <1>4. t[n] = g /\ \A k \in 1 .. n : k # n => t[k] = s[k]
    BY <1>2
  <1> HIDE DEF t
  <1> QED BY <1>3, <1>4 DEF SameCalls, t

LEMMA TopStaysInCall ==
  ASSUME Inv, Guests, stack # <<>>, NEW g, stack' = WithTop(g),
         g.object = Top.object, g.event = Top.event
  PROVE  SameCalls(stack, stack')
  <1>1. IsStack(stack) /\ Top = stack[Len(stack)]
    BY TopIs
  <1>2. stack' = [stack EXCEPT ![Len(stack)] = g]
    BY DEF WithTop
  <1>3. SameCalls(stack, [stack EXCEPT ![Len(stack)] = g])
    BY <1>1, TopStays
  <1> QED BY <1>2, <1>3

LEMMA BeginsInTop ==
  ASSUME NEW call, NEW frame \in Started(call)
  PROVE  \E h : frame \in Onward([Top EXCEPT !.host = h])
  <1> DEFINE self == contextOrEffectiveContext
             acting == IF ~call.root \/ self = "vm" THEN self ELSE "root"
             host(bad) == [f |-> call.f, steps |-> call.steps, bad |-> bad, acting |-> acting]
             next(p, use) == Onward([Top EXCEPT !.host = host(Badly(p, use))])
  <1>1. Started(call) =
            UNION {next(p, use) : p \in Pointers, use \in PointerUses(call.steps) \cup {"nothing"}}
    BY DEF Started
  <1> HIDE DEF next
  <1>2. PICK p, use : frame \in next(p, use)
    BY <1>1
  <1> QED BY <1>2 DEF next

LEMMA StaysInCall ==
  ASSUME Inv, Guests, CallsHost \/ SetsEffective \/ CopiesDirectly \/ MovesPairs \/ Answers
  PROVE  SameCalls(stack, stack') /\ UNCHANGED <<engine, context, vm, plugin>>
  <1>1. stack # <<>> /\ UNCHANGED <<engine, context, vm, plugin>>
    BY DEF CallsHost, SetsEffective, CopiesDirectly, MovesPairs, Answers, HostSteps, InHost
  <1>2. IsStack(stack) /\ IsFrame(Top) /\ Top = stack[Len(stack)]
    BY <1>1, TopIs
  <1>3. CASE CallsHost
    <2>1. PICK call, frame : frame \in Started(call) /\ stack' = WithTop(frame)
      BY <1>3, Zenon DEF CallsHost
    <2>2. PICK h : frame \in Onward([Top EXCEPT !.host = h])
      BY <2>1, BeginsInTop
    <2> DEFINE f == [Top EXCEPT !.host = h]
    <2>3. IsFrame(f) /\ f.object = Top.object /\ f.event = Top.event
      BY <1>2, HostChanges
    <2> HIDE DEF f
    <2>4. frame.object = f.object /\ frame.event = f.event
      BY <2>2, <2>3, SameCallAndEvent DEF f
    <2> QED BY <1>1, TopStaysInCall, <2>1, <2>3, <2>4
  <1>4. CASE SetsEffective
    <2>1. PICK id \in DOMAIN contexts :
              \E frame \in Advanced([Top EXCEPT !.chosen = id]) : stack' = WithTop(frame)
      BY <1>4, Zenon DEF SetsEffective, HostSteps
    <2> DEFINE f == [Top EXCEPT !.chosen = id]
    <2>2. PICK frame \in Advanced(f) : stack' = WithTop(frame)
      BY <2>1
    <2>3. id \in 0 .. IdSpace - 1
      BY IdsInSpace DEF Inv
    <2>4. IsFrame(f) /\ f.object = Top.object /\ f.event = Top.event
      BY <1>2, <2>3 DEF IsFrame
    <2> HIDE DEF f
    <2>5. frame.object = f.object /\ frame.event = f.event
      BY <2>2, <2>4, SameCallAndEvent
    <2> QED BY <1>1, TopStaysInCall, <2>2, <2>4, <2>5
  <1>5. CASE CopiesDirectly \/ MovesPairs \/ Answers
    <2>1. PICK frame \in Advanced(Top) \cup {Abandoned(Top)} : stack' = WithTop(frame)
      BY <1>5, Zenon DEF CopiesDirectly, MovesPairs, Answers, HostSteps
    <2>2. frame.object = Top.object /\ frame.event = Top.event
      BY <1>2, <2>1, SameCallAndEvent
    <2> QED BY <1>1, TopStaysInCall, <2>1, <2>2
  <1> QED BY <1>1, <1>3, <1>4, <1>5

LEMMA EndsLeaves ==
  ASSUME Inv, Guests, NEW trap \in BOOLEAN, Ends(trap)
  PROVE  SameCalls(Front(stack), stack')
  <1> DEFINE below == Front(stack)
             caller == Last(below)
  <1>1. stack # <<>>
    BY DEF Ends
  <1>2. IsStack(below)
    <2>1. Nested(stack)
      BY DEF Inv, Nesting, Faithful
    <2>2. Top.saved.current = stack[Len(stack)].saved.current
          /\ Top.saved.effective = stack[Len(stack)].saved.effective /\ IsStack(stack)
      BY <1>1, TopIs
    <2> QED BY <1>1, <2>1, <2>2, TopEnds
  <1>3. ASSUME stack' = below PROVE SameCalls(below, stack')
    BY <1>3 DEF SameCalls
  <1>4. CASE Top.event # "malloc"
    <2>1. RestoreContext(below)
      BY <1>4 DEF Ends
    <2> QED BY <1>3, <2>1 DEF RestoreContext
  <1>5. CASE Top.event = "malloc"
    <2>1. PICK frame :
              /\ frame \in {caller} \cup Advanced(caller) \cup {Abandoned(caller)}
              /\ RestoreContext([below EXCEPT ![Len(below)] = frame])
      BY <1>5, Zenon DEF Ends
    <2>2. stack' = [below EXCEPT ![Len(below)] = frame]
      BY <2>1 DEF RestoreContext
    <2>3. CASE below = <<>>
      <3>1. stack' = below
        BY <2>2, <2>3
      <3> QED BY <1>3, <3>1
    <2>4. CASE below # <<>>
      <3>1. caller = below[Len(below)] /\ IsFrame(caller)
        BY <1>2, <2>4, StackIs
      <3> HIDE DEF below, caller
      <3>2. frame.object = caller.object /\ frame.event = caller.event
        BY <2>1, <3>1, SameCallAndEvent
      <3>3. SameCalls(below, [below EXCEPT ![Len(below)] = frame])
        BY <1>2, <2>4, <3>1, <3>2, TopStays
      <3> QED BY <2>2, <3>3 DEF below
    <2> QED BY <2>3, <2>4
  <1> QED BY <1>4, <1>5

LEMMA FactoriesKept ==
  ASSUME NEW p, IsPlugin(p), NEW id, NEW k
  PROVE  /\ Falls(p).factories = p.factories /\ Put(p, id, k).factories = p.factories
         /\ GetContext(p, id).factories = p.factories
         /\ GetRootContext(p, id).factories = p.factories
         /\ GetContextBase(p, id).factories = p.factories
         /\ OnDelete(p, id).factories = p.factories
  <1>1. Falls(p).factories = p.factories /\ Put(p, id, k).factories = p.factories
    BY DEF IsPlugin, Falls, Put
  <1>2. /\ GetContext(p, id).factories = p.factories
        /\ GetRootContext(p, id).factories = p.factories
        /\ GetContextBase(p, id).factories = p.factories
    BY <1>1 DEF GetContext, GetRootContext, GetContextBase
  <1>3. OnDelete(p, id).factories = p.factories
    <2>1. ASSUME NEW q, IsPlugin(q), NEW m PROVE [q EXCEPT !.map = m].factories = q.factories
      BY <2>1 DEF IsPlugin
    <2>2. IsPlugin(GetContextBase(p, id))
      BY PluginKept
    <2> QED BY <1>2, <2>1, <2>2 DEF OnDelete
  <1> QED BY <1>1, <1>2, <1>3

LEMMA FactoriesKeptCreating ==
  ASSUME NEW p, IsPlugin(p), NEW id, NEW parent
  PROVE  OnCreate(p, id, parent).factories = p.factories
  <1> DEFINE q == IF parent \in DOMAIN p.map THEN p ELSE Put(p, parent, "empty")
  <1>1. IsPlugin(q) /\ q.factories = p.factories
    BY PluginKept, FactoriesKept
  <1>2. /\ Put(q, id, "stream").factories = p.factories
        /\ Falls(Put(q, id, "empty")).factories = p.factories
    <2> HIDE DEF q
    <2>1. IsPlugin(Put(q, id, "empty"))
      BY <1>1, PluginKept
    <2>2. Put(q, id, "stream").factories = p.factories /\ Put(q, id, "empty").factories = p.factories
      BY <1>1, FactoriesKept
    <2> QED BY <2>1, <2>2, FactoriesKept
  <1>3. EnsureContext(p, id, parent).factories = p.factories
    BY <1>2, FactoriesKept DEF EnsureContext
  <1>4. EnsureRootContext(p, id).factories = p.factories
    BY FactoriesKept DEF EnsureRootContext
  <1> QED BY <1>3, <1>4 DEF OnCreate

LEMMA HeldAre ==
  ASSUME Inv, Guests, Null
  PROVE  /\ "root" \in Held /\ context["root"].id = 1
         /\ Held \subseteq Living /\ "vm" \notin Held
         /\ Deleting(stack) \subseteq Objects \ {"vm", "root"}
         /\ \A o \in Living : \A p \in Living : context[o].id = context[p].id => o = p
         /\ \A o \in Deleting(stack) : context[o].stage = "deleted"
  <1>1. "root" \in Held /\ context["root"].id = 1
    BY HostCallsAssumption DEF Guests, Lasting, Held, Created, Objects
  <1>2. \A o \in Deleting(stack) : context[o].stage = "deleted"
    BY DEF Null, DeletesOnce, Deleting
  <1>3. \A o \in Deleting(stack) : o \in Living
    BY DEF Deleting, Guests, Uses
  <1>4. Deleting(stack) \subseteq Objects \ {"vm", "root"}
    BY <1>2, <1>3 DEF Guests, Lasting, Living
  <1>5. Held \subseteq Living /\ "vm" \notin Held
    BY <1>3, <1>4 DEF Held, Created, Living
  <1>6. \A o \in Living : \A p \in Living : context[o].id = context[p].id => o = p
    BY DEF Inv, Registered
  <1> QED BY <1>1, <1>2, <1>4, <1>5, <1>6

LEMMA NullMeans == ASSUME Inv, Guests, Null PROVE PluginFollowsHost
  <1>1. DOMAIN stack = 1 .. Len(stack)
    BY StackIs DEF Inv, Nesting
  <1> DEFINE held == {o \in Objects \ {"vm"} :
                        \/ context[o].stage = "created"
                        \/ \E k \in DOMAIN stack : stack[k].object = o /\ stack[k].event = "delete"}
  <1>2. held = Held
    <2>1. \A o : o \in Deleting(stack) <=>
              \E k \in DOMAIN stack : stack[k].object = o /\ stack[k].event = "delete"
      BY <1>1 DEF Deleting
    <2> QED BY <2>1, HeldAre DEF Held, Created
  <1> HIDE DEF held
  <1>3. engine = "null" /\ "stream" \in plugin.factories =>
            ~plugin.fell /\ plugin.map = MapOf(held)
    BY <1>2 DEF Null, Plugged
  <1> QED BY <1>3 DEF PluginFollowsHost, MapOf, held

(* What NullPlugin looks up of a context that it is to hold, it finds. *)
LEMMA Finds ==
  ASSUME Inv, Guests, Null, engine = "null", "stream" \in plugin.factories, NEW o \in Held
  PROVE  LET id == context[o].id
         IN /\ GetContextBase(plugin, id) = plugin
            /\ o = "root" => GetRootContext(plugin, id) = plugin
            /\ o # "root" => GetContext(plugin, id) = plugin
  <1> DEFINE id == context[o].id
             root == context["root"].id
  <1>1. plugin.map = [i \in {context[p].id : p \in Held} |-> IF i = root THEN "root" ELSE "stream"]
    BY DEF Null, Plugged, MapOf
  <1>2. id \in DOMAIN plugin.map /\ plugin.map[id] = IF id = root THEN "root" ELSE "stream"
    BY <1>1
  <1>3. id = root <=> o = "root"
    BY HeldAre
  <1> HIDE DEF id, root
  <1>4. IF o = "root" THEN Holds(plugin, id, "root") ELSE Holds(plugin, id, "stream")
    BY <1>2, <1>3 DEF Holds
  <1> QED BY <1>4 DEF GetContextBase, GetRootContext, GetContext, id

LEMMA StillPlugged ==
  ASSUME Inv, Guests, Null, UNCHANGED <<engine, plugin>>, Held' = Held,
         \A o \in Held : context'[o].id = context[o].id
  PROVE  Plugged'
  <1>1. "root" \in Held
    BY HeldAre
  <1>2. MapOf(Held)' = MapOf(Held)
    <2>1. {context'[o].id : o \in Held'} = {context[o].id : o \in Held}
      OBVIOUS
    <2>2. context'["root"].id = context["root"].id
      BY <1>1
    <2> QED BY <2>1, <2>2 DEF MapOf
  <1> QED BY <1>2 DEF Null, Plugged

LEMMA CreatedIs == Created' = {o \in Objects \ {"vm"} : context'[o].stage = "created"}
  BY DEF Created, Objects

LEMMA StaysInCallNull ==
  ASSUME Inv, Guests, Null, CallsHost \/ SetsEffective \/ CopiesDirectly \/ MovesPairs \/ Answers
  PROVE  Null'
  <1>1. SameCalls(stack, stack') /\ UNCHANGED <<engine, context, vm, plugin>>
    BY StaysInCall
  <1>2. Deleting(stack') = Deleting(stack) /\ DeletesOnce(stack')
    BY <1>1, SameCallsDelete DEF Null
  <1>3. Held' = Held
    BY <1>1, <1>2, CreatedIs DEF Held, Created, Deleting
  <1>4. Plugged'
    BY <1>1, <1>3, StillPlugged
  <1> QED BY <1>1, <1>2, <1>4 DEF Null, DeletesOnce

(* A guest call begins. *)
LEMMA Pushes ==
  ASSUME Inv, Guests, Null, NEW o, NEW event, SaveContext(o, event),
         \A p \in Deleting(stack) : context'[p].stage = context[p].stage,
         event = "delete" => o \notin Deleting(stack) /\ context'[o].stage = "deleted"
  PROVE  /\ DeletesOnce(stack)'
         /\ Deleting(stack)' = Deleting(stack) \cup (IF event = "delete" THEN {o} ELSE {})
  <1> DEFINE g == Frame(o, event)
             n == Len(stack)
             t == stack'
  <1>1. t = Append(stack, g) /\ g.object = o /\ g.event = event
    BY DEF SaveContext, Frame
  <1> HIDE DEF g
  <1>2. IsStack(stack) /\ n \in Nat
    BY StackIs DEF Inv, Nesting
  <1>3. /\ Deleting(t) = Deleting(stack) \cup (IF g.event = "delete" THEN {g.object} ELSE {})
        /\ Len(t) = n + 1 /\ t[n + 1] = g /\ \A k \in 1 .. n : t[k] = stack[k]
    BY <1>1, <1>2, CallDeletes
  <1> HIDE DEF n, t
  <1>4. \A k : k \in 1 .. n + 1 <=> k \in 1 .. n \/ k = n + 1
    BY <1>2
  <1>5. \A k \in 1 .. n : stack[k].event = "delete" => stack[k].object \in Deleting(stack)
    BY DEF Deleting, n
  <1>6. \A p \in Deleting(stack) : context'[p].stage = "deleted"
    BY HeldAre
  <1>7. \A j \in 1 .. n : \A k \in 1 .. n :
          stack[j].event = "delete" /\ stack[k].event = "delete"
              /\ stack[j].object = stack[k].object => j = k
    BY DEF Null, DeletesOnce, n
  <1>8. \A k \in 1 .. n + 1 : t[k].event = "delete" => context'[t[k].object].stage = "deleted"
    BY <1>1, <1>3, <1>4, <1>5, <1>6
  <1>9. \A j \in 1 .. n + 1 : \A k \in 1 .. n + 1 :
          t[j].event = "delete" /\ t[k].event = "delete" /\ t[j].object = t[k].object => j = k
    BY <1>1, <1>3, <1>4, <1>5, <1>7
  <1>10. DeletesOnce(stack)'
    BY <1>3, <1>8, <1>9 DEF DeletesOnce, t
  <1>11. Deleting(stack)' = Deleting(t)
    BY DEF Deleting, t
  <1> QED BY <1>1, <1>3, <1>10, <1>11

LEMMA AllocatesNull == ASSUME Inv, Guests, Null, Allocates PROVE Null'
  <1>1. /\ SaveContext("vm", "malloc") /\ UNCHANGED <<engine, context, plugin>>
        /\ vm' = [vm EXCEPT !.restricted = AllowedInMalloc]
    BY DEF Allocates
  <1>2. vm'.failed = vm.failed
    BY <1>1 DEF Inv, Bounded
  <1>3. DeletesOnce(stack)' /\ Deleting(stack)' = Deleting(stack)
    BY <1>1, Pushes
  <1>4. Held' = Held
    BY <1>1, <1>3 DEF Held, Created, Objects
  <1>5. Plugged'
    BY <1>1, <1>4, StillPlugged
  <1> QED BY <1>1, <1>2, <1>3, <1>5 DEF Null

LEMMA AnswersCalloutNull == ASSUME Inv, Guests, Null, AnswersCallout PROVE Null'
  <1>1. /\ SaveContext("root", "handle") /\ UNCHANGED <<engine, context, vm>>
        /\ plugin' = IF engine = "null" THEN GetRootContext(plugin, 1) ELSE plugin
    BY DEF AnswersCallout
  <1>2. DeletesOnce(stack)' /\ Deleting(stack)' = Deleting(stack)
    <2>1. SaveContext("root", "handle") /\ \A p \in Deleting(stack) : context'[p].stage = context[p].stage
      BY <1>1
    <2> QED BY <2>1, Pushes
  <1>3. Held' = Held
    BY <1>1, <1>2 DEF Held, Created, Objects
  <1>4. plugin'.factories = plugin.factories
    BY <1>1, FactoriesKept DEF Inv, Bounded
  <1>5. ASSUME engine = "null", "stream" \in plugin.factories PROVE plugin' = plugin
    BY <1>1, <1>5, HeldAre, Finds
  <1>6. Plugged'
    <2>1. CASE engine = "null" /\ "stream" \in plugin.factories
      BY <1>1, <1>3, <1>5, <2>1, StillPlugged
    <2>2. CASE ~(engine = "null" /\ "stream" \in plugin.factories)
      BY <1>1, <1>4, <2>2 DEF Plugged
    <2> QED BY <2>1, <2>2
  <1> QED BY <1>1, <1>2, <1>6 DEF Null

(* A context that is created is held from then on; the id that it has names no other. *)
LEMMA Creates ==
  ASSUME Inv, Guests, Null, engine = "null", "stream" \in plugin.factories,
         NEW o \in Living \ Held, o # "vm", engine' = engine,
         Held' = Held \cup {o}, \A p \in Living : context'[p].id = context[p].id,
         plugin' = OnCreate(plugin, context[o].id, 1)
  PROVE  Plugged'
  <1> DEFINE id == context[o].id
             root == context["root"].id
  <1>1. /\ "root" \in Held /\ root = 1 /\ Held \subseteq Living /\ o # "root"
        /\ \A p \in Held : context[p].id # id
    BY HeldAre
  <1>2. ~plugin.fell /\ plugin.map = MapOf(Held)
    BY DEF Null, Plugged
  <1>3. id \notin DOMAIN plugin.map /\ 1 \in DOMAIN plugin.map
    BY <1>1, <1>2 DEF MapOf
  <1>4. plugin' = Put(plugin, id, "stream")
    BY <1>3 DEF OnCreate, EnsureContext
  <1>5. IsPlugin(plugin)
    BY DEF Inv, Bounded
  <1>6. /\ plugin'.fell = plugin.fell
        /\ plugin'.map = [i \in DOMAIN plugin.map \cup {id} |-> IF i = id THEN "stream" ELSE plugin.map[i]]
    BY <1>4, <1>5 DEF Put, IsPlugin
  <1>7. DOMAIN plugin.map = {context[p].id : p \in Held}
        /\ \A i \in DOMAIN plugin.map : plugin.map[i] = IF i = root THEN "root" ELSE "stream"
    BY <1>2 DEF MapOf
  <1>8. id # root
    BY <1>1
  <1>9. {context'[p].id : p \in Held'} = {context[p].id : p \in Held} \cup {id}
    BY <1>1
  <1>10. context'["root"].id = root
    BY <1>1
  <1>11. MapOf(Held)' = [i \in {context[p].id : p \in Held} \cup {id} |->
                            IF i = root THEN "root" ELSE "stream"]
    BY <1>9, <1>10 DEF MapOf
  <1> HIDE DEF id, root
  <1>12. plugin'.map = MapOf(Held)'
    BY <1>6, <1>7, <1>8, <1>11
  <1> QED BY <1>2, <1>6, <1>12 DEF Plugged

LEMMA CallsGuestNull ==
  ASSUME Inv, Guests, Null, NEW o \in Objects, NEW event \in DOMAIN Events, CallsGuest(o, event)
  PROVE  Null'
  <1> DEFINE e == IF event = "delete" THEN event ELSE "handle"
  <1>1. /\ SaveContext(o, e) /\ UNCHANGED <<engine, vm>>
        /\ o \in Streams \cup {"root"} /\ context[o].stage = Events[event][1]
        /\ o = "root" => event = "handle"
        /\ context' = [context EXCEPT ![o].stage = Events[event][2]]
        /\ plugin' = IF engine = "null" THEN Dispatch(o, event) ELSE plugin
    BY DEF CallsGuest
  <1>2. event = "create" \/ event = "handle" \/ event = "delete"
    BY DEF Events
  <1>3. /\ Events["create"][1] = "new" /\ Events["create"][2] = "created"
        /\ Events["handle"][1] = "created" /\ Events["handle"][2] = "created"
        /\ Events["delete"][1] = "created" /\ Events["delete"][2] = "deleted"
    BY DEF Events
  <1>4. o # "vm" /\ o \in Living /\ o \notin Deleting(stack)
    <2>1. o # "vm"
      BY <1>1, HostCallsAssumption
    <2>2. context[o].stage = "new" \/ context[o].stage = "created"
      BY <1>1, <1>2, <1>3
    <2> QED BY <2>1, <2>2, HeldAre DEF Living
  <1>5. /\ \A p \in Objects : context'[p].id = context[p].id
        /\ \A p \in Objects \ {o} : context'[p].stage = context[p].stage
        /\ context'[o].stage = Events[event][2]
    BY <1>1 DEF Inv, Registered
  <1>6. \A p \in Deleting(stack) : p # o /\ p \in Objects
    BY <1>4, HeldAre
  <1>7. e = "delete" <=> event = "delete"
    OBVIOUS
  <1> HIDE DEF e
  <1>8. /\ DeletesOnce(stack)'
        /\ Deleting(stack)' = Deleting(stack) \cup (IF event = "delete" THEN {o} ELSE {})
    BY <1>1, <1>3, <1>4, <1>5, <1>6, <1>7, Pushes
  <1>9. Held' = Held \cup {o}
    <2>1. Created' \ {o} = Created \ {o}
      BY <1>5, CreatedIs DEF Created
    <2>2. event # "delete" => o \in Created'
      BY <1>2, <1>3, <1>4, <1>5, CreatedIs
    <2>3. event = "delete" => o \in Deleting(stack)'
      BY <1>8
    <2> QED BY <1>8, <2>1, <2>2, <2>3 DEF Held
  <1>10. o \in Held <=> event # "create"
    BY <1>1, <1>2, <1>3, <1>4 DEF Held, Created
  <1>11. plugin'.factories = plugin.factories
    BY <1>1, FactoriesKept, FactoriesKeptCreating DEF Inv, Bounded, Dispatch
  <1>12. CASE engine = "null" /\ "stream" \in plugin.factories
    <2>1. CASE event = "create"
      <3>1. o # "root" /\ o \in Living \ Held
        BY <1>1, <1>4, <1>10, <2>1
      <3>2. plugin' = OnCreate(plugin, context[o].id, 1)
        BY <1>1, <1>12, <2>1, <3>1 DEF Dispatch
      <3>3. \A p \in Living : context'[p].id = context[p].id
        BY <1>5 DEF Living
      <3>4. Plugged'
        BY <1>1, <1>4, <1>9, <1>12, <3>1, <3>2, <3>3, Creates
      <3> QED BY <1>1, <1>8, <3>4 DEF Null
    <2>2. CASE event # "create"
      <3>1. o \in Held /\ Held' = Held
        BY <1>9, <1>10, <2>2
      <3>2. plugin' = plugin
        BY <1>1, <1>2, <1>12, <2>2, <3>1, Finds DEF Dispatch
      <3>3. \A p \in Held : context'[p].id = context[p].id
        BY <1>5, HeldAre DEF Living
      <3>4. Plugged'
        BY <1>1, <3>1, <3>2, <3>3, StillPlugged
      <3> QED BY <1>1, <1>8, <3>4 DEF Null
    <2> QED BY <2>1, <2>2
  <1>13. CASE ~(engine = "null" /\ "stream" \in plugin.factories)
    <2>1. Plugged'
      BY <1>1, <1>11, <1>13 DEF Plugged
    <2> QED BY <1>1, <1>8, <2>1 DEF Null
  <1> QED BY <1>12, <1>13

LEMMA MakesContextNull ==
  ASSUME Inv, Guests, Null, NEW s \in Streams, MakesContext(s)
  PROVE  Null'
  <1>1. /\ UNCHANGED <<engine, stack, vm, plugin>> /\ context[s].stage = "dead"
        /\ \E id : context' = [context EXCEPT ![s] = [id |-> id, stage |-> "new"]]
    BY Zenon DEF MakesContext
  <1>2. /\ \A p \in Objects \ {s} : context'[p] = context[p]
        /\ s \in Objects /\ s # "vm" /\ context'[s].stage = "new"
    BY <1>1, HostCallsAssumption DEF Inv, Registered, Objects
  <1>3. s \notin Held
    BY <1>1, HeldAre DEF Living
  <1>4. Created' = Created
    BY <1>1, <1>2, CreatedIs DEF Created
  <1>5. Deleting(stack)' = Deleting(stack)
    BY <1>1 DEF Deleting
  <1>6. Held' = Held
    BY <1>4, <1>5 DEF Held
  <1>7. \A p \in Held : context'[p] = context[p]
    BY <1>2, <1>3, HeldAre DEF Living
  <1>8. Plugged'
    BY <1>1, <1>6, <1>7, StillPlugged
  <1>9. DeletesOnce(stack)'
    BY <1>1, <1>7 DEF Null, DeletesOnce, Held, Deleting
  <1> QED BY <1>1, <1>8, <1>9 DEF Null

(* Without a failed VM the context that is destroyed was never created, or its onDelete has    *)
(* ended; with one, the plugin is not that of a null VM.                                *)
LEMMA DestroysContextNull ==
  ASSUME Inv, Guests, Null, NEW s \in Streams, DestroysContext(s)
  PROVE  Null'
  <1>1. /\ UNCHANGED <<engine, stack, vm, plugin>> /\ context[s].stage # "dead"
        /\ context[s].stage \in {"new", "deleted"} \/ vm.failed
        /\ \A k \in DOMAIN stack : stack[k].object # s
        /\ context' = [context EXCEPT ![s] = [id |-> 0, stage |-> "dead"]]
    BY DEF DestroysContext
  <1>2. /\ \A p \in Objects \ {s} : context'[p] = context[p]
        /\ s \in Objects /\ s # "vm" /\ context'[s].stage = "dead"
    BY <1>1, HostCallsAssumption DEF Inv, Registered, Objects
  <1>3. Deleting(stack)' = Deleting(stack)
    BY <1>1 DEF Deleting
  <1>4. s \notin Deleting(stack)
    <2>1. DOMAIN stack = 1 .. Len(stack)
      BY StackIs DEF Inv, Nesting
    <2> QED BY <1>1, <2>1 DEF Deleting
  <1>5. \A p \in Deleting(stack) : context'[p] = context[p]
    BY <1>2, <1>4, HeldAre
  <1>6. DeletesOnce(stack)'
    BY <1>1, <1>5 DEF Null, DeletesOnce, Deleting
  <1>7. CASE engine = "null"
    <2>1. s \notin Created
      BY <1>1, <1>7 DEF Null, Created
    <2>2. Created' = Created
      BY <1>2, <2>1, CreatedIs DEF Created
    <2>3. Held' = Held
      BY <1>3, <2>2 DEF Held
    <2>4. \A p \in Held : context'[p] = context[p]
      BY <1>2, <1>4, <2>1, HeldAre DEF Held, Living
    <2>5. Plugged'
      BY <1>1, <2>3, <2>4, StillPlugged
    <2> QED BY <1>1, <1>6, <2>5 DEF Null
  <1>8. CASE engine # "null"
    BY <1>1, <1>6, <1>8 DEF Null, Plugged
  <1> QED BY <1>7, <1>8

(* NullPlugin lets go of a context when its onDelete ends. *)
LEMMA LetsGo ==
  ASSUME Inv, Guests, Null, engine = "null", "stream" \in plugin.factories,
         NEW o \in Deleting(stack), UNCHANGED <<engine, context>>, Held' = Held \ {o},
         plugin' = OnDelete(plugin, context[o].id)
  PROVE  Plugged'
  <1> DEFINE id == context[o].id
             root == context["root"].id
  <1>1. /\ "root" \in Held /\ Held \subseteq Living /\ o # "root" /\ o \in Held
        /\ \A p \in Held : context[p].id = id => p = o
    BY HeldAre DEF Held
  <1>2. ~plugin.fell /\ plugin.map = MapOf(Held)
    BY DEF Null, Plugged
  <1>3. GetContextBase(plugin, id) = plugin /\ IsPlugin(plugin)
    BY <1>1, Finds DEF Inv, Bounded
  <1>4. plugin'.fell = plugin.fell
        /\ plugin'.map = [i \in DOMAIN plugin.map \ {id} |-> plugin.map[i]]
    BY <1>3 DEF OnDelete, Restrict, IsPlugin
  <1>5. DOMAIN plugin.map = {context[p].id : p \in Held}
        /\ \A i \in DOMAIN plugin.map : plugin.map[i] = IF i = root THEN "root" ELSE "stream"
    BY <1>2 DEF MapOf
  <1>6. {context'[p].id : p \in Held'} = {context[p].id : p \in Held} \ {id}
    BY <1>1
  <1>7. MapOf(Held)' = [i \in {context[p].id : p \in Held} \ {id} |->
                            IF i = root THEN "root" ELSE "stream"]
    BY <1>6 DEF MapOf
  <1> HIDE DEF id, root
  <1>8. plugin'.map = MapOf(Held)'
    BY <1>4, <1>5, <1>7
  <1> QED BY <1>2, <1>4, <1>8 DEF Plugged

LEMMA EndsNull == ASSUME Inv, Guests, Null, NEW trap \in BOOLEAN, Ends(trap) PROVE Null'
  <1> DEFINE o == Top.object
  <1>1. /\ stack # <<>> /\ UNCHANGED <<engine, context>>
        /\ trap => "RuntimeError" \in EngineCall(engine)
        /\ plugin' = IF engine = "null" /\ Top.event = "delete"
                     THEN OnDelete(plugin, context[o].id) ELSE plugin
    BY DEF Ends
  <1>2. \E r : vm' = [failed |-> vm.failed \/ trap, restricted |-> r]
    BY DEF Ends
  <1>3. vm'.failed => vm.failed \/ trap
    <2>1. PICK r : vm' = [failed |-> vm.failed \/ trap, restricted |-> r]
      BY <1>2
    <2>2. vm'.failed = (vm.failed \/ trap)
      BY <2>1
    <2> QED BY <2>2
  <1>4. engine = "null" => ~vm'.failed
    <2>1. engine = "null" => ~trap
      BY <1>1 DEF EngineCall
    <2> QED BY <1>3, <2>1 DEF Null
  <1>5. IsStack(stack) /\ Top = stack[Len(stack)] /\ Len(stack) \in 1 .. Len(stack)
    BY <1>1, TopIs
  <1>6. SameCalls(Front(stack), stack')
    BY EndsLeaves
  <1> DEFINE gone == IF Top.event = "delete" THEN {o} ELSE {}
  <1>7. DeletesOnce(Front(stack)) /\ Deleting(Front(stack)) = Deleting(stack) \ gone
    BY <1>1, <1>5, EndDeletes DEF Null
  <1>8. DeletesOnce(stack') /\ Deleting(stack') = Deleting(stack) \ gone
    BY <1>6, <1>7, SameCallsDelete
  <1>9. DeletesOnce(stack)' /\ Deleting(stack)' = Deleting(stack) \ gone
    BY <1>1, <1>8 DEF DeletesOnce, Deleting
  <1>10. Created' = Created
    BY <1>1, CreatedIs DEF Created
  <1>11. Top.event = "delete" => o \in Deleting(stack) /\ o \notin Created
    <2>1. Top.event = "delete" => o \in Deleting(stack)
      BY <1>5 DEF Deleting
    <2> QED BY <2>1, HeldAre DEF Created
  <1>12. Held' = Held \ gone
    BY <1>9, <1>10, <1>11 DEF Held
  <1>13. plugin'.factories = plugin.factories
    BY <1>1, FactoriesKept DEF Inv, Bounded
  <1> HIDE DEF o
  <1>14. Plugged'
    <2>1. CASE engine = "null" /\ "stream" \in plugin.factories /\ Top.event = "delete"
      BY <1>1, <1>11, <1>12, <2>1, LetsGo
    <2>2. CASE engine = "null" /\ "stream" \in plugin.factories /\ Top.event # "delete"
      BY <1>1, <1>12, <2>2, StillPlugged
    <2>3. CASE ~(engine = "null" /\ "stream" \in plugin.factories)
      BY <1>1, <1>13, <2>3 DEF Plugged
    <2> QED BY <2>1, <2>2, <2>3
  <1> QED BY <1>1, <1>4, <1>9, <1>14 DEF Null

LEMMA InitNull == Init => Null
  <1> SUFFICES ASSUME Init PROVE Null
    OBVIOUS
  <1>1. stack = <<>> /\ Len(stack) = 0 /\ ~vm.failed
    BY DEF Init
  <1>2. DeletesOnce(stack) /\ Deleting(stack) = {}
    BY <1>1 DEF DeletesOnce, Deleting
  <1>3. context["root"].id = 1 /\ Created = {"root"}
    <2>1. "root" \in Objects \ {"vm"}
      BY DEF Objects
    <2>2. context = [o \in Objects |-> CASE o = "vm"   -> [id |-> 0, stage |-> "created"]
                                         [] o = "root" -> [id |-> 1, stage |-> "created"]
                                         [] OTHER      -> [id |-> 0, stage |-> "dead"]]
      BY DEF Init
    <2> QED BY <2>1, <2>2 DEF Created
  <1>4. Held = {"root"}
    BY <1>2, <1>3 DEF Held
  <1>5. MapOf(Held) = [id \in {1} |-> "root"]
    BY <1>3, <1>4 DEF MapOf
  <1>6. PICK fs : plugin = OnCreate(NewPlugin(fs), 1, 0)
    BY DEF Init
  <1>7. plugin = Put(NewPlugin(fs), 1, "root")
    <2>1. 1 \notin DOMAIN NewPlugin(fs).map
      BY DEF NewPlugin
    <2> QED BY <1>6, <2>1 DEF OnCreate, EnsureRootContext
  <1>8. ~plugin.fell /\ plugin.map = [id \in {1} |-> "root"]
    BY <1>7 DEF Put, NewPlugin
  <1> QED BY <1>1, <1>2, <1>5, <1>8 DEF Null, Plugged

LEMMA NextNull == ASSUME Inv, Guests, Null, [Next]_vars PROVE Null'
  <1>1. CASE CallsHost \/ SetsEffective \/ CopiesDirectly \/ MovesPairs \/ Answers
    BY <1>1, StaysInCallNull
  <1>2. CASE Restricted
    BY <1>2, EndsNull DEF Restricted
  <1>3. ASSUME NEW trap \in BOOLEAN, Ends(trap) PROVE Null'
    BY <1>3, EndsNull
  <1>4. CASE Allocates
    BY <1>4, AllocatesNull
  <1>5. CASE AnswersCallout
    BY <1>5, AnswersCalloutNull
  <1>6. ASSUME NEW s \in Streams, MakesContext(s) \/ DestroysContext(s) PROVE Null'
    BY <1>6, MakesContextNull, DestroysContextNull
  <1>7. ASSUME NEW o \in Objects, NEW event \in DOMAIN Events, CallsGuest(o, event) PROVE Null'
    BY <1>7, CallsGuestNull
  <1>8. CASE UNCHANGED vars
    <2>1. UNCHANGED <<stack, context, vm, engine, plugin>>
      BY <1>8 DEF vars
    <2>2. Held' = Held /\ DeletesOnce(stack)' /\ (engine' = "null" => ~vm'.failed)
      BY <2>1 DEF Held, Created, Deleting, DeletesOnce, Null
    <2>3. Plugged'
      BY <2>1, <2>2, StillPlugged
    <2> QED BY <2>2, <2>3 DEF Null
  <1> QED BY <1>1, <1>2, <1>3, <1>4, <1>5, <1>6, <1>7, <1>8 DEF Next

(* A null plugin with a factory for streams holds the contexts between their creation and the      *)
(* end of their onDelete, each as what it is, and never falls over one, however ids come round  *)
(* and calls nest (NullPlugin's context_map_ against contexts_).                           *)
THEOREM PluginFollows == Spec => []PluginFollowsHost
  <1>1. Init => Inv /\ Guests /\ Null
    BY InitInv, InitGuests, InitNull
  <1>2. Inv /\ Guests /\ Null /\ [Next]_vars => (Inv /\ Guests /\ Null)'
    BY NextInv, NextGuests, NextNull
  <1>3. Inv /\ Guests /\ Null => PluginFollowsHost
    BY NullMeans
  <1> QED BY <1>1, <1>2, <1>3, PTL DEF Spec
-----------------------------------------------------------------------------
(* Header maps.  First, what is so after no turn of a loop, and after each one if it was so   *)
(* before, is always so; and a recursion over the turns has a solution.              *)
LEMMA CountUp ==
  ASSUME NEW G \in SUBSET Nat, 0 \in G, \A n \in G : n + 1 \in G
  PROVE  G = Nat
  <1> DEFINE B == Nat \ G
  <1>1. ASSUME B # {} PROVE FALSE
    <2>1. PICK m \in B : \A k \in B : ~(k < m)
      BY <1>1, Least
    <2>2. m \in Nat /\ m # 0 /\ m - 1 \in Nat /\ m - 1 < m /\ m - 1 + 1 = m
      OBVIOUS
    <2>3. m - 1 \notin B
      BY <2>1, <2>2
    <2> QED BY <2>1, <2>2, <2>3
  <1> QED BY <1>1

(* f[i] is what there is after turn i of first .. last. *)
TurnsOf(f, base, step, first, last) ==
    \A i \in first .. last : f[i] = IF i = first THEN base ELSE step[<<f[i - 1], i>>]

LEMMA Turns ==
  ASSUME NEW X, NEW base \in X, NEW step \in [X \X Nat -> X], NEW first \in Nat, NEW last \in Nat
  PROVE  \E f \in [first .. last -> X] : TurnsOf(f, base, step, first, last)
  <1> DEFINE Solves(f, m) == \A i \in first .. m : f[i] = IF i = first THEN base ELSE step[<<f[i - 1], i>>]
             G == {m \in Nat : \E f \in [first .. m -> X] : Solves(f, m)}
  <1>1. 0 \in G
    <2> DEFINE f == [i \in first .. 0 |-> base]
    <2>1. \A i \in first .. 0 : i = first
      OBVIOUS
    <2>2. f \in [first .. 0 -> X] /\ Solves(f, 0)
      BY <2>1
    <2> QED BY <2>2
  <1>2. ASSUME NEW m \in G PROVE m + 1 \in G
    <2>1. PICK f \in [first .. m -> X] : Solves(f, m)
      OBVIOUS
    <2> DEFINE new == IF m + 1 <= first THEN base ELSE step[<<f[m], m + 1>>]
               g == [i \in first .. m + 1 |-> IF i = m + 1 THEN new ELSE f[i]]
    <2>2. new \in X
      <3>1. CASE m + 1 <= first
        BY <3>1
      <3>2. CASE ~(m + 1 <= first)
        <4>1. f[m] \in X /\ m + 1 \in Nat
          BY <3>2
        <4> QED BY <3>2, <4>1
      <3> QED BY <3>1, <3>2
    <2>3. g \in [first .. m + 1 -> X]
      <3>1. \A i \in first .. m + 1 : i # m + 1 => i \in first .. m
        OBVIOUS
      <3> HIDE DEF new
      <3> QED BY <2>2, <3>1
    <2>4. ASSUME NEW i \in first .. m + 1
          PROVE  g[i] = IF i = first THEN base ELSE step[<<g[i - 1], i>>]
      <3>1. CASE i = m + 1
        <4>1. g[i] = new /\ (m + 1 <= first <=> i = first)
          BY <3>1
        <4>2. i # first => m \in first .. m + 1 /\ m # m + 1 /\ i - 1 = m
          BY <3>1
        <4>3. i # first => g[i - 1] = f[m]
          BY <4>2
        <4> HIDE DEF g
        <4> QED BY <3>1, <4>1, <4>3
      <3>2. CASE i # m + 1
        <4>1. i \in first .. m /\ g[i] = f[i]
          BY <3>2
        <4>2. i # first => i - 1 \in first .. m + 1 /\ i - 1 # m + 1
          BY <4>1
        <4>3. i # first => g[i - 1] = f[i - 1]
          BY <4>2
        <4> HIDE DEF g
        <4> QED BY <2>1, <4>1, <4>3
      <3> QED BY <3>1, <3>2
    <2> HIDE DEF g
    <2>5. Solves(g, m + 1)
      BY <2>4
    <2> QED BY <2>3, <2>5
  <1>3. G = Nat
    <2>1. G \in SUBSET Nat
      OBVIOUS
    <2> HIDE DEF G
    <2> QED BY <1>1, <1>2, <2>1, CountUp
  <1> QED BY <1>3 DEF TurnsOf

(* What has been joined of a sequence of sequences after so many of them. *)
IsJoined(seqs, f) ==
    f = [i \in 1 .. Len(seqs) |-> IF i = 1 THEN seqs[i] ELSE f[i - 1] \o seqs[i]]
Joined(seqs) == CHOOSE f : IsJoined(seqs, f)

LEMMA JoinedTurns ==
  ASSUME NEW S, NEW seqs \in Seq(Seq(S))
  PROVE  \E g : /\ g \in [0 .. Len(seqs) -> Seq(S)]
                /\ g[0] = <<>>
                /\ \A i \in 1 .. Len(seqs) : g[i] = g[i - 1] \o seqs[i]
                /\ FlattenSeq(seqs) = g[Len(seqs)]
  <1> DEFINE n == Len(seqs)
  <1>1. n \in Nat /\ \A i \in 1 .. n : seqs[i] \in Seq(S)
    OBVIOUS
  <1>2. CASE n = 0
    <2> DEFINE g == [i \in 0 .. 0 |-> <<>>]
    <2>1. FlattenSeq(seqs) = seqs /\ seqs = <<>>
      BY <1>2 DEF FlattenSeq
    <2>2. g \in [0 .. 0 -> Seq(S)] /\ g[0] = <<>>
      OBVIOUS
    <2> HIDE DEF g
    <2>3. /\ g \in [0 .. n -> Seq(S)] /\ (\A i \in 1 .. n : g[i] = g[i - 1] \o seqs[i])
          /\ FlattenSeq(seqs) = g[n]
      BY <1>2, <2>1, <2>2
    <2> QED BY <2>2, <2>3
  <1>3. CASE n # 0
    <2> DEFINE step == [a \in Seq(S) \X Nat |-> IF a[2] \in 1 .. n THEN a[1] \o seqs[a[2]] ELSE <<>>]
    <2>1. seqs[1] \in Seq(S)
      BY <1>1, <1>3
    <2>2. step \in [Seq(S) \X Nat -> Seq(S)]
      BY <1>1
    <2>3. ASSUME NEW s \in Seq(S), NEW i \in 1 .. n PROVE step[<<s, i>>] = s \o seqs[i]
      <3> DEFINE a == <<s, i>>
      <3>1. a \in Seq(S) \X Nat /\ a[1] = s /\ a[2] = i
        BY <1>1
      <3> HIDE DEF a
      <3>2. step[a] = a[1] \o seqs[a[2]]
        BY <3>1
      <3>3. step[a] = s \o seqs[i]
        BY <3>1, <3>2
      <3> QED BY <3>3 DEF a
    <2> HIDE DEF step
    <2>20. \E f \in [1 .. n -> Seq(S)] :
             \A i \in 1 .. n : f[i] = IF i = 1 THEN seqs[1] ELSE step[<<f[i - 1], i>>]
      <3> DEFINE X == Seq(S)
                 base == seqs[1]
                 first == 1
      <3>1. n \in Nat /\ first \in Nat /\ base \in X /\ step \in [X \X Nat -> X]
        BY <1>1, <2>1, <2>2
      <3> HIDE DEF X, base, first, n
      <3>2. \E f \in [first .. n -> X] : TurnsOf(f, base, step, first, n)
        BY <3>1, Turns
      <3> QED BY <3>2 DEF X, base, first, TurnsOf
    <2>4. PICK f \in [1 .. n -> Seq(S)] :
             \A i \in 1 .. n : f[i] = IF i = 1 THEN seqs[1] ELSE step[<<f[i - 1], i>>]
      BY <2>20
    <2>5. \A i \in 1 .. n : i # 1 => i - 1 \in 1 .. n
      BY <1>1
    <2>6. \A i \in 1 .. n : f[i] = IF i = 1 THEN seqs[i] ELSE f[i - 1] \o seqs[i]
      <3> SUFFICES ASSUME NEW i \in 1 .. n, i # 1 PROVE f[i] = f[i - 1] \o seqs[i]
        BY <2>4
      <3>1. f[i - 1] \in Seq(S)
        BY <2>4, <2>5
      <3> QED BY <2>3, <2>4, <3>1
    <2>7. \E h : IsJoined(seqs, h)
      <3>1. f = [i \in 1 .. n |-> IF i = 1 THEN seqs[i] ELSE f[i - 1] \o seqs[i]]
        BY <2>6
      <3> QED BY <3>1 DEF IsJoined
    <2> DEFINE h == Joined(seqs)
    <2>8. IsJoined(seqs, h)
      BY <2>7 DEF Joined
    <2>9. FlattenSeq(seqs) = h[n]
      BY <1>3 DEF FlattenSeq, Joined, IsJoined
    <2> HIDE DEF h
    <2>10. \A i \in 1 .. n : h[i] = IF i = 1 THEN seqs[i] ELSE h[i - 1] \o seqs[i]
      BY <2>8 DEF IsJoined
    <2> DEFINE g == [i \in 0 .. n |-> IF i = 0 THEN <<>> ELSE h[i]]
    <2>11. ASSUME NEW i \in 1 .. n PROVE g[i] = g[i - 1] \o seqs[i]
      <3>1. g[i] = h[i] /\ i - 1 \in 0 .. n
        BY <1>1
      <3>2. CASE i = 1
        <4>1. g[i - 1] = <<>> /\ h[i] = seqs[i]
          BY <1>1, <2>10, <3>2
        <4>2. <<>> \o seqs[i] = seqs[i]
          BY <1>1
        <4> QED BY <3>1, <4>1, <4>2
      <3>3. CASE i # 1
        <4>1. g[i - 1] = h[i - 1]
          BY <1>1, <3>3
        <4> HIDE DEF g
        <4> QED BY <2>10, <3>1, <3>3, <4>1
      <3> QED BY <3>2, <3>3
    <2>12. g[0] = <<>> /\ g[n] = h[n]
      BY <1>1, <1>3
    <2>13. g \in [0 .. n -> Seq(S)]
      <3> DEFINE G == {i \in Nat : i <= n => g[i] \in Seq(S)}
      <3>1. 0 \in G
        BY <2>12
      <3>2. ASSUME NEW i \in G PROVE i + 1 \in G
        <4> SUFFICES ASSUME i + 1 <= n PROVE g[i + 1] \in Seq(S)
          OBVIOUS
        <4>1. g[i] \in Seq(S) /\ i + 1 \in 1 .. n /\ (i + 1) - 1 = i
          BY <1>1
        <4>2. g[i + 1] = g[(i + 1) - 1] \o seqs[i + 1]
          BY <2>11, <4>1
        <4> HIDE DEF g
        <4> QED BY <1>1, <4>1, <4>2
      <3>3. G = Nat
        <4>1. G \in SUBSET Nat
          OBVIOUS
        <4> HIDE DEF G
        <4> QED BY <3>1, <3>2, <4>1, CountUp
      <3>4. ASSUME NEW i \in 0 .. n PROVE g[i] \in Seq(S)
        <4>1. i \in Nat /\ i <= n
          BY <1>1
        <4>2. i \in G
          BY <3>3, <4>1
        <4> HIDE DEF g
        <4> QED BY <4>1, <4>2
      <3> QED BY <3>4
    <2> HIDE DEF g
    <2> QED BY <2>9, <2>11, <2>12, <2>13
  <1> QED BY <1>2, <1>3

LEMMA Joins ==
  ASSUME NEW s \in Seq(Int), NEW t \in Seq(Int)
  PROVE  /\ s \o t \in Seq(Int) /\ Len(s \o t) = Len(s) + Len(t)
         /\ \A j \in 1 .. Len(s) : (s \o t)[j] = s[j]
         /\ \A j \in 1 .. Len(t) : (s \o t)[Len(s) + j] = t[j]
  OBVIOUS

(* A name, a null byte, a value and a null byte. *)
LEMMA PieceFacts ==
  ASSUME NEW a \in Seq(Int), NEW v \in Seq(Int), NEW p, p = a \o << 0 >> \o v \o << 0 >>
  PROVE  /\ p \in Seq(Int) /\ Len(p) = Len(a) + Len(v) + 2
         /\ \A j \in 1 .. Len(a) : p[j] = a[j]
         /\ p[Len(a) + 1] = 0
         /\ \A j \in 1 .. Len(v) : p[Len(a) + 1 + j] = v[j]
         /\ p[Len(a) + Len(v) + 2] = 0
  <1> DEFINE z == << 0 >>
             az == a \o z
             azv == az \o v
  <1>1. z \in Seq(Int) /\ Len(z) = 1 /\ z[1] = 0 /\ Len(a) \in Nat /\ Len(v) \in Nat
    OBVIOUS
  <1>2. p = azv \o z
    OBVIOUS
  <1> HIDE DEF z
  <1>3. /\ az \in Seq(Int) /\ Len(az) = Len(a) + 1
        /\ (\A j \in 1 .. Len(a) : az[j] = a[j]) /\ az[Len(a) + 1] = 0
    <2>1. 1 \in 1 .. Len(z)
      BY <1>1
    <2>2. az = a \o z
      OBVIOUS
    <2> HIDE DEF az
    <2>3. /\ az \in Seq(Int) /\ Len(az) = Len(a) + Len(z)
          /\ \A j \in 1 .. Len(a) : az[j] = a[j]
          /\ \A j \in 1 .. Len(z) : az[Len(a) + j] = z[j]
      BY <1>1, <2>2, Joins, Zenon
    <2> QED BY <1>1, <2>1, <2>3
  <1> HIDE DEF az
  <1>4. /\ azv \in Seq(Int) /\ Len(azv) = Len(a) + 1 + Len(v)
        /\ (\A j \in 1 .. Len(a) + 1 : azv[j] = az[j])
        /\ (\A j \in 1 .. Len(v) : azv[Len(a) + 1 + j] = v[j])
    <2>1. azv = az \o v
      OBVIOUS
    <2> HIDE DEF azv
    <2>2. /\ azv \in Seq(Int) /\ Len(azv) = Len(az) + Len(v)
          /\ \A j \in 1 .. Len(az) : azv[j] = az[j]
          /\ \A j \in 1 .. Len(v) : azv[Len(az) + j] = v[j]
      BY <1>3, <2>1, Joins, Zenon
    <2> QED BY <1>1, <1>3, <2>2
  <1> HIDE DEF azv
  <1>5. /\ p \in Seq(Int) /\ Len(p) = Len(a) + Len(v) + 2
        /\ (\A j \in 1 .. Len(a) + 1 + Len(v) : p[j] = azv[j])
        /\ p[Len(a) + Len(v) + 2] = 0
    <2>1. 1 \in 1 .. Len(z) /\ (Len(a) + 1 + Len(v)) + 1 = Len(a) + Len(v) + 2
      BY <1>1
    <2> DEFINE q == azv \o z
    <2>2. p = q
      BY <1>2
    <2>3. /\ q \in Seq(Int) /\ Len(q) = Len(azv) + Len(z)
          /\ \A j \in 1 .. Len(azv) : q[j] = azv[j]
          /\ \A j \in 1 .. Len(z) : q[Len(azv) + j] = z[j]
      BY <1>1, <1>4, Joins, Zenon
    <2> HIDE DEF q
    <2>4. Len(azv) + 1 = Len(a) + Len(v) + 2
      BY <1>1, <1>4
    <2>5. q[Len(azv) + 1] = 0
      BY <1>1, <2>1, <2>3
    <2>6. Len(q) = Len(a) + Len(v) + 2 /\ Len(azv) = Len(a) + 1 + Len(v)
      BY <1>1, <1>4, <2>3
    <2> QED BY <2>2, <2>3, <2>4, <2>5, <2>6
  <1>6. ASSUME NEW j \in 1 .. Len(a) PROVE p[j] = a[j]
    <2>1. j \in 1 .. Len(a) + 1 + Len(v) /\ j \in 1 .. Len(a) + 1
      BY <1>1
    <2> QED BY <2>1, <1>3, <1>4, <1>5
  <1>7. p[Len(a) + 1] = 0
    <2>1. Len(a) + 1 \in 1 .. Len(a) + 1 + Len(v) /\ Len(a) + 1 \in 1 .. Len(a) + 1
      BY <1>1
    <2> QED BY <2>1, <1>3, <1>4, <1>5
  <1>8. ASSUME NEW j \in 1 .. Len(v) PROVE p[Len(a) + 1 + j] = v[j]
    <2>1. Len(a) + 1 + j \in 1 .. Len(a) + 1 + Len(v)
      BY <1>1
    <2> QED BY <2>1, <1>4, <1>5
  <1> QED BY <1>5, <1>6, <1>7, <1>8

(* The pieces of the text, and the text after so many of them. *)
Pieces(pairs) == [i \in DOMAIN pairs |-> pairs[i][1] \o << 0 >> \o pairs[i][2] \o << 0 >>]
Written(pairs, g) == /\ g \in [0 .. Len(pairs) -> Seq(Int)]
                     /\ g[0] = <<>>
                     /\ \A i \in 1 .. Len(pairs) : g[i] = g[i - 1] \o Pieces(pairs)[i]

LEMMA PairIs ==
  ASSUME NEW c \in HeaderMap, NEW i \in 1 .. Len(c)
  PROVE  /\ c[i] = <<c[i][1], c[i][2]>> /\ c[i][1] \in Seq(Int) /\ c[i][2] \in Seq(Int)
         /\ Pieces(c)[i] = c[i][1] \o << 0 >> \o c[i][2] \o << 0 >>
  <1>1. c[i] \in Seq(Int) \X Seq(Int) /\ i \in DOMAIN c
    BY DEF HeaderMap
  <1> QED BY <1>1 DEF Pieces

LEMMA PieceIs ==
  ASSUME NEW c \in HeaderMap, NEW i \in 1 .. Len(c)
  PROVE  LET a == c[i][1]
             v == c[i][2]
             p == Pieces(c)[i]
         IN /\ a \in Seq(Int) /\ v \in Seq(Int)
            /\ p \in Seq(Int) /\ Len(p) = Len(a) + Len(v) + 2
            /\ \A j \in 1 .. Len(a) : p[j] = a[j]
            /\ p[Len(a) + 1] = 0
            /\ \A j \in 1 .. Len(v) : p[Len(a) + 1 + j] = v[j]
            /\ p[Len(a) + Len(v) + 2] = 0
  <1> DEFINE a == c[i][1]
             v == c[i][2]
             p == Pieces(c)[i]
  <1>1. a \in Seq(Int) /\ v \in Seq(Int) /\ p = a \o << 0 >> \o v \o << 0 >>
    BY PairIs
  <1> HIDE DEF a, v, p
  <1>2. /\ p \in Seq(Int) /\ Len(p) = Len(a) + Len(v) + 2
        /\ \A j \in 1 .. Len(a) : p[j] = a[j]
        /\ p[Len(a) + 1] = 0
        /\ \A j \in 1 .. Len(v) : p[Len(a) + 1 + j] = v[j]
        /\ p[Len(a) + Len(v) + 2] = 0
    BY <1>1, PieceFacts
  <1> QED BY <1>1, <1>2 DEF a, v, p

LEMMA TextIs ==
  ASSUME NEW c \in HeaderMap
  PROVE  /\ Len(c) \in Nat
         /\ \E g : Written(c, g) /\ MarshalPairs(c).text = g[Len(c)]
  <1> DEFINE ps == Pieces(c)
  <1>1. Len(c) \in Nat /\ DOMAIN c = 1 .. Len(c)
    BY DEF HeaderMap
  <1>2. ASSUME NEW i \in 1 .. Len(c) PROVE ps[i] \in Seq(Int)
    BY PieceIs
  <1>3. ps = [i \in 1 .. Len(c) |-> ps[i]]
    BY <1>1 DEF Pieces
  <1> HIDE DEF ps
  <1>4. ps \in [1 .. Len(c) -> Seq(Int)]
    BY <1>2, <1>3
  <1>5. ps \in Seq(Seq(Int)) /\ Len(ps) = Len(c)
    BY <1>1, <1>4
  <1>6. MarshalPairs(c).text = FlattenSeq(ps)
    BY DEF MarshalPairs, Pieces, ps
  <1>7. \E g : /\ g \in [0 .. Len(ps) -> Seq(Int)] /\ g[0] = <<>>
               /\ \A i \in 1 .. Len(ps) : g[i] = g[i - 1] \o ps[i]
               /\ FlattenSeq(ps) = g[Len(ps)]
    BY <1>5, JoinedTurns
  <1> QED BY <1>1, <1>5, <1>6, <1>7 DEF Written, ps

(* What has been written is in the text for good. *)
Stays(c, g, i, m) ==
    /\ Len(g[i - 1]) \in Nat /\ g[m] \in Seq(Int)
    /\ Len(g[i]) = Len(g[i - 1]) + Len(Pieces(c)[i])
    /\ Len(g[i]) <= Len(g[m])
    /\ \A j \in 1 .. Len(Pieces(c)[i]) : g[m][Len(g[i - 1]) + j] = Pieces(c)[i][j]

LEMMA WrittenStays ==
  ASSUME NEW c \in HeaderMap, NEW g, Written(c, g), NEW i \in 1 .. Len(c), NEW m \in i .. Len(c)
  PROVE  Stays(c, g, i, m)
  <1> DEFINE p == Pieces(c)[i]
             n == Len(c)
             start == Len(g[i - 1])
  <1>1. n \in Nat
    BY TextIs
  <1>2. \A k \in 1 .. n : Pieces(c)[k] \in Seq(Int)
    BY PieceIs
  <1>3. \A k \in 0 .. n : g[k] \in Seq(Int)
    BY DEF Written
  <1>4. i - 1 \in 0 .. n /\ i \in 0 .. n /\ m \in 0 .. n /\ i \in Nat /\ m \in Nat
    BY <1>1
  <1>5. start \in Nat /\ p \in Seq(Int) /\ Len(p) \in Nat /\ g[i - 1] \in Seq(Int)
    BY <1>2, <1>3, <1>4
  <1> DEFINE Kept(t) == start + Len(p) <= Len(t) /\ \A j \in 1 .. Len(p) : t[start + j] = p[j]
             G == {k \in Nat : i + k <= n => Kept(g[i + k])}
  <1>6. g[i] = g[i - 1] \o p
    BY DEF Written
  <1> HIDE DEF p
  <1>7. Len(g[i]) = start + Len(p) /\ Kept(g[i])
    BY <1>5, <1>6
  <1>8. 0 \in G
    <2>1. i + 0 = i
      BY <1>4
    <2> HIDE DEF Kept
    <2> QED BY <1>7, <2>1
  <1>9. ASSUME NEW k \in G PROVE k + 1 \in G
    <2> SUFFICES ASSUME i + (k + 1) <= n PROVE Kept(g[i + (k + 1)])
      OBVIOUS
    <2> DEFINE t == g[i + k]
               q == Pieces(c)[i + (k + 1)]
    <2>1. i + k \in 0 .. n /\ i + (k + 1) \in 1 .. n /\ (i + (k + 1)) - 1 = i + k
      BY <1>1, <1>4
    <2>2. g[i + (k + 1)] = t \o q /\ t \in Seq(Int) /\ q \in Seq(Int)
      BY <1>2, <1>3, <2>1 DEF Written
    <2>3. Kept(t)
      BY <2>1
    <2> HIDE DEF t, q, start
    <2>4. Kept(t \o q)
      <3>1. Len(t \o q) = Len(t) + Len(q) /\ Len(q) \in Nat /\ Len(t) \in Nat
        BY <2>2
      <3>2. ASSUME NEW j \in 1 .. Len(p) PROVE (t \o q)[start + j] = p[j]
        <4>1. start + j \in 1 .. Len(t) /\ t[start + j] = p[j]
          BY <1>5, <2>3, <3>1
        <4>2. \A l \in 1 .. Len(t) : (t \o q)[l] = t[l]
          BY <2>2
        <4> QED BY <4>1, <4>2
      <3>3. start + Len(p) <= Len(t \o q)
        BY <1>5, <2>3, <3>1
      <3> QED BY <3>2, <3>3
    <2> HIDE DEF Kept
    <2> QED BY <2>2, <2>4
  <1>10. G = Nat
    <2>1. G \in SUBSET Nat
      OBVIOUS
    <2> HIDE DEF G
    <2> QED BY <1>8, <1>9, <2>1, CountUp
  <1>11. Kept(g[m])
    <2>1. m - i \in Nat /\ i + (m - i) = m /\ m <= n
      BY <1>1, <1>4
    <2>2. m - i \in G
      BY <1>10, <2>1
    <2> HIDE DEF Kept
    <2> QED BY <2>1, <2>2
  <1> QED BY <1>3, <1>4, <1>5, <1>7, <1>11 DEF p, Stays

(* Where toPairs looks for the names; what pairsSize has come to. *)
IsAt(b, f) ==
    f = [i \in 1 .. b.count + 1 |->
            IF i = 1 THEN 1 ELSE f[i - 1] + b.sizes[i - 1][1] + b.sizes[i - 1][2] + 2]
IsSize(pairs, f) ==
    f = [i \in 0 .. Len(pairs) |->
            IF i = 0 THEN 4 ELSE f[i - 1] + 8 + Len(pairs[i][1]) + 1 + Len(pairs[i][2]) + 1]
SizeAfter(pairs) == CHOOSE f : IsSize(pairs, f)

LEMMA LengthAfter ==
  ASSUME NEW c \in HeaderMap, NEW g, Written(c, g)
  PROVE  /\ Len(c) \in Nat
         /\ \A i \in 0 .. Len(c) : g[i] \in Seq(Int) /\ Len(g[i]) \in Nat
         /\ Len(g[0]) = 0
         /\ \A i \in 1 .. Len(c) : Len(g[i]) = Len(g[i - 1]) + Len(c[i][1]) + Len(c[i][2]) + 2
         /\ \A i \in 1 .. Len(c) : Len(c[i][1]) \in Nat /\ Len(c[i][2]) \in Nat
  <1>1. Len(c) \in Nat
    BY TextIs
  <1>2. \A i \in 0 .. Len(c) : g[i] \in Seq(Int)
    BY DEF Written
  <1>3. ASSUME NEW i \in 1 .. Len(c)
        PROVE  /\ Len(g[i]) = Len(g[i - 1]) + Len(c[i][1]) + Len(c[i][2]) + 2
               /\ Len(c[i][1]) \in Nat /\ Len(c[i][2]) \in Nat
    <2> DEFINE p == Pieces(c)[i]
               a == c[i][1]
               v == c[i][2]
    <2>1. p \in Seq(Int) /\ Len(p) = Len(a) + Len(v) + 2 /\ a \in Seq(Int) /\ v \in Seq(Int)
      BY PieceIs
    <2>2. i \in i .. Len(c)
      BY <1>1
    <2>3. Len(g[i]) = Len(g[i - 1]) + Len(p) /\ Len(g[i - 1]) \in Nat
      BY <2>2, WrittenStays DEF Stays
    <2> HIDE DEF p, a, v
    <2>4. Len(a) \in Nat /\ Len(v) \in Nat
      BY <2>1
    <2> DEFINE x == Len(g[i - 1])
               y == Len(g[i])
               la == Len(a)
               lv == Len(v)
    <2>5. y = x + Len(p) /\ Len(p) = la + lv + 2 /\ x \in Nat /\ la \in Nat /\ lv \in Nat
      BY <2>1, <2>3, <2>4
    <2> HIDE DEF x, y, la, lv
    <2>6. y = x + la + lv + 2
      BY <2>5
    <2> QED BY <2>4, <2>6 DEF a, v, x, y, la, lv
  <1>4. Len(g[0]) = 0
    BY DEF Written
  <1>5. \A i \in 0 .. Len(c) : Len(g[i]) \in Nat
    BY <1>2
  <1> QED BY <1>1, <1>2, <1>3, <1>4, <1>5

LEMMA StartsAt ==
  ASSUME NEW c \in HeaderMap, NEW g, Written(c, g), NEW b,
         b.count = Len(c),
         \A i \in 1 .. Len(c) : b.sizes[i][1] = Len(c[i][1]) /\ b.sizes[i][2] = Len(c[i][2])
  PROVE  \A i \in 1 .. Len(c) + 1 : Names(b)[i] = Len(g[i - 1]) + 1
  <1> DEFINE n == Len(c)
             f == [i \in 1 .. b.count + 1 |-> Len(g[i - 1]) + 1]
             Turn(h, i) == IF i = 1 THEN 1 ELSE h[i - 1] + b.sizes[i - 1][1] + b.sizes[i - 1][2] + 2
  <1>1. n \in Nat /\ b.count + 1 = n + 1
    BY LengthAfter
  <1>2. ASSUME NEW i \in 1 .. n + 1, i # 1
        PROVE  /\ i - 1 \in 1 .. n /\ i - 1 \in 1 .. n + 1
               /\ Len(g[i - 1]) + 1
                    = (Len(g[(i - 1) - 1]) + 1) + b.sizes[i - 1][1] + b.sizes[i - 1][2] + 2
    <2> DEFINE k == i - 1
    <2>1. k \in 1 .. n /\ k \in 1 .. n + 1 /\ k \in 0 .. n /\ k - 1 \in 0 .. n
      BY <1>1, <1>2
    <2> HIDE DEF k
    <2>2. /\ Len(g[k]) = Len(g[k - 1]) + Len(c[k][1]) + Len(c[k][2]) + 2
          /\ Len(g[k]) \in Nat /\ Len(g[k - 1]) \in Nat
          /\ Len(c[k][1]) \in Nat /\ Len(c[k][2]) \in Nat
      BY <2>1, LengthAfter
    <2>3. Len(g[k]) + 1 = (Len(g[k - 1]) + 1) + b.sizes[k][1] + b.sizes[k][2] + 2
      <3>1. Len(g[k]) + 1 = (Len(g[k - 1]) + 1) + Len(c[k][1]) + Len(c[k][2]) + 2
        <4> DEFINE x == Len(g[k - 1])
                   y == Len(g[k])
                   a == Len(c[k][1])
                   v == Len(c[k][2])
        <4>1. y = x + a + v + 2 /\ x \in Nat /\ a \in Nat /\ v \in Nat
          BY <2>2
        <4> HIDE DEF x, y, a, v
        <4>2. y + 1 = (x + 1) + a + v + 2
          BY <4>1
        <4> QED BY <4>2 DEF x, y, a, v
      <3> QED BY <2>1, <3>1
    <2> QED BY <2>1, <2>3 DEF k
  <1>3. Len(g[1 - 1]) + 1 = 1
    <2>1. Len(g[0]) = 0
      BY LengthAfter
    <2>2. 1 - 1 = 0
      OBVIOUS
    <2> QED BY <2>1, <2>2
  <1>4. \A i \in 1 .. n + 1 : f[i] = Turn(f, i)
    <2> SUFFICES ASSUME NEW i \in 1 .. n + 1 PROVE f[i] = Turn(f, i)
      OBVIOUS
    <2>1. f[i] = Len(g[i - 1]) + 1
      BY <1>1
    <2>2. CASE i = 1
      BY <1>3, <2>1, <2>2
    <2>3. CASE i # 1
      <3>1. f[i - 1] = Len(g[(i - 1) - 1]) + 1
        BY <1>1, <1>2, <2>3
      <3> HIDE DEF f
      <3> QED BY <1>2, <2>1, <2>3, <3>1
    <2> QED BY <2>2, <2>3
  <1>5. \E h : IsAt(b, h)
    <2>1. f = [i \in 1 .. b.count + 1 |-> Turn(f, i)]
      <3>1. f = [i \in 1 .. b.count + 1 |-> f[i]]
        OBVIOUS
      <3> HIDE DEF f, Turn
      <3> QED BY <1>1, <1>4, <3>1
    <2> HIDE DEF f
    <2> QED BY <2>1 DEF IsAt
  <1> DEFINE h == Names(b)
  <1>6. IsAt(b, h)
    BY <1>5 DEF Names, IsAt
  <1> HIDE DEF h
  <1>7. \A i \in 1 .. n + 1 : h[i] = Turn(h, i)
    BY <1>1, <1>6 DEF IsAt
  <1> DEFINE G == {k \in Nat : k <= n => h[k + 1] = Len(g[k]) + 1}
  <1>8. 0 \in G
    <2>1. 0 + 1 \in 1 .. n + 1 /\ 0 + 1 = 1 /\ 1 - 1 = 0
      BY <1>1
    <2> QED BY <1>3, <1>7, <2>1
  <1>9. ASSUME NEW k \in G PROVE k + 1 \in G
    <2> SUFFICES ASSUME k + 1 <= n PROVE h[(k + 1) + 1] = Len(g[k + 1]) + 1
      OBVIOUS
    <2> DEFINE i == (k + 1) + 1
    <2>1. i \in 1 .. n + 1 /\ i # 1 /\ i - 1 = k + 1 /\ (i - 1) - 1 = k
      BY <1>1
    <2>2. h[k + 1] = Len(g[k]) + 1
      BY <2>1
    <2>3. h[i] = h[i - 1] + b.sizes[i - 1][1] + b.sizes[i - 1][2] + 2
      BY <1>7, <2>1
    <2>4. Len(g[i - 1]) + 1 = (Len(g[(i - 1) - 1]) + 1) + b.sizes[i - 1][1] + b.sizes[i - 1][2] + 2
      BY <1>2, <2>1
    <2> HIDE DEF i
    <2> QED BY <2>1, <2>2, <2>3, <2>4 DEF i
  <1>10. G = Nat
    <2>1. G \in SUBSET Nat
      OBVIOUS
    <2> HIDE DEF G
    <2> QED BY <1>8, <1>9, <2>1, CountUp
  <1>11. ASSUME NEW i \in 1 .. n + 1 PROVE h[i] = Len(g[i - 1]) + 1
    <2>1. i - 1 \in Nat /\ i - 1 <= n /\ (i - 1) + 1 = i
      BY <1>1
    <2>2. i - 1 \in G
      BY <1>10, <2>1
    <2>3. h[(i - 1) + 1] = Len(g[i - 1]) + 1
      BY <2>1, <2>2
    <2> QED BY <2>1, <2>3
  <1> QED BY <1>11 DEF h

LEMMA SizeIs ==
  ASSUME NEW c \in HeaderMap, NEW g, Written(c, g)
  PROVE  PairsSize(c) = 4 + 8 * Len(c) + Len(g[Len(c)])
  <1> DEFINE n == Len(c)
             f == [i \in 0 .. n |-> 4 + 8 * i + Len(g[i])]
             Turn(h, i) == IF i = 0 THEN 4 ELSE h[i - 1] + 8 + Len(c[i][1]) + 1 + Len(c[i][2]) + 1
  <1>1. n \in Nat
    BY LengthAfter
  <1>2. ASSUME NEW i \in 1 .. n
        PROVE  /\ i - 1 \in 0 .. n
               /\ 4 + 8 * i + Len(g[i])
                    = (4 + 8 * (i - 1) + Len(g[i - 1])) + 8 + Len(c[i][1]) + 1 + Len(c[i][2]) + 1
    <2>1. i - 1 \in 0 .. n /\ i \in 0 .. n
      BY <1>1
    <2>2. /\ Len(g[i]) = Len(g[i - 1]) + Len(c[i][1]) + Len(c[i][2]) + 2
          /\ Len(g[i]) \in Nat /\ Len(g[i - 1]) \in Nat
          /\ Len(c[i][1]) \in Nat /\ Len(c[i][2]) \in Nat
      BY <2>1, LengthAfter
    <2>3. i \in Nat
      BY <1>1
    <2>4. 4 + 8 * i + Len(g[i])
            = (4 + 8 * (i - 1) + Len(g[i - 1])) + 8 + Len(c[i][1]) + 1 + Len(c[i][2]) + 1
      <3> DEFINE x == Len(g[i - 1])
                 y == Len(g[i])
                 a == Len(c[i][1])
                 v == Len(c[i][2])
      <3>1. y = x + a + v + 2 /\ x \in Nat /\ a \in Nat /\ v \in Nat
        BY <2>2
      <3> HIDE DEF x, y, a, v
      <3>2. 4 + 8 * i + y = (4 + 8 * (i - 1) + x) + 8 + a + 1 + v + 1
        BY <2>3, <3>1
      <3> QED BY <3>2 DEF x, y, a, v
    <2> QED BY <2>1, <2>4
  <1>3. 4 + 8 * 0 + Len(g[0]) = 4
    <2>1. Len(g[0]) = 0
      BY LengthAfter
    <2> QED BY <2>1
  <1>4. \A i \in 0 .. n : f[i] = Turn(f, i)
    <2> SUFFICES ASSUME NEW i \in 0 .. n PROVE f[i] = Turn(f, i)
      OBVIOUS
    <2>1. f[i] = 4 + 8 * i + Len(g[i])
      OBVIOUS
    <2>2. CASE i = 0
      BY <1>3, <2>1, <2>2
    <2>3. CASE i # 0
      <3>1. i \in 1 .. n
        BY <1>1, <2>3
      <3>2. f[i - 1] = 4 + 8 * (i - 1) + Len(g[i - 1])
        BY <1>2, <3>1
      <3> HIDE DEF f
      <3> QED BY <1>2, <2>1, <2>3, <3>1, <3>2
    <2> QED BY <2>2, <2>3
  <1>5. \E h : IsSize(c, h)
    <2>1. f = [i \in 0 .. n |-> Turn(f, i)]
      <3>1. f = [i \in 0 .. n |-> f[i]]
        OBVIOUS
      <3> HIDE DEF f, Turn
      <3> QED BY <1>4, <3>1
    <2> HIDE DEF f
    <2> QED BY <2>1 DEF IsSize
  <1> DEFINE h == SizeAfter(c)
  <1>6. IsSize(c, h)
    BY <1>5 DEF SizeAfter
  <1>20. PairsSize(c) = h[n]
    BY DEF PairsSize, SizeAfter, IsSize
  <1> HIDE DEF h
  <1>7. \A i \in 0 .. n : h[i] = Turn(h, i)
    BY <1>6 DEF IsSize
  <1> DEFINE Sum(k) == 4 + 8 * k + Len(g[k])
             G == {k \in Nat : k <= n => h[k] = Sum(k)}
  <1>8. 0 \in G
    <2>1. 0 \in 0 .. n
      BY <1>1
    <2>2. h[0] = Sum(0)
      BY <1>3, <1>7, <2>1
    <2> HIDE DEF Sum
    <2> QED BY <2>2
  <1>9. ASSUME NEW k \in G PROVE k + 1 \in G
    <2> HIDE DEF Sum
    <2> SUFFICES ASSUME k + 1 <= n PROVE h[k + 1] = Sum(k + 1)
      OBVIOUS
    <2> DEFINE i == k + 1
    <2>1. i \in 1 .. n /\ i \in 0 .. n /\ i # 0 /\ i - 1 = k /\ k <= n
      BY <1>1
    <2>2. h[k] = Sum(k)
      BY <2>1
    <2>3. h[i] = h[i - 1] + 8 + Len(c[i][1]) + 1 + Len(c[i][2]) + 1
      BY <1>7, <2>1
    <2> HIDE DEF i
    <2>4. h[i - 1] = Sum(i - 1)
      BY <2>1, <2>2
    <2>5. Sum(i) = Sum(i - 1) + 8 + Len(c[i][1]) + 1 + Len(c[i][2]) + 1
      BY <1>2, <2>1 DEF Sum
    <2>6. h[i] = Sum(i)
      BY <2>3, <2>4, <2>5
    <2> QED BY <2>6 DEF i
  <1>10. G = Nat
    <2>1. G \in SUBSET Nat
      OBVIOUS
    <2> HIDE DEF G
    <2> QED BY <1>8, <1>9, <2>1, CountUp
  <1>11. h[n] = Sum(n)
    <2> HIDE DEF n, Sum
    <2>1. n \in G /\ n <= n
      <3> HIDE DEF G
      <3> QED BY <1>1, <1>10
    <2> QED BY <2>1
  <1> QED BY <1>20, <1>11

LEMMA SubSeqIs ==
  ASSUME NEW t \in Seq(Int), NEW a \in Seq(Int), NEW s \in Nat, s + Len(a) <= Len(t),
         \A j \in 1 .. Len(a) : t[s + j] = a[j]
  PROVE  SubSeq(t, s + 1, s + Len(a)) = a
  <1> DEFINE u == SubSeq(t, s + 1, s + Len(a))
  <1>1. Len(a) \in Nat /\ Len(t) \in Nat
    OBVIOUS
  <1>2. \A j \in (s + 1) .. (s + Len(a)) : t[j] \in Int
    BY <1>1
  <1>3. u \in Seq(Int) /\ Len(u) = Len(a) /\ \A j \in 1 .. Len(a) : u[j] = t[s + j]
    <2> DEFINE first == s + 1
               last == s + Len(a)
               w == SubSeq(t, first, last)
    <2>1. first \in Int /\ last \in Int /\ last - first + 1 = Len(a) /\ (first <= last \/ Len(a) = 0)
      BY <1>1
    <2>2. ASSUME NEW j \in 1 .. Len(a) PROVE first + j - 1 = s + j
      BY <1>1
    <2>20. \A j \in first .. last : t[j] \in Int
      BY <1>2
    <2> HIDE DEF first, last
    <2>3. /\ w \in Seq(Int) /\ Len(w) = (IF first <= last THEN last - first + 1 ELSE 0)
          /\ \A j \in 1 .. last - first + 1 : w[j] = t[first + j - 1]
      BY <2>1, <2>20, SubSeqProperties
    <2> HIDE DEF w
    <2>4. w \in Seq(Int) /\ Len(w) = Len(a) /\ \A j \in 1 .. Len(a) : w[j] = t[s + j]
      <3>1. Len(w) = Len(a)
        BY <1>1, <2>1, <2>3
      <3> QED BY <2>1, <2>2, <2>3, <3>1
    <2> QED BY <2>4 DEF w, first, last
  <1> HIDE DEF u
  <1>4. u = a
    <2>1. DOMAIN u = 1 .. Len(u) /\ DOMAIN a = 1 .. Len(a)
      BY <1>3
    <2>2. u = [j \in DOMAIN u |-> u[j]] /\ a = [j \in DOMAIN a |-> a[j]]
      BY <1>3
    <2>3. DOMAIN u = DOMAIN a /\ \A j \in DOMAIN a : u[j] = a[j]
      BY <1>3, <2>1
    <2> QED BY <2>2, <2>3
  <1> QED BY <1>4 DEF u

(* What toPairs finds of the i-th pair. *)
Bears(b, c, g) ==
    /\ b.count = Len(c) /\ b.text = g[Len(c)]
    /\ \A i \in 1 .. Len(c) : b.sizes[i][1] = Len(c[i][1]) /\ b.sizes[i][2] = Len(c[i][2])

LEMMA PairReads ==
  ASSUME NEW c \in HeaderMap, NEW g, Written(c, g), NEW b, Bears(b, c, g), NEW i \in 1 .. Len(c)
  PROVE  /\ Names(b)[i + 1] - 1 <= Len(b.text)
         /\ b.text[(Names(b)[i] + b.sizes[i][1] + 1) - 1] = 0 /\ b.text[Names(b)[i + 1] - 1] = 0
         /\ SubSeq(b.text, Names(b)[i], (Names(b)[i] + b.sizes[i][1] + 1) - 2) = c[i][1]
         /\ SubSeq(b.text, Names(b)[i] + b.sizes[i][1] + 1, Names(b)[i + 1] - 2) = c[i][2]
  <1> DEFINE n == Len(c)
             text == b.text
             a == c[i][1]
             v == c[i][2]
             p == Pieces(c)[i]
             s == Len(g[i - 1])
             here == Names(b)[i]
             next == Names(b)[i + 1]
             size == b.sizes[i][1]
             value == here + size + 1
             la == Len(a)
             lv == Len(v)
             lp == Len(p)
  <1>1. n \in Nat /\ i \in 1 .. n + 1 /\ i + 1 \in 1 .. n + 1 /\ (i + 1) - 1 = i /\ n \in i .. n
    BY TextIs
  <1>2. a \in Seq(Int) /\ v \in Seq(Int) /\ lp = la + lv + 2
    BY PieceIs
  <1>3. /\ \A j \in 1 .. la : p[j] = a[j]
        /\ p[la + 1] = 0
        /\ \A j \in 1 .. lv : p[la + 1 + j] = v[j]
        /\ p[la + lv + 2] = 0
    BY PieceIs
  <1>4. /\ s \in Nat /\ g[n] \in Seq(Int) /\ Len(g[i]) = s + lp /\ Len(g[i]) <= Len(g[n])
        /\ \A j \in 1 .. lp : g[n][s + j] = p[j]
    <2>1. Len(c) \in i .. Len(c)
      BY <1>1
    <2>2. Stays(c, g, i, Len(c))
      BY <2>1, WrittenStays
    <2> QED BY <2>2 DEF Stays
  <1>5. here = s + 1 /\ next = Len(g[i]) + 1 /\ size = la
    <2>1. \A k \in 1 .. n + 1 : Names(b)[k] = Len(g[k - 1]) + 1
      BY StartsAt DEF Bears
    <2> QED BY <1>1, <2>1 DEF Bears
  <1>6. text = g[n] /\ la \in Nat /\ lv \in Nat
    BY <1>2 DEF Bears
  <1> HIDE DEF n, text, a, v, p, s, here, next, size, la, lv, lp
  <1>7. text \in Seq(Int) /\ Len(g[i]) <= Len(text) /\ Len(text) \in Nat
    BY <1>4, <1>6
  <1>8. \A j \in 1 .. lp : text[s + j] = p[j]
    BY <1>4, <1>6
  <1> DEFINE lt == Len(text)
             lg == Len(g[i])
  <1>9. /\ s \in Nat /\ la \in Nat /\ lv \in Nat /\ lt \in Nat
        /\ lp = la + lv + 2 /\ lg = s + lp /\ lg <= lt
        /\ here = s + 1 /\ next = lg + 1 /\ size = la
    BY <1>2, <1>4, <1>5, <1>6, <1>7
  <1> HIDE DEF lt, lg
  <1>10. /\ value = s + la + 2 /\ next = s + la + lv + 3 /\ next - 1 <= lt
         /\ value - 1 = s + (la + 1) /\ la + 1 \in 1 .. lp
         /\ next - 1 = s + (la + lv + 2) /\ la + lv + 2 \in 1 .. lp
         /\ value - 2 = s + la /\ s + la <= lt
    BY <1>9
  <1> HIDE DEF value
  <1>11. text[value - 1] = 0 /\ text[next - 1] = 0
    BY <1>3, <1>8, <1>10
  <1>12. SubSeq(text, here, value - 2) = a
    <2>1. ASSUME NEW j \in 1 .. la PROVE text[s + j] = a[j]
      <3>1. j \in 1 .. lp
        BY <1>9
      <3> QED BY <1>3, <1>8, <3>1
    <2>2. SubSeq(text, s + 1, s + la) = a
      BY <1>2, <1>7, <1>9, <1>10, <2>1, SubSeqIs DEF la, lt
    <2> QED BY <1>9, <1>10, <2>2
  <1>13. SubSeq(text, value, next - 2) = v
    <2> DEFINE r == s + la + 1
    <2>1. r \in Nat /\ r + lv <= lt /\ value = r + 1 /\ next - 2 = r + lv
      BY <1>9, <1>10
    <2>2. ASSUME NEW j \in 1 .. lv PROVE text[r + j] = v[j]
      <3>1. la + 1 + j \in 1 .. lp /\ r + j = s + (la + 1 + j)
        BY <1>9
      <3>2. text[s + (la + 1 + j)] = p[la + 1 + j] /\ p[la + 1 + j] = v[j]
        BY <1>3, <1>8, <3>1
      <3> HIDE DEF r
      <3> QED BY <3>1, <3>2
    <2> HIDE DEF r
    <2>3. SubSeq(text, r + 1, r + lv) = v
      BY <1>2, <1>7, <2>1, <2>2, SubSeqIs DEF lv, lt
    <2> QED BY <2>1, <2>3
  <1>14. /\ next - 1 <= Len(text) /\ text[value - 1] = 0 /\ text[next - 1] = 0
         /\ SubSeq(text, here, value - 2) = a /\ SubSeq(text, value, next - 2) = v
    BY <1>10, <1>11, <1>12, <1>13 DEF lt
  <1> QED BY <1>14 DEF text, a, v, here, next, size, value

LEMMA ToPairsIs ==
  ASSUME NEW b
  PROVE  ToPairs(b) =
           IF /\ BytesOf(b) <= MaxBytes /\ b.count <= MaxCount /\ Len(b.sizes) >= b.count
              /\ \A i \in 1 .. b.count :
                    /\ Names(b)[i + 1] - 1 <= Len(b.text)
                    /\ b.text[(Names(b)[i] + b.sizes[i][1] + 1) - 1] = 0 /\ b.text[Names(b)[i + 1] - 1] = 0
              /\ Names(b)[b.count + 1] - 1 = Len(b.text)
           THEN [i \in 1 .. b.count |->
                    <<SubSeq(b.text, Names(b)[i], (Names(b)[i] + b.sizes[i][1] + 1) - 2),
                      SubSeq(b.text, Names(b)[i] + b.sizes[i][1] + 1, Names(b)[i + 1] - 2)>>]
           ELSE <<>>
  BY DEF ToPairs

LEMMA Marshalled ==
  ASSUME NEW c \in HeaderMap
  PROVE  LET b == MarshalPairs(c)
         IN /\ b = [count |-> b.count, sizes |-> b.sizes, text |-> b.text]
            /\ b.count = Len(c) /\ Len(b.sizes) = Len(c)
            /\ \A i \in 1 .. Len(c) : b.sizes[i][1] = Len(c[i][1]) /\ b.sizes[i][2] = Len(c[i][2])
  <1> DEFINE sizes == [i \in DOMAIN c |-> <<Len(c[i][1]), Len(c[i][2])>>]
             text == FlattenSeq([i \in DOMAIN c |-> c[i][1] \o << 0 >> \o c[i][2] \o << 0 >>])
  <1>1. DOMAIN c = 1 .. Len(c) /\ Len(c) \in Nat
    BY DEF HeaderMap
  <1>2. sizes \in Seq(Nat \X Nat) /\ Len(sizes) = Len(c)
    <2>1. \A i \in 1 .. Len(c) : <<Len(c[i][1]), Len(c[i][2])>> \in Nat \X Nat
      BY PairIs
    <2>2. sizes \in [1 .. Len(c) -> Nat \X Nat]
      BY <1>1, <2>1
    <2> HIDE DEF sizes
    <2> QED BY <1>1, <2>2
  <1>3. \A i \in 1 .. Len(c) : sizes[i][1] = Len(c[i][1]) /\ sizes[i][2] = Len(c[i][2])
    BY <1>1
  <1>4. MarshalPairs(c) = [count |-> Len(c), sizes |-> sizes, text |-> text]
    BY DEF MarshalPairs
  <1> HIDE DEF sizes, text
  <1> QED BY <1>2, <1>3, <1>4

(* All of a map within the limits comes back, and none of another. *)
LEMMA RoundTrip ==
  ASSUME NEW c \in HeaderMap
  PROVE  ToPairs(MarshalPairs(c)) = IF WithinLimits(c) THEN c ELSE <<>>
  <1> DEFINE b == MarshalPairs(c)
             n == Len(c)
  <1>1. PICK g : Written(c, g) /\ b.text = g[n]
    BY TextIs
  <1>2. /\ b.count = n /\ Len(b.sizes) = n /\ n \in Nat
        /\ \A i \in 1 .. n : b.sizes[i][1] = Len(c[i][1]) /\ b.sizes[i][2] = Len(c[i][2])
    BY Marshalled, TextIs
  <1>3. BytesOf(b) = PairsSize(c)
    <2>1. PairsSize(c) = 4 + 8 * n + Len(g[n])
      BY <1>1, SizeIs
    <2> HIDE DEF b, n
    <2> QED BY <1>1, <1>2, <2>1 DEF BytesOf
  <1>4. Names(b)[n + 1] - 1 = Len(b.text)
    <2> HIDE DEF b
    <2>1. \A i \in 1 .. n + 1 : Names(b)[i] = Len(g[i - 1]) + 1
      BY <1>1, <1>2, StartsAt
    <2>2. n + 1 \in 1 .. n + 1 /\ (n + 1) - 1 = n
      BY <1>2
    <2>3. Len(g[n]) \in Nat
      BY <1>1, <1>2, LengthAfter
    <2>4. Names(b)[n + 1] = Len(g[n]) + 1
      BY <2>1, <2>2
    <2> QED BY <1>1, <2>3, <2>4
  <1>5. ASSUME NEW i \in 1 .. n
        PROVE  /\ Names(b)[i + 1] - 1 <= Len(b.text)
               /\ b.text[(Names(b)[i] + b.sizes[i][1] + 1) - 1] = 0 /\ b.text[Names(b)[i + 1] - 1] = 0
               /\ SubSeq(b.text, Names(b)[i], (Names(b)[i] + b.sizes[i][1] + 1) - 2) = c[i][1]
               /\ SubSeq(b.text, Names(b)[i] + b.sizes[i][1] + 1, Names(b)[i + 1] - 2) = c[i][2]
    <2> HIDE DEF b
    <2>1. Bears(b, c, g) /\ Written(c, g) /\ i \in 1 .. Len(c)
      BY <1>1, <1>2 DEF Bears
    <2> HIDE DEF n
    <2> QED BY <2>1, PairReads
  <1> DEFINE read == [i \in 1 .. n |->
                        <<SubSeq(b.text, Names(b)[i], (Names(b)[i] + b.sizes[i][1] + 1) - 2),
                          SubSeq(b.text, Names(b)[i] + b.sizes[i][1] + 1, Names(b)[i + 1] - 2)>>]
  <1>6. read = c
    <2>1. \A i \in 1 .. n : c[i] = <<c[i][1], c[i][2]>>
      BY PairIs
    <2>2. c = [i \in 1 .. n |-> c[i]]
      BY DEF HeaderMap
    <2> HIDE DEF b
    <2> QED BY <1>5, <2>1, <2>2
  <1>7. ToPairs(b) = IF BytesOf(b) <= MaxBytes /\ n <= MaxCount THEN read ELSE <<>>
    <2>1. n >= n
      BY <1>2
    <2> HIDE DEF b
    <2> QED BY <1>2, <1>4, <1>5, <2>1, ToPairsIs
  <1> HIDE DEF b
  <1>8. ToPairs(b) = IF WithinLimits(c) THEN c ELSE <<>>
    BY <1>3, <1>6, <1>7 DEF WithinLimits
  <1> QED BY <1>8 DEF b

(* Nothing comes of a text that goes on after the last pair. *)
LEMMA DamageShows ==
  ASSUME NEW c \in HeaderMap, NEW b, b = [MarshalPairs(c) EXCEPT !.text = Append(@, 0)]
  PROVE  ToPairs(b) = <<>>
  <1> DEFINE sent == MarshalPairs(c)
             n == Len(c)
  <1>1. PICK g : Written(c, g) /\ sent.text = g[n]
    BY TextIs
  <1>2. /\ sent = [count |-> sent.count, sizes |-> sent.sizes, text |-> sent.text]
        /\ sent.count = n /\ n \in Nat
        /\ \A i \in 1 .. n : sent.sizes[i][1] = Len(c[i][1]) /\ sent.sizes[i][2] = Len(c[i][2])
    BY Marshalled, TextIs
  <1> HIDE DEF sent
  <1>3. b.count = sent.count /\ b.sizes = sent.sizes /\ b.text = Append(sent.text, 0)
    BY <1>2 DEF sent
  <1>4. Len(g[n]) \in Nat /\ g[n] \in Seq(Int)
    <2>1. n \in 0 .. n
      BY <1>2
    <2> QED BY <1>1, <2>1, LengthAfter
  <1>5. Len(b.text) = Len(g[n]) + 1
    BY <1>1, <1>3, <1>4
  <1>6. Names(b)[n + 1] = Len(g[n]) + 1
    <2>1. \A i \in 1 .. n + 1 : Names(b)[i] = Len(g[i - 1]) + 1
      <3>1. /\ b.count = n
            /\ \A i \in 1 .. n : b.sizes[i][1] = Len(c[i][1]) /\ b.sizes[i][2] = Len(c[i][2])
        BY <1>2, <1>3
      <3> QED BY <1>1, <3>1, StartsAt
    <2>2. n + 1 \in 1 .. n + 1 /\ (n + 1) - 1 = n
      BY <1>2
    <2> QED BY <2>1, <2>2
  <1>7. Names(b)[b.count + 1] - 1 # Len(b.text)
    BY <1>2, <1>3, <1>4, <1>5, <1>6
  <1> QED BY <1>7, ToPairsIs, Zenon

(* The maps are maps, and what the host has is what was meant. *)
Maps == /\ headers = [host |-> headers.host, meant |-> headers.meant, copied |-> headers.copied]
        /\ headers.host \in HeaderMap /\ headers.meant \in HeaderMap /\ headers.copied \in HeaderMap
        /\ PairsSurvive

LEMMA EmptyMap == <<>> \in HeaderMap
  BY DEF HeaderMap

LEMMA InitMaps == Init => Maps
  <1> SUFFICES ASSUME Init PROVE Maps
    OBVIOUS
  <1>1. PICK m \in HeaderMaps \cup {NoMap} : headers = [host |-> m, meant |-> m, copied |-> <<>>]
    BY DEF Init
  <1>2. m \in HeaderMap
    <2>1. NoMap \in HeaderMap
      <3>1. <<-1>> \in Seq(Int) /\ <<>> \in Seq(Int)
        OBVIOUS
      <3> DEFINE pair == <<<<-1>>, <<>>>>
      <3>2. pair \in Seq(Int) \X Seq(Int)
        BY <3>1
      <3> HIDE DEF pair
      <3>3. <<pair>> \in Seq(Seq(Int) \X Seq(Int))
        BY <3>2
      <3> QED BY <3>3 DEF NoMap, HeaderMap, pair
    <2> QED BY <1>1, <2>1, HostCallsAssumption
  <1>3. /\ headers = [host |-> headers.host, meant |-> headers.meant, copied |-> headers.copied]
        /\ headers.host = m /\ headers.meant = m /\ headers.copied = <<>>
    BY <1>1
  <1> QED BY <1>2, <1>3, EmptyMap DEF Maps, PairsSurvive

LEMMA MovesPairsMaps == ASSUME Maps, MovesPairs PROVE Maps'
  <1> DEFINE c == headers.copied
             sent == MarshalPairs(c)
             back(whole) == IF whole THEN sent ELSE [sent EXCEPT !.text = Append(@, 0)]
  <1>1. PICK whole \in BOOLEAN :
           headers' = IF Top.host.f = "get_header_map_pairs"
                      THEN [headers EXCEPT !.copied = headers.host]
                      ELSE [headers EXCEPT !.host = ToPairs(back(whole)),
                                           !.meant = IF whole THEN headers.copied ELSE <<>>]
    BY DEF MovesPairs
  <1>2. c \in HeaderMap
    BY DEF Maps
  <1>3. whole => ToPairs(back(whole)) = IF WithinLimits(c) THEN c ELSE <<>>
    BY <1>2, RoundTrip
  <1>4. ~whole => ToPairs(back(whole)) = <<>>
    BY <1>2, DamageShows
  <1> DEFINE host == ToPairs(back(whole))
             meant == IF whole THEN c ELSE <<>>
  <1>5. /\ host \in HeaderMap /\ meant \in HeaderMap
        /\ WithinLimits(meant) => host = meant
    BY <1>2, <1>3, <1>4, EmptyMap
  <1> HIDE DEF host, meant, c
  <1>6. CASE Top.host.f = "get_header_map_pairs"
    <2>1. headers' = [host |-> headers.host, meant |-> headers.meant, copied |-> headers.host]
      BY <1>1, <1>6 DEF Maps
    <2> QED BY <2>1 DEF Maps, PairsSurvive
  <1>7. CASE Top.host.f # "get_header_map_pairs"
    <2>1. headers' = [host |-> host, meant |-> meant, copied |-> c]
      BY <1>1, <1>7 DEF Maps, host, meant, c
    <2> QED BY <1>2, <1>5, <2>1 DEF Maps, PairsSurvive
  <1> QED BY <1>6, <1>7

LEMMA NextMaps == Maps /\ [Next]_vars => Maps'
  <1> SUFFICES ASSUME Maps, [Next]_vars PROVE Maps'
    OBVIOUS
  <1>1. CASE MovesPairs
    BY <1>1, MovesPairsMaps
  <1>2. CASE UNCHANGED headers
    BY <1>2 DEF Maps, PairsSurvive
  <1>3. MovesPairs \/ UNCHANGED headers
    BY DEF Next, vars, CallsHost, Restricted, Ends, SetsEffective, CopiesDirectly, Allocates, Answers,
           AnswersCallout, MakesContext, DestroysContext, CallsGuest
  <1> QED BY <1>1, <1>2, <1>3

(* The header map that the host ends up with is the one that the guest meant: what it read and  *)
(* wrote back, for every map within the limits of the format, and nothing of a damaged buffer  *)
(* (marshalPairs against toPairs).                                                        *)
THEOREM PairsComeBack == Spec => []PairsSurvive
  <1>1. Init => Maps
    BY InitMaps
  <1>2. Maps /\ [Next]_vars => Maps'
    BY NextMaps
  <1>3. Maps => PairsSurvive
    BY DEF Maps
  <1> QED BY <1>1, <1>2, <1>3, PTL DEF Spec
=============================================================================
