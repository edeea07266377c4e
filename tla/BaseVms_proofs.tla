---------------------------- MODULE BaseVms_proofs ----------------------------
(***************************************************************************)
(* Proofs about the base VMs, for any number of threads, plugins, vm_keys     *)
(* and base VMs: a vm_key has one base VM at a time, and the host gets a      *)
(* handle only after a canary has succeeded (BaseVms.tla, the first part);    *)
(* and about the handles of their vm_ids, for any number of stores            *)
(* (VmIdHandle.tla, the second part): a handle leaves nothing behind; and,    *)
(* for a program that creates and destroys base VMs on one thread, the        *)
(* clean-up comes after the last.                                           *)
(***************************************************************************)
EXTENDS BaseVms, VmIdHandle, TLAPS

(* base_wasms knows every base VM that exists, and no others. *)
MapIsExact ==
    /\ \A b \in Bases : base[b] # None => baseWasms[base[b].key] = b
    /\ \A k \in VmKeys : baseWasms[k] \in Bases =>
          base[baseWasms[k]] # None /\ base[baseWasms[k]].key = k

(* What plugin_canary_cache_ says was accepted did pass. *)
AcceptedPassed ==
    \A b \in Bases, p \in Plugins :
        (base[b] # None /\ base[b].canary[p] = "accepted") => <<p, b>> \in passed

Inv == TypeOK /\ MapIsExact /\ AcceptedPassed /\ HandedOutWereCanaried

-----------------------------------------------------------------------------
LEMMA InitInv == Init => Inv
  <1> SUFFICES ASSUME Init PROVE Inv
    OBVIOUS
  <1>1. TypeOK
    BY MarksAssumption DEF Init, TypeOK, NoCall
  <1> QED BY <1>1, MarksAssumption
          DEF Init, Inv, MapIsExact, AcceptedPassed, HandedOutWereCanaried

(* A base VM that does not exist is used by nobody. *)
LEMMA Unused ==
  ASSUME TypeOK, NEW b \in Bases, base[b] = None
  PROVE  /\ \A t \in Callers : call[t].base # b
         /\ \A p \in Plugins : <<p, b>> \notin kept
  BY DEF TypeOK

(* Leave destroys the base VMs that nobody uses any more, and keeps the map      *)
(* exact, if no key was changed before.                                        *)
LEMMA LeaveStep ==
  ASSUME Inv,
         NEW calls \in [Callers -> [plugin : Plugins, base : Bases, at : {"check", "run"}]
                                     \cup {NoCall}],
         NEW hs \in SUBSET (Plugins \X Bases),
         NEW bases \in [Bases -> Base \cup {None}],
         \A b \in Bases : (bases[b] = None) <=> (base[b] = None),
         \A b \in Bases : base[b] # None => bases[b].key = base[b].key,
         \A b \in Bases : Used(b, calls, hs) => base[b] # None,
         Leave(calls, hs, bases)
  PROVE  /\ TypeOK' \/ passed' \notin SUBSET (Plugins \X Bases)
         /\ MapIsExact'
         /\ \A b \in Bases : base'[b] # None => base'[b] = bases[b] /\ base[b] # None
         /\ kept' = hs
  <1> DEFINE dead == {b \in Bases : base[b] # None /\ ~Used(b, calls, hs)}
  <1>1. /\ call' = calls /\ kept' = hs
        /\ base' = [b \in Bases |-> IF b \in dead THEN None ELSE bases[b]]
        /\ baseWasms' = [k \in VmKeys |-> IF baseWasms[k] \in dead THEN Expired ELSE baseWasms[k]]
    BY DEF Leave
  <1>2. \A b \in Bases : base'[b] # None => base'[b] = bases[b] /\ base[b] # None /\ b \notin dead
    BY <1>1
  <1>3. \A b \in Bases : (base'[b] # None) <=> Used(b, calls, hs)
    BY <1>1
  <1>4. baseWasms' \in [VmKeys -> Bases \cup {None, Expired}]
    BY <1>1 DEF Inv, TypeOK
  <1>5. base' \in [Bases -> Base \cup {None}]
    BY <1>1
  <1>6. TypeOK' \/ passed' \notin SUBSET (Plugins \X Bases)
    BY <1>1, <1>3, <1>4, <1>5 DEF TypeOK, Used
  <1>7. \A b \in Bases : base[b] # None => base[b].key \in VmKeys
    BY DEF Inv, TypeOK, Base
  <1>8. MapIsExact'
    <2>1. ASSUME NEW b \in Bases, base'[b] # None
          PROVE  baseWasms'[base'[b].key] = b
      <3>1. base'[b].key = base[b].key /\ base[b] # None /\ b \notin dead
        BY <1>2, <2>1
      <3>2. baseWasms[base[b].key] = b
        BY <3>1 DEF Inv, MapIsExact
      <3> QED BY <1>1, <1>7, <3>1, <3>2
    <2>2. ASSUME NEW k \in VmKeys, baseWasms'[k] \in Bases
          PROVE  base'[baseWasms'[k]] # None /\ base'[baseWasms'[k]].key = k
      <3>1. baseWasms'[k] = baseWasms[k] /\ baseWasms[k] \notin dead
        BY <1>1, <2>2, MarksAssumption
      <3>2. base[baseWasms[k]] # None /\ base[baseWasms[k]].key = k
        BY <2>2, <3>1 DEF Inv, MapIsExact
      <3> QED BY <1>1, <2>2, <3>1, <3>2
    <2> QED BY <2>1, <2>2 DEF MapIsExact
  <1> QED BY <1>1, <1>2, <1>6, <1>8

-----------------------------------------------------------------------------
LEMMA FoundStep ==
  ASSUME Inv, NEW t \in Callers, NEW p \in Plugins, CreateWasmFound(t, p)
  PROVE  Inv'
  <1> DEFINE b == baseWasms[VmKeyOf[p]]
  <1>1. /\ VmKeyOf[p] \in VmKeys /\ b \in Bases /\ base[b] # None
        /\ call' = [call EXCEPT ![t] = [plugin |-> p, base |-> b, at |-> "check"]]
        /\ UNCHANGED <<baseWasms, base, kept, passed>>
    BY PluginsAssumption DEF CreateWasmFound, StartCanary, Found, Idle, Inv, MapIsExact
  <1>2. call[t] = NoCall
    BY DEF CreateWasmFound, Idle, Inv, TypeOK
  <1> HIDE DEF b
  <1>3. call' \in [Callers -> [plugin : Plugins, base : Bases, at : {"check", "run"}] \cup {NoCall}]
    BY <1>1 DEF Inv, TypeOK
  <1>4. \A c \in Bases : (\E u \in Callers : call'[u].base = c)
                            <=> c = b \/ \E u \in Callers : call[u].base = c
    <2>1. call'[t].base = b /\ \A u \in Callers : u # t => call'[u] = call[u]
      BY <1>1 DEF Inv, TypeOK
    <2>2. call[t].base \notin Bases
      BY <1>2, MarksAssumption DEF NoCall
    <2> QED BY <2>1, <2>2
  <1>5. TypeOK'
    BY <1>1, <1>3, <1>4 DEF Inv, TypeOK
  <1> QED BY <1>1, <1>5 DEF Inv, MapIsExact, AcceptedPassed, HandedOutWereCanaried

LEMMA NewStep ==
  ASSUME Inv, NEW t \in Callers, NEW p \in Plugins, NEW b \in Bases, CreateWasmNew(t, p, b)
  PROVE  Inv'
  <1> DEFINE k == VmKeyOf[p]
  <1>1. /\ k \in VmKeys /\ baseWasms[k] \notin Bases /\ base[b] = None
        /\ base' = [base EXCEPT ![b] = NewBase(k)]
        /\ baseWasms' = [baseWasms EXCEPT ![k] = b]
        /\ call' = [call EXCEPT ![t] = [plugin |-> p, base |-> b, at |-> "check"]]
        /\ passed' = {pb \in passed : pb[2] # b}
        /\ UNCHANGED kept
    BY PluginsAssumption DEF CreateWasmNew, StartCanary, Found
  <1>2. call[t] = NoCall
    BY DEF CreateWasmNew, Idle, Inv, TypeOK
  <1> HIDE DEF k
  <1>3. NewBase(k) \in Base /\ NewBase(k) # None /\ NewBase(k).key = k
        /\ \A q \in Plugins : NewBase(k).canary[q] = "unknown"
    <2>1. NewBase(k) \in Base /\ NewBase(k).key = k
          /\ \A q \in Plugins : NewBase(k).canary[q] = "unknown"
      BY <1>1 DEF NewBase, Base, Verdicts
    <2>2. None \notin Base
      BY NoneAssumption
    <2> QED BY <2>1, <2>2
  <1>4. /\ call' \in [Callers -> [plugin : Plugins, base : Bases, at : {"check", "run"}] \cup {NoCall}]
        /\ base' \in [Bases -> Base \cup {None}]
        /\ baseWasms' \in [VmKeys -> Bases \cup {None, Expired}]
    BY <1>1, <1>3 DEF Inv, TypeOK
  <1>5. \A c \in Bases : (\E u \in Callers : call'[u].base = c)
                            <=> c = b \/ \E u \in Callers : call[u].base = c
    <2>1. call'[t].base = b /\ \A u \in Callers : u # t => call'[u] = call[u]
      BY <1>1 DEF Inv, TypeOK
    <2>2. call[t].base \notin Bases
      BY <1>2, MarksAssumption DEF NoCall
    <2> QED BY <2>1, <2>2
  <1>6. \A c \in Bases : base'[c] = IF c = b THEN NewBase(k) ELSE base[c]
    BY <1>1 DEF Inv, TypeOK
  <1>7. TypeOK'
    <2>1. \A c \in Bases : (base'[c] # None) <=> (\E u \in Callers : call'[u].base = c)
                                                   \/ (\E q \in Plugins : <<q, c>> \in kept)
      BY <1>3, <1>5, <1>6 DEF Inv, TypeOK
    <2>2. passed' \in SUBSET (Plugins \X Bases)
      BY <1>1 DEF Inv, TypeOK
    <2> QED BY <1>1, <1>4, <2>1, <2>2 DEF Inv, TypeOK
  <1>8. MapIsExact'
    <2>1. ASSUME NEW c \in Bases, base'[c] # None
          PROVE  baseWasms'[base'[c].key] = c
      <3>1. CASE c = b
        BY <1>1, <1>3, <1>6, <3>1 DEF Inv, TypeOK
      <3>2. CASE c # b
        <4>1. base'[c] = base[c] /\ baseWasms[base[c].key] = c
          BY <1>6, <2>1, <3>2 DEF Inv, MapIsExact
        <4>2. base[c].key # k
          BY <1>1, <4>1
        <4> QED BY <1>1, <4>1, <4>2 DEF Inv, TypeOK
      <3> QED BY <3>1, <3>2
    <2>2. ASSUME NEW j \in VmKeys, baseWasms'[j] \in Bases
          PROVE  base'[baseWasms'[j]] # None /\ base'[baseWasms'[j]].key = j
      <3>1. CASE j = k
        BY <1>1, <1>3, <1>6, <3>1 DEF Inv, TypeOK
      <3>2. CASE j # k
        <4>1. baseWasms'[j] = baseWasms[j] /\ baseWasms[j] \in Bases
          BY <1>1, <2>2, <3>2 DEF Inv, TypeOK
        <4>2. base[baseWasms[j]] # None /\ base[baseWasms[j]].key = j
          BY <4>1 DEF Inv, MapIsExact
        <4>3. baseWasms[j] # b
          BY <1>1, <4>2
        <4> QED BY <1>6, <4>1, <4>2, <4>3
      <3> QED BY <3>1, <3>2
    <2> QED BY <2>1, <2>2 DEF MapIsExact
  <1>9. AcceptedPassed'
    <2> SUFFICES ASSUME NEW c \in Bases, NEW q \in Plugins, base'[c] # None,
                        base'[c].canary[q] = "accepted"
                 PROVE  <<q, c>> \in passed'
      BY DEF AcceptedPassed
    <2>1. c # b
      BY <1>3, <1>6
    <2> QED BY <1>1, <1>6, <2>1 DEF Inv, AcceptedPassed
  <1>10. HandedOutWereCanaried'
    <2>1. \A pb \in kept : pb \in Plugins \X Bases /\ pb \in passed
      BY DEF Inv, TypeOK, HandedOutWereCanaried
    <2>2. \A pb \in kept : pb[2] # b
      BY <1>1, <2>1, Unused DEF Inv
    <2> QED BY <1>1, <2>1, <2>2 DEF HandedOutWereCanaried
  <1> QED BY <1>7, <1>8, <1>9, <1>10 DEF Inv

LEMMA FailsStep ==
  ASSUME Inv, NEW t \in Callers, NEW p \in Plugins, CreateWasmFails(t, p)
  PROVE  Inv'
  <1> DEFINE k == VmKeyOf[p]
  <1>1. /\ k \in VmKeys /\ baseWasms[k] \notin Bases
        /\ baseWasms' = [baseWasms EXCEPT ![k] = None]
        /\ UNCHANGED <<base, call, kept, passed>>
    BY PluginsAssumption DEF CreateWasmFails, Found
  <1> HIDE DEF k
  <1>2. TypeOK'
    BY <1>1 DEF Inv, TypeOK
  <1>3. \A j \in VmKeys : baseWasms'[j] = IF j = k THEN None ELSE baseWasms[j]
    BY <1>1 DEF Inv, TypeOK
  <1>4. MapIsExact'
    <2>1. \A b \in Bases : base[b] # None => base[b].key \in VmKeys /\ base[b].key # k
      BY <1>1 DEF Inv, TypeOK, Base, MapIsExact
    <2>2. \A b \in Bases : base[b] # None => baseWasms'[base[b].key] = b
      BY <1>3, <2>1 DEF Inv, MapIsExact
    <2> QED BY <1>1, <1>3, <2>2, MarksAssumption DEF Inv, MapIsExact
  <1> QED BY <1>1, <1>2, <1>4 DEF Inv, AcceptedPassed, HandedOutWereCanaried

-----------------------------------------------------------------------------
(* A thread inside canary: its base VM exists. *)
LEMMA InCanary ==
  ASSUME Inv, NEW t \in Callers, call[t].at # "idle"
  PROVE  /\ call[t].plugin \in Plugins /\ call[t].base \in Bases
         /\ base[call[t].base] # None /\ base[call[t].base] \in Base
  BY DEF Inv, TypeOK, NoCall

(* The calls and handles that remain are of base VMs that exist. *)
LEMMA StillUsed ==
  ASSUME Inv, NEW calls \in [Callers -> [plugin : Plugins, base : Bases, at : {"check", "run"}]
                                           \cup {NoCall}],
         NEW hs \in SUBSET (Plugins \X Bases),
         \A t \in Callers : calls[t] = call[t] \/ calls[t] = NoCall,
         \A p \in Plugins, b \in Bases : <<p, b>> \in hs => base[b] # None
  PROVE  \A b \in Bases : Used(b, calls, hs) => base[b] # None
  <1> SUFFICES ASSUME NEW b \in Bases, Used(b, calls, hs) PROVE base[b] # None
    OBVIOUS
  <1>1. CASE \E t \in Callers : calls[t].base = b
    <2>1. NoCall.base # b
      BY MarksAssumption DEF NoCall
    <2> QED BY <1>1, <2>1 DEF Inv, TypeOK
  <1>2. CASE \E p \in Plugins : <<p, b>> \in hs
    BY <1>2
  <1> QED BY <1>1, <1>2 DEF Used

LEMMA CachedStep ==
  ASSUME Inv, NEW t \in Callers, CanaryCached(t)
  PROVE  Inv'
  <1> DEFINE p == call[t].plugin
             b == call[t].base
             calls == [call EXCEPT ![t] = NoCall]
             hs == IF Canary(t) = "accepted" THEN kept \cup {<<p, b>>} ELSE kept
  <1>1. /\ p \in Plugins /\ b \in Bases /\ base[b] # None /\ base[b] \in Base
        /\ Leave(calls, hs, base) /\ UNCHANGED passed
    BY InCanary DEF CanaryCached
  <1>2. calls \in [Callers -> [plugin : Plugins, base : Bases, at : {"check", "run"}] \cup {NoCall}]
        /\ \A u \in Callers : calls[u] = call[u] \/ calls[u] = NoCall
    BY DEF Inv, TypeOK
  <1>3. hs \in SUBSET (Plugins \X Bases) /\ hs \subseteq kept \cup {<<p, b>>}
    BY <1>1 DEF Inv, TypeOK
  <1>4. hs \subseteq passed
    BY <1>1 DEF Canary, Inv, AcceptedPassed, HandedOutWereCanaried
  <1> HIDE DEF p, b, calls, hs
  <1>5. \A q \in Plugins, c \in Bases : <<q, c>> \in hs => base[c] # None
    BY <1>1, <1>3 DEF Inv, TypeOK
  <1>6. \A c \in Bases : Used(c, calls, hs) => base[c] # None
    BY <1>2, <1>3, <1>5, StillUsed
  <1>7. base \in [Bases -> Base \cup {None}] /\ passed \in SUBSET (Plugins \X Bases)
    BY DEF Inv, TypeOK
  <1>8. /\ TypeOK' /\ MapIsExact' /\ kept' = hs
        /\ \A c \in Bases : base'[c] # None => base'[c] = base[c] /\ base[c] # None
    BY <1>1, <1>2, <1>3, <1>6, <1>7, LeaveStep
  <1> QED BY <1>1, <1>4, <1>8 DEF Inv, AcceptedPassed, HandedOutWereCanaried

LEMMA StartsStep ==
  ASSUME Inv, NEW t \in Callers, CanaryStarts(t)
  PROVE  Inv'
  <1>1. /\ call' = [call EXCEPT ![t].at = "run"]
        /\ call[t] \in [plugin : Plugins, base : Bases, at : {"check", "run"}]
        /\ UNCHANGED <<baseWasms, base, kept, passed>>
    BY DEF CanaryStarts, Inv, TypeOK, NoCall
  <1>2. call'[t] = [plugin |-> call[t].plugin, base |-> call[t].base, at |-> "run"]
        /\ \A u \in Callers : u # t => call'[u] = call[u]
    BY <1>1 DEF Inv, TypeOK
  <1>3. call' \in [Callers -> [plugin : Plugins, base : Bases, at : {"check", "run"}] \cup {NoCall}]
    BY <1>1, <1>2 DEF Inv, TypeOK
  <1>4. \A u \in Callers : call'[u].base = call[u].base
    BY <1>2
  <1>5. TypeOK'
    BY <1>1, <1>3, <1>4 DEF Inv, TypeOK
  <1> QED BY <1>1, <1>5 DEF Inv, MapIsExact, AcceptedPassed, HandedOutWereCanaried

Outcomes == {"accepted", "refused", "unstarted", "uncloned"}

LEMMA EndsStep ==
  ASSUME Inv, NEW t \in Callers, NEW outcome \in Outcomes, CanaryEnds(t, outcome)
  PROVE  Inv'
  <1> DEFINE p == call[t].plugin
             b == call[t].base
             calls == [call EXCEPT ![t] = NoCall]
             hs == IF outcome = "accepted" THEN kept \cup {<<p, b>>} ELSE kept
             verdict == [accepted |-> "accepted", refused |-> "refused",
                         unstarted |-> Canary(t), uncloned |-> Canary(t)][outcome]
             bases == [base EXCEPT ![b].canary[p] = verdict,
                                   ![b].failed = @ \/ outcome = "uncloned"]
  <1>1. /\ p \in Plugins /\ b \in Bases /\ base[b] # None /\ base[b] \in Base
        /\ Leave(calls, hs, bases)
        /\ passed' = IF outcome = "accepted" THEN passed \cup {<<p, b>>} ELSE passed
    BY InCanary DEF CanaryEnds
  <1>2. calls \in [Callers -> [plugin : Plugins, base : Bases, at : {"check", "run"}] \cup {NoCall}]
        /\ \A u \in Callers : calls[u] = call[u] \/ calls[u] = NoCall
    BY DEF Inv, TypeOK
  <1>3. hs \in SUBSET (Plugins \X Bases) /\ hs \subseteq kept \cup {<<p, b>>}
    BY <1>1 DEF Inv, TypeOK
  <1>4. hs \subseteq passed' /\ passed \subseteq passed' /\ passed' \in SUBSET (Plugins \X Bases)
    BY <1>1 DEF Inv, TypeOK, HandedOutWereCanaried
  <1>5. /\ verdict \in Verdicts
        /\ verdict = "accepted" => outcome = "accepted" \/ base[b].canary[p] = "accepted"
    <2>1. base[b].canary[p] \in Verdicts /\ Canary(t) = base[b].canary[p]
      BY <1>1 DEF Canary, Base
    <2>2. verdict = CASE outcome = "accepted" -> "accepted"
                      [] outcome = "refused" -> "refused"
                      [] OTHER -> Canary(t)
      BY DEF Outcomes
    <2> HIDE DEF verdict, p, b
    <2> QED BY <2>1, <2>2 DEF Outcomes, Verdicts
  <1> HIDE DEF verdict
  <1>6. /\ bases[b] = [key |-> base[b].key, failed |-> base[b].failed \/ outcome = "uncloned",
                       canary |-> [base[b].canary EXCEPT ![p] = verdict]]
        /\ \A c \in Bases : c # b => bases[c] = base[c]
        /\ DOMAIN bases = Bases
    BY <1>1 DEF Inv, TypeOK, Base
  <1>7. /\ bases[b] \in Base /\ bases[b] # None /\ bases[b].key = base[b].key
        /\ \A q \in Plugins : bases[b].canary[q] = IF q = p THEN verdict ELSE base[b].canary[q]
    <2>1. bases[b] \in Base
      BY <1>1, <1>5, <1>6 DEF Base
    <2>2. bases[b] # None
      BY <2>1, NoneAssumption
    <2> QED BY <1>1, <1>6, <2>1, <2>2 DEF Base
  <1>8. bases \in [Bases -> Base \cup {None}]
    <2>1. bases = [c \in Bases |-> bases[c]]
      BY DEF Inv, TypeOK
    <2> HIDE DEF bases
    <2> QED BY <1>6, <1>7, <2>1 DEF Inv, TypeOK
  <1> HIDE DEF p, b, calls, hs, bases
  <1>9. \A q \in Plugins, c \in Bases : <<q, c>> \in hs => base[c] # None
    BY <1>1, <1>3 DEF Inv, TypeOK
  <1>10. \A c \in Bases : Used(c, calls, hs) => base[c] # None
    BY <1>2, <1>3, <1>9, StillUsed
  <1>11. /\ \A c \in Bases : (bases[c] = None) <=> (base[c] = None)
         /\ \A c \in Bases : base[c] # None => bases[c].key = base[c].key
    BY <1>1, <1>6, <1>7
  <1>12. /\ TypeOK' /\ MapIsExact' /\ kept' = hs
         /\ \A c \in Bases : base'[c] # None => base'[c] = bases[c] /\ base[c] # None
    BY <1>1, <1>2, <1>3, <1>4, <1>8, <1>10, <1>11, LeaveStep
  <1>13. AcceptedPassed'
    <2> SUFFICES ASSUME NEW c \in Bases, NEW q \in Plugins, base'[c] # None,
                        base'[c].canary[q] = "accepted"
                 PROVE  <<q, c>> \in passed'
      BY DEF AcceptedPassed
    <2>1. CASE base[c].canary[q] = "accepted"
      BY <1>4, <1>12, <2>1 DEF Inv, AcceptedPassed
    <2>2. CASE base[c].canary[q] # "accepted"
      <3>1. c = b /\ q = p /\ verdict = "accepted"
        <4>1. base'[c] = bases[c] /\ bases[c].canary[q] = "accepted"
          BY <1>12
        <4>2. c = b
          BY <1>6, <2>2, <4>1
        <4>3. base[b].canary[q] # "accepted" /\ bases[b].canary[q] = "accepted"
          BY <2>2, <4>1, <4>2
        <4>4. bases[b].canary[q] = IF q = p THEN verdict ELSE base[b].canary[q]
          BY <1>7
        <4> QED BY <4>2, <4>3, <4>4
      <3> QED BY <1>1, <1>5, <2>2, <3>1
    <2> QED BY <2>1, <2>2
  <1> QED BY <1>4, <1>12, <1>13 DEF Inv, HandedOutWereCanaried

LEMMA ReleaseStep ==
  ASSUME Inv, NEW p \in Plugins, NEW b \in Bases, Release(p, b)
  PROVE  Inv'
  <1> DEFINE hs == kept \ {<<p, b>>}
  <1>1. Leave(call, hs, base) /\ UNCHANGED passed
    BY DEF Release
  <1>2. /\ call \in [Callers -> [plugin : Plugins, base : Bases, at : {"check", "run"}] \cup {NoCall}]
        /\ hs \in SUBSET (Plugins \X Bases) /\ hs \subseteq kept
        /\ base \in [Bases -> Base \cup {None}] /\ passed \in SUBSET (Plugins \X Bases)
    BY DEF Inv, TypeOK
  <1> HIDE DEF hs
  <1>3. \A q \in Plugins, c \in Bases : <<q, c>> \in hs => base[c] # None
    BY <1>2 DEF Inv, TypeOK
  <1>4. \A c \in Bases : Used(c, call, hs) => base[c] # None
    BY <1>2, <1>3, StillUsed
  <1>5. /\ TypeOK' /\ MapIsExact' /\ kept' = hs
        /\ \A c \in Bases : base'[c] # None => base'[c] = base[c] /\ base[c] # None
    BY <1>1, <1>2, <1>4, LeaveStep
  <1> QED BY <1>1, <1>2, <1>5 DEF Inv, AcceptedPassed, HandedOutWereCanaried

-----------------------------------------------------------------------------
LEMMA InvStep == Inv /\ [Next]_vars => Inv'
  <1> SUFFICES ASSUME Inv, [Next]_vars PROVE Inv'
    OBVIOUS
  <1>1. CASE UNCHANGED vars
    BY <1>1 DEF vars, Inv, TypeOK, MapIsExact, AcceptedPassed, HandedOutWereCanaried
  <1>2. CASE Next
    <2>1. ASSUME NEW t \in Callers, NEW p \in Plugins, CreateWasmFound(t, p) PROVE Inv'
      BY <2>1, FoundStep
    <2>2. ASSUME NEW t \in Callers, NEW p \in Plugins, NEW b \in Bases, CreateWasmNew(t, p, b)
          PROVE  Inv'
      BY <2>2, NewStep
    <2>3. ASSUME NEW t \in Callers, NEW p \in Plugins, CreateWasmFails(t, p) PROVE Inv'
      BY <2>3, FailsStep
    <2>4. ASSUME NEW t \in Callers, CanaryCached(t) PROVE Inv'
      BY <2>4, CachedStep
    <2>5. ASSUME NEW t \in Callers, CanaryStarts(t) PROVE Inv'
      BY <2>5, StartsStep
    <2>6. ASSUME NEW t \in Callers, NEW outcome \in Outcomes, CanaryEnds(t, outcome) PROVE Inv'
      BY <2>6, EndsStep
    <2>7. ASSUME NEW p \in Plugins, NEW b \in Bases, Release(p, b) PROVE Inv'
      BY <2>7, ReleaseStep
    <2> QED BY <1>2, <2>1, <2>2, <2>3, <2>4, <2>5, <2>6, <2>7 DEF Next, Outcomes
  <1> QED BY <1>1, <1>2

LEMMA Invariant == Spec => []Inv
  BY InitInv, InvStep, PTL DEF Spec

(* The base VMs, their map and canary caches, and the calls in flight keep their *)
(* types: a base VM is there as long as a call or a handle refers to it, and no   *)
(* longer.                                                                    *)
THEOREM TypeCorrect == Spec => []TypeOK
  <1>1. Inv => TypeOK
    BY DEF Inv
  <1> QED BY <1>1, Invariant, PTL

(* A vm_key never has two base VMs at a time (createWasm, base_wasms_mutex). *)
THEOREM OneBase == Spec => []OneBasePerVmKey
  <1>1. Inv => OneBasePerVmKey
    BY DEF Inv, MapIsExact, OneBasePerVmKey
  <1> QED BY <1>1, Invariant, PTL

(* The host holds a handle only for plugins of which a canary has succeeded on    *)
(* the base VM of the handle (WasmHandleBase::canary), though the cache of the     *)
(* verdicts has no lock.                                                      *)
THEOREM CanariedFirst == Spec => []HandedOutWereCanaried
  <1>1. Inv => HandedOutWereCanaried
    BY DEF Inv
  <1> QED BY <1>1, Invariant, PTL
-----------------------------------------------------------------------------
(* VmIdHandle.tla. *)

(* Only one destructor has the mutex. *)
OneLocked == \A h1, h2 \in Wasms : (phase[h1] = "locked" /\ phase[h2] = "locked") => h1 = h2

(* A handle that is held is alive and of its holder's vm_id. *)
HeldAreLive ==
    \A w \in Wasms : holds[w] # NoHandle =>
        phase[holds[w]] = "live" /\ WasmVmId[holds[w]] = WasmVmId[w]

(* What is stored was stored under a handle of that vm_id, in a store that has  *)
(* registered its callback.                                                  *)
StoredKnown ==
    \A s \in Stores, vm \in VmIds : \A h \in stored[<<s, vm>>] :
        WasmVmId[h] = vm /\ \E i \in 1..Len(callbacks) : callbacks[i] = s

(* The callbacks that the destructor has run have done their work. *)
CallbacksWork ==
    \A h \in Wasms : phase[h] = "locked" =>
        \A i \in 1..next : h \notin stored[<<callbacks[i], WasmVmId[h]>>]

HandleInv == /\ HandlesTypeOK
       /\ OneLocked
       /\ HeldAreLive
       /\ StoredKnown
       /\ CallbacksWork
       /\ NothingOutlivesItsHandle
       /\ MapNamesNoGhost

-----------------------------------------------------------------------------
LEMMA HandlesInitInv == HandlesInit => HandleInv
  <1> SUFFICES ASSUME HandlesInit PROVE HandleInv
    OBVIOUS
  <1>1. HandlesTypeOK
    BY WasmsAssumption DEF HandlesInit, HandlesTypeOK
  <1>2. OneLocked /\ HeldAreLive /\ CallbacksWork /\ MapNamesNoGhost
    BY DEF HandlesInit, OneLocked, HeldAreLive, CallbacksWork, MapNamesNoGhost
  <1>3. StoredKnown /\ NothingOutlivesItsHandle
    BY DEF HandlesInit, StoredKnown, NothingOutlivesItsHandle
  <1> QED BY <1>1, <1>2, <1>3 DEF HandleInv

(* The constructor gets a handle that is alive, of its vm_id, and in the map. *)
LEMMA GotHandle ==
  ASSUME HandleInv, NEW w \in Wasms, NEW h \in Wasms, GetVmIdHandle(w, h), MutexFree
  PROVE  /\ phase' \in [Wasms -> {"unborn", "live", "dying", "locked", "dead"}]
         /\ handles' \in [VmIds -> Wasms \cup {NoHandle}]
         /\ phase'[h] = "live" /\ WasmVmId[h] = WasmVmId[w]
         /\ handles'[WasmVmId[w]] = h
         /\ \A g \in Wasms : phase'[g] = phase[g] \/ phase'[g] = "live"
         /\ \A vm \in VmIds : handles'[vm] = handles[vm] \/ (handles'[vm] = h /\ vm = WasmVmId[w])
  <1>1. WasmVmId[w] \in VmIds
    BY WasmsAssumption
  <1>2. CASE handles[WasmVmId[w]] # NoHandle /\ phase[handles[WasmVmId[w]]] = "live"
    BY <1>1, <1>2 DEF GetVmIdHandle, HandleInv, HandlesTypeOK, MapNamesNoGhost
  <1>3. CASE ~(handles[WasmVmId[w]] # NoHandle /\ phase[handles[WasmVmId[w]]] = "live")
    BY <1>1, <1>3 DEF GetVmIdHandle, HandleInv, HandlesTypeOK
  <1> QED BY <1>2, <1>3

LEMMA CreateStep ==
  ASSUME HandleInv, NEW t \in Threads, NEW w \in Wasms, CreateWasm(t, w)
  PROVE  HandleInv'
  <1>1. PICK h \in Wasms : GetVmIdHandle(w, h) /\ holds' = [holds EXCEPT ![w] = h]
    BY DEF CreateWasm
  <1>2. MutexFree /\ used' = used \cup {w} /\ UNCHANGED <<running, callbacks, next, stored>>
    BY DEF CreateWasm
  <1>3. /\ phase' \in [Wasms -> {"unborn", "live", "dying", "locked", "dead"}]
        /\ handles' \in [VmIds -> Wasms \cup {NoHandle}]
        /\ phase'[h] = "live" /\ WasmVmId[h] = WasmVmId[w]
        /\ handles'[WasmVmId[w]] = h
        /\ \A g \in Wasms : phase'[g] = phase[g] \/ phase'[g] = "live"
        /\ \A vm \in VmIds : handles'[vm] = handles[vm] \/ (handles'[vm] = h /\ vm = WasmVmId[w])
    BY <1>1, <1>2, GotHandle
  <1>4. HandlesTypeOK'
    BY <1>1, <1>2, <1>3 DEF HandleInv, HandlesTypeOK
  <1>5. \A g \in Wasms : phase'[g] # "locked"
    BY <1>2, <1>3 DEF MutexFree
  <1>6. OneLocked' /\ CallbacksWork'
    BY <1>5 DEF OneLocked, CallbacksWork
  <1>7. HeldAreLive'
    <2> SUFFICES ASSUME NEW x \in Wasms, holds'[x] # NoHandle
                 PROVE  phase'[holds'[x]] = "live" /\ WasmVmId[holds'[x]] = WasmVmId[x]
      BY DEF HeldAreLive
    <2>1. CASE x = w
      BY <1>1, <1>3, <2>1 DEF HandleInv, HandlesTypeOK
    <2>2. CASE x # w
      BY <1>1, <1>3, <2>2 DEF HandleInv, HandlesTypeOK, HeldAreLive
    <2> QED BY <2>1, <2>2
  <1>8. StoredKnown'
    BY <1>2 DEF HandleInv, StoredKnown
  <1>9. NothingOutlivesItsHandle'
    BY <1>2, <1>3 DEF HandleInv, HandlesTypeOK, NothingOutlivesItsHandle
  <1>10. MapNamesNoGhost'
    BY <1>3 DEF HandleInv, HandlesTypeOK, MapNamesNoGhost
  <1> QED BY <1>4, <1>6, <1>7, <1>8, <1>9, <1>10 DEF HandleInv

LEMMA RegisterStep ==
  ASSUME HandleInv, NEW t \in Threads, NEW s \in Stores, RegisterCallback(t, s)
  PROVE  HandleInv'
  <1>1. /\ callbacks' = Append(callbacks, s) /\ MutexFree
        /\ \A i \in 1..Len(callbacks) : callbacks[i] # s
        /\ UNCHANGED <<handles, phase, holds, used, running, next, stored>>
    BY DEF RegisterCallback
  <1>2. callbacks \in Seq(Stores) /\ next \in 0..Len(callbacks)
    BY DEF HandleInv, HandlesTypeOK
  <1>3. /\ callbacks' \in Seq(Stores) /\ Len(callbacks') = Len(callbacks) + 1
        /\ \A i \in 1..Len(callbacks) : callbacks'[i] = callbacks[i]
        /\ callbacks'[Len(callbacks')] = s
    BY <1>1, <1>2
  <1>4. \A i, j \in 1..Len(callbacks') : callbacks'[i] = callbacks'[j] => i = j
    <2> SUFFICES ASSUME NEW i \in 1..Len(callbacks'), NEW j \in 1..Len(callbacks'),
                        callbacks'[i] = callbacks'[j]
                 PROVE  i = j
      OBVIOUS
    <2>1. Len(callbacks) \in Nat
      BY <1>2
    <2>2. (i \in 1..Len(callbacks) \/ i = Len(callbacks'))
             /\ (j \in 1..Len(callbacks) \/ j = Len(callbacks'))
      BY <1>3, <2>1
    <2>3. \A k, l \in 1..Len(callbacks) : callbacks[k] = callbacks[l] => k = l
      BY DEF HandleInv, HandlesTypeOK
    <2> QED BY <1>1, <1>3, <2>2, <2>3
  <1>5. HandlesTypeOK'
    BY <1>1, <1>2, <1>3, <1>4 DEF HandleInv, HandlesTypeOK
  <1>6. OneLocked' /\ HeldAreLive' /\ NothingOutlivesItsHandle' /\ MapNamesNoGhost'
    BY <1>1 DEF HandleInv, OneLocked, HeldAreLive, NothingOutlivesItsHandle, MapNamesNoGhost
  <1>7. CallbacksWork'
    BY <1>1 DEF CallbacksWork, MutexFree
  <1>8. StoredKnown'
    <2> SUFFICES ASSUME NEW u \in Stores, NEW vm \in VmIds, NEW h \in stored[<<u, vm>>]
                 PROVE  WasmVmId[h] = vm /\ \E i \in 1..Len(callbacks') : callbacks'[i] = u
      BY <1>1 DEF StoredKnown
    <2>1. WasmVmId[h] = vm /\ \E i \in 1..Len(callbacks) : callbacks[i] = u
      BY DEF HandleInv, StoredKnown
    <2> QED BY <1>2, <1>3, <2>1
  <1> QED BY <1>5, <1>6, <1>7, <1>8 DEF HandleInv

LEMMA UseStep ==
  ASSUME HandleInv, NEW t \in Threads, NEW w \in Wasms, NEW s \in Stores, UseStore(t, w, s)
  PROVE  HandleInv'
  <1> DEFINE slot == <<s, WasmVmId[w]>>
  <1>1. /\ stored' = [stored EXCEPT ![slot] = @ \cup {holds[w]}]
        /\ holds[w] # NoHandle
        /\ \E i \in 1..Len(callbacks) : callbacks[i] = s
        /\ UNCHANGED <<handles, phase, holds, used, running, callbacks, next>>
    BY DEF UseStore
  <1>2. /\ slot \in Stores \X VmIds
        /\ holds[w] \in Wasms /\ phase[holds[w]] = "live" /\ WasmVmId[holds[w]] = WasmVmId[w]
    BY <1>1, WasmsAssumption DEF HandleInv, HandlesTypeOK, HeldAreLive
  <1>3. stored' \in [Stores \X VmIds -> SUBSET Wasms]
    BY <1>1, <1>2 DEF HandleInv, HandlesTypeOK
  <1>4. HandlesTypeOK'
    BY <1>1, <1>3 DEF HandleInv, HandlesTypeOK
  <1>5. OneLocked' /\ HeldAreLive' /\ MapNamesNoGhost'
    BY <1>1 DEF HandleInv, OneLocked, HeldAreLive, MapNamesNoGhost
  <1>6. \A sv \in Stores \X VmIds : \A h \in stored'[sv] :
           h \in stored[sv] \/ (sv = slot /\ h = holds[w])
    BY <1>1 DEF HandleInv, HandlesTypeOK
  <1>7. StoredKnown'
    <2> SUFFICES ASSUME NEW u \in Stores, NEW vm \in VmIds, NEW h \in stored'[<<u, vm>>]
                 PROVE  WasmVmId[h] = vm /\ \E i \in 1..Len(callbacks) : callbacks[i] = u
      BY <1>1 DEF StoredKnown
    <2>1. CASE h \in stored[<<u, vm>>]
      BY <2>1 DEF HandleInv, StoredKnown
    <2>2. CASE <<u, vm>> = slot /\ h = holds[w]
      BY <1>1, <1>2, <2>2
    <2> QED BY <1>6, <2>1, <2>2
  <1>8. NothingOutlivesItsHandle'
    <2> SUFFICES ASSUME NEW sv \in Stores \X VmIds, NEW h \in stored'[sv]
                 PROVE  phase[h] # "dead"
      BY <1>1 DEF NothingOutlivesItsHandle
    <2> QED BY <1>2, <1>6 DEF HandleInv, NothingOutlivesItsHandle
  <1>9. CallbacksWork'
    <2> SUFFICES ASSUME NEW h \in Wasms, phase[h] = "locked", NEW i \in 1..next
                 PROVE  h \notin stored'[<<callbacks[i], WasmVmId[h]>>]
      BY <1>1 DEF CallbacksWork
    <2>1. <<callbacks[i], WasmVmId[h]>> \in Stores \X VmIds
      BY WasmsAssumption DEF HandleInv, HandlesTypeOK
    <2>2. h \notin stored[<<callbacks[i], WasmVmId[h]>>]
      BY DEF HandleInv, CallbacksWork
    <2>3. h # holds[w]
      BY <1>2
    <2> QED BY <1>6, <2>1, <2>2, <2>3
  <1> QED BY <1>4, <1>5, <1>7, <1>8, <1>9 DEF HandleInv

LEMMA DestroyStep ==
  ASSUME HandleInv, NEW t \in Threads, NEW w \in Wasms, DestroyWasm(t, w)
  PROVE  HandleInv'
  <1>1. /\ holds[w] \in Wasms /\ phase[holds[w]] = "live"
        /\ holds' = [holds EXCEPT ![w] = NoHandle]
        /\ UNCHANGED <<handles, used, callbacks, next, stored>>
    BY DEF DestroyWasm, HandleInv, HandlesTypeOK, HeldAreLive
  <1>2. CASE Holders(holds[w]) = {w}
    <2>1. /\ phase' = [phase EXCEPT ![holds[w]] = "dying"]
          /\ running' = [running EXCEPT ![t] = holds[w]]
      BY <1>2 DEF DestroyWasm
    <2>2. HandlesTypeOK'
      BY <1>1, <2>1 DEF HandleInv, HandlesTypeOK
    <2>3. \A h \in Wasms : phase'[h] = phase[h] \/ phase'[h] = "dying"
      BY <2>1 DEF HandleInv, HandlesTypeOK
    <2>4. OneLocked' /\ CallbacksWork' /\ NothingOutlivesItsHandle' /\ MapNamesNoGhost'
      BY <1>1, <2>3 DEF HandleInv, HandlesTypeOK, OneLocked, CallbacksWork, NothingOutlivesItsHandle,
                        MapNamesNoGhost
    <2>5. HeldAreLive'
      <3> SUFFICES ASSUME NEW x \in Wasms, holds'[x] # NoHandle
                   PROVE  phase'[holds'[x]] = "live" /\ WasmVmId[holds'[x]] = WasmVmId[x]
        BY DEF HeldAreLive
      <3>1. x # w /\ holds'[x] = holds[x] /\ holds[x] \in Wasms
        BY <1>1 DEF HandleInv, HandlesTypeOK
      <3>2. holds[x] # holds[w]
        BY <1>2, <3>1 DEF Holders
      <3> QED BY <2>1, <3>1, <3>2 DEF HandleInv, HandlesTypeOK, HeldAreLive
    <2>6. StoredKnown'
      BY <1>1 DEF HandleInv, StoredKnown
    <2> QED BY <2>2, <2>4, <2>5, <2>6 DEF HandleInv
  <1>3. CASE Holders(holds[w]) # {w}
    <2>1. UNCHANGED <<phase, running>>
      BY <1>3 DEF DestroyWasm
    <2>2. HandlesTypeOK' /\ HeldAreLive'
      BY <1>1, <2>1 DEF HandleInv, HandlesTypeOK, HeldAreLive
    <2> QED BY <1>1, <2>1, <2>2 DEF HandleInv, OneLocked, StoredKnown, CallbacksWork,
                                    NothingOutlivesItsHandle, MapNamesNoGhost
  <1> QED BY <1>2, <1>3

LEMMA LockStep ==
  ASSUME HandleInv, NEW t \in Threads, DtorLock(t)
  PROVE  HandleInv'
  <1>1. /\ running[t] \in Wasms /\ phase[running[t]] = "dying" /\ MutexFree
        /\ phase' = [phase EXCEPT ![running[t]] = "locked"]
        /\ next' = 0
        /\ UNCHANGED <<handles, holds, used, running, callbacks, stored>>
    BY DEF DtorLock, OutsideDtor, HandleInv, HandlesTypeOK
  <1>2. HandlesTypeOK'
    BY <1>1 DEF HandleInv, HandlesTypeOK
  <1>3. \A h \in Wasms : phase'[h] = IF h = running[t] THEN "locked" ELSE phase[h]
    BY <1>1 DEF HandleInv, HandlesTypeOK
  <1>4. OneLocked'
    BY <1>1, <1>3 DEF OneLocked, MutexFree
  <1>5. HeldAreLive'
    BY <1>1, <1>3 DEF HandleInv, HandlesTypeOK, HeldAreLive
  <1>6. CallbacksWork'
    BY <1>1 DEF CallbacksWork
  <1>7. StoredKnown' /\ NothingOutlivesItsHandle' /\ MapNamesNoGhost'
    BY <1>1, <1>3 DEF HandleInv, HandlesTypeOK, StoredKnown, NothingOutlivesItsHandle, MapNamesNoGhost
  <1> QED BY <1>2, <1>4, <1>5, <1>6, <1>7 DEF HandleInv

LEMMA CallbackStep ==
  ASSUME HandleInv, NEW t \in Threads, DtorCallback(t)
  PROVE  HandleInv'
  <1> DEFINE h == running[t]
             slot == <<callbacks[next + 1], WasmVmId[h]>>
  <1>1. /\ h \in Wasms /\ phase[h] = "locked" /\ next < Len(callbacks)
        /\ stored' = [stored EXCEPT ![slot] = {}]
        /\ next' = next + 1
        /\ UNCHANGED <<handles, phase, holds, used, running, callbacks>>
    BY DEF DtorCallback, OutsideDtor, HandleInv, HandlesTypeOK
  <1>2. callbacks \in Seq(Stores) /\ next \in 0..Len(callbacks)
    BY DEF HandleInv, HandlesTypeOK
  <1>3. slot \in Stores \X VmIds
    BY <1>1, <1>2, WasmsAssumption
  <1>4. /\ stored' \in [Stores \X VmIds -> SUBSET Wasms]
        /\ \A sv \in Stores \X VmIds : stored'[sv] = IF sv = slot THEN {} ELSE stored[sv]
    BY <1>1, <1>3 DEF HandleInv, HandlesTypeOK
  <1> HIDE DEF slot
  <1>5. HandlesTypeOK'
    BY <1>1, <1>2, <1>4 DEF HandleInv, HandlesTypeOK
  <1>6. OneLocked' /\ HeldAreLive' /\ MapNamesNoGhost'
    BY <1>1 DEF HandleInv, OneLocked, HeldAreLive, MapNamesNoGhost
  <1>7. StoredKnown'
    <2> SUFFICES ASSUME NEW u \in Stores, NEW vm \in VmIds, NEW g \in stored'[<<u, vm>>]
                 PROVE  WasmVmId[g] = vm /\ \E i \in 1..Len(callbacks) : callbacks[i] = u
      BY <1>1 DEF StoredKnown
    <2>1. g \in stored[<<u, vm>>]
      BY <1>4
    <2> QED BY <2>1 DEF HandleInv, StoredKnown
  <1>8. NothingOutlivesItsHandle'
    BY <1>1, <1>4 DEF HandleInv, NothingOutlivesItsHandle
  <1>9. CallbacksWork'
    <2> SUFFICES ASSUME NEW g \in Wasms, phase[g] = "locked", NEW i \in 1..(next + 1)
                 PROVE  g \notin stored'[<<callbacks[i], WasmVmId[g]>>]
      BY <1>1 DEF CallbacksWork
    <2>1. g = h
      BY <1>1 DEF HandleInv, OneLocked
    <2>2. i \in 1..next \/ i = next + 1
      BY <1>2
    <2>3. <<callbacks[i], WasmVmId[g]>> \in Stores \X VmIds
      BY <1>1, <1>2, WasmsAssumption
    <2>4. CASE i = next + 1
      BY <1>4, <2>1, <2>3, <2>4 DEF slot
    <2>5. CASE i \in 1..next
      BY <1>4, <2>3, <2>5 DEF HandleInv, CallbacksWork
    <2> QED BY <2>2, <2>4, <2>5
  <1> QED BY <1>5, <1>6, <1>7, <1>8, <1>9 DEF HandleInv

LEMMA EraseStep ==
  ASSUME HandleInv, NEW t \in Threads, DtorErase(t)
  PROVE  HandleInv'
  <1> DEFINE h == running[t]
             vm == WasmVmId[h]
  <1>1. /\ h \in Wasms /\ phase[h] = "locked" /\ next = Len(callbacks)
        /\ handles' = [handles EXCEPT ![vm] = NoHandle]
        /\ phase' = [phase EXCEPT ![h] = "dead"]
        /\ next' = 0
        /\ running' = [running EXCEPT ![t] = NoHandle]
        /\ UNCHANGED <<holds, used, callbacks, stored>>
    BY DEF DtorErase, OutsideDtor, HandleInv, HandlesTypeOK
  <1>2. vm \in VmIds
    BY <1>1, WasmsAssumption
  <1> HIDE DEF h
  <1>3. HandlesTypeOK'
    BY <1>1, <1>2 DEF HandleInv, HandlesTypeOK
  <1>4. \A g \in Wasms : phase'[g] = IF g = h THEN "dead" ELSE phase[g]
    BY <1>1 DEF HandleInv, HandlesTypeOK
  <1>5. \A g \in Wasms : phase'[g] # "locked"
    BY <1>1, <1>4 DEF HandleInv, OneLocked
  <1>6. OneLocked' /\ CallbacksWork'
    BY <1>5 DEF OneLocked, CallbacksWork
  <1>7. HeldAreLive'
    BY <1>1, <1>4 DEF HandleInv, HandlesTypeOK, HeldAreLive
  <1>8. StoredKnown'
    BY <1>1 DEF HandleInv, StoredKnown
  <1>9. NothingOutlivesItsHandle'
    <2> SUFFICES ASSUME NEW s \in Stores, NEW v \in VmIds, NEW g \in stored[<<s, v>>]
                 PROVE  phase'[g] # "dead"
      BY <1>1 DEF NothingOutlivesItsHandle
    <2>1. g \in Wasms /\ phase[g] # "dead"
      BY DEF HandleInv, HandlesTypeOK, NothingOutlivesItsHandle
    <2>2. PICK i \in 1..Len(callbacks) : callbacks[i] = s
      BY DEF HandleInv, StoredKnown
    <2>3. WasmVmId[g] = v
      BY DEF HandleInv, StoredKnown
    <2>4. g # h
      BY <1>1, <2>2, <2>3 DEF HandleInv, CallbacksWork
    <2> QED BY <1>4, <2>1, <2>4
  <1>10. MapNamesNoGhost'
    <2> SUFFICES ASSUME NEW v \in VmIds, handles'[v] # NoHandle
                 PROVE  phase'[handles'[v]] # "dead" /\ WasmVmId[handles'[v]] = v
      BY DEF MapNamesNoGhost
    <2>1. v # vm /\ handles'[v] = handles[v] /\ handles[v] \in Wasms
      BY <1>1, <1>2 DEF HandleInv, HandlesTypeOK
    <2>2. phase[handles[v]] # "dead" /\ WasmVmId[handles[v]] = v
      BY <2>1 DEF HandleInv, MapNamesNoGhost
    <2> QED BY <1>4, <2>1, <2>2
  <1> QED BY <1>3, <1>6, <1>7, <1>8, <1>9, <1>10 DEF HandleInv

LEMMA HandlesInvStep == HandleInv /\ [HandlesNext]_handleVars => HandleInv'
  <1> SUFFICES ASSUME HandleInv, [HandlesNext]_handleVars PROVE HandleInv'
    OBVIOUS
  <1>1. ASSUME NEW t \in Threads, NEW w \in Wasms,
               CreateWasm(t, w) \/ DestroyWasm(t, w) \/ \E s \in Stores : UseStore(t, w, s)
        PROVE  HandleInv'
    BY <1>1, CreateStep, DestroyStep, UseStep
  <1>2. ASSUME NEW t \in Threads, Dtor(t) PROVE HandleInv'
    BY <1>2, LockStep, CallbackStep, EraseStep DEF Dtor
  <1>3. CASE UNCHANGED handleVars
    BY <1>3 DEF handleVars, HandleInv, HandlesTypeOK, OneLocked, HeldAreLive, StoredKnown, CallbacksWork,
                NothingOutlivesItsHandle, MapNamesNoGhost
  <1> QED BY <1>1, <1>2, <1>3, RegisterStep DEF HandlesNext

(* Every state is well typed; a store registers its callback once at most. *)
THEOREM HandlesTypeCorrect == HandlesSpec => []HandlesTypeOK
  <1>1. HandleInv => HandlesTypeOK
    BY DEF HandleInv
  <1> QED BY <1>1, HandlesInitInv, HandlesInvStep, PTL DEF HandlesSpec

(* ~VmIdHandle: nothing that was stored under a handle is left after it. *)
THEOREM DestructorCleansUp == HandlesSpec => []NothingOutlivesItsHandle
  <1>1. HandleInv => NothingOutlivesItsHandle
    BY DEF HandleInv
  <1> QED BY <1>1, HandlesInitInv, HandlesInvStep, PTL DEF HandlesSpec

(* getVmIdHandles() names no dead handle and none of another vm_id. *)
THEOREM MapIsCurrent == HandlesSpec => []MapNamesNoGhost
  <1>1. HandleInv => MapNamesNoGhost
    BY DEF HandleInv
  <1> QED BY <1>1, HandlesInitInv, HandlesInvStep, PTL DEF HandlesSpec

-----------------------------------------------------------------------------
OneThread == \A t1, t2 \in Threads : t1 = t2

(* All that hold a handle of a vm_id hold the one in the map. *)
HeldAreInMap == \A w \in Wasms : holds[w] # NoHandle => handles[WasmVmId[w]] = holds[w]

(* A handle that is being destroyed is being destroyed by a thread, ... *)
DyingIsRunning ==
    \A h \in Wasms : phase[h] \in {"dying", "locked"} => \E t \in Threads : running[t] = h

(* ... while nobody holds a handle of its vm_id. *)
NobodyMeanwhile ==
    \A t \in Threads : running[t] # NoHandle =>
        \A w \in Wasms : holds[w] # NoHandle => WasmVmId[w] # WasmVmId[running[t]]

HandleInvOne == HeldAreInMap /\ DyingIsRunning /\ NobodyMeanwhile

LEMMA HandlesInitInvOne == HandlesInit => HandleInvOne
  BY DEF HandlesInit, HandleInvOne, HeldAreInMap, DyingIsRunning, NobodyMeanwhile

LEMMA CreateStepOne ==
  ASSUME OneThread, HandleInv, HandleInvOne, NEW t \in Threads, NEW w \in Wasms, CreateWasm(t, w)
  PROVE  HandleInvOne'
  <1>1. PICK h \in Wasms : GetVmIdHandle(w, h) /\ holds' = [holds EXCEPT ![w] = h]
    BY DEF CreateWasm
  <1>2. running[t] = NoHandle /\ running' = running /\ MutexFree
    BY DEF CreateWasm, OutsideDtor
  <1>3. \A u \in Threads : running[u] = NoHandle
    BY <1>2 DEF OneThread
  <1>4. /\ phase'[h] = "live" /\ handles'[WasmVmId[w]] = h
        /\ \A g \in Wasms : phase'[g] = phase[g] \/ phase'[g] = "live"
    BY <1>1, <1>2, GotHandle
  <1>5. DyingIsRunning'
    BY <1>2, <1>4 DEF HandleInvOne, DyingIsRunning
  <1>6. NobodyMeanwhile'
    BY <1>2, <1>3 DEF NobodyMeanwhile
  <1>7. HeldAreInMap'
    <2> SUFFICES ASSUME NEW x \in Wasms, holds'[x] # NoHandle
                 PROVE  handles'[WasmVmId[x]] = holds'[x]
      BY DEF HeldAreInMap
    <2>1. WasmVmId[x] \in VmIds /\ WasmVmId[w] \in VmIds
      BY WasmsAssumption
    <2>2. CASE x = w
      BY <1>1, <1>4, <2>2 DEF HandleInv, HandlesTypeOK
    <2>3. CASE x # w
      <3>1. holds'[x] = holds[x] /\ handles[WasmVmId[x]] = holds[x] /\ phase[holds[x]] = "live"
        BY <1>1, <2>3 DEF HandleInv, HandlesTypeOK, HandleInvOne, HeldAreInMap, HeldAreLive
      <3>2. CASE WasmVmId[x] = WasmVmId[w]
        BY <1>1, <1>4, <3>1, <3>2, <2>1 DEF GetVmIdHandle
      <3>3. CASE WasmVmId[x] # WasmVmId[w]
        BY <1>1, <3>1, <3>3, <2>1 DEF GetVmIdHandle, HandleInv, HandlesTypeOK
      <3> QED BY <3>2, <3>3
    <2> QED BY <2>2, <2>3
  <1> QED BY <1>5, <1>6, <1>7 DEF HandleInvOne

LEMMA DestroyStepOne ==
  ASSUME OneThread, HandleInv, HandleInvOne, NEW t \in Threads, NEW w \in Wasms, DestroyWasm(t, w)
  PROVE  HandleInvOne'
  <1>1. /\ holds[w] \in Wasms /\ running[t] = NoHandle
        /\ holds' = [holds EXCEPT ![w] = NoHandle] /\ handles' = handles
        /\ WasmVmId[holds[w]] = WasmVmId[w] /\ handles[WasmVmId[w]] = holds[w]
    BY DEF DestroyWasm, OutsideDtor, HandleInv, HandlesTypeOK, HeldAreLive, HandleInvOne, HeldAreInMap
  <1>2. \A x \in Wasms : holds'[x] # NoHandle => x # w /\ holds'[x] = holds[x]
    BY <1>1 DEF HandleInv, HandlesTypeOK
  <1>3. HeldAreInMap'
    BY <1>1, <1>2 DEF HandleInvOne, HeldAreInMap
  <1>4. CASE Holders(holds[w]) = {w}
    <2>1. /\ phase' = [phase EXCEPT ![holds[w]] = "dying"]
          /\ running' = [running EXCEPT ![t] = holds[w]]
      BY <1>4 DEF DestroyWasm
    <2>2. running'[t] = holds[w] /\ \A u \in Threads : u = t
      BY <2>1 DEF HandleInv, HandlesTypeOK, OneThread
    <2>3. DyingIsRunning'
      <3> SUFFICES ASSUME NEW h \in Wasms, phase'[h] \in {"dying", "locked"}
                   PROVE  h = holds[w]
        BY <2>2 DEF DyingIsRunning
      <3> QED BY <1>1, <2>1, <2>2, NoHandleAssumption DEF HandleInv, HandlesTypeOK, HandleInvOne, DyingIsRunning
    <2>4. NobodyMeanwhile'
      <3> SUFFICES ASSUME NEW x \in Wasms, holds'[x] # NoHandle
                   PROVE  WasmVmId[x] # WasmVmId[holds[w]]
        BY <2>2 DEF NobodyMeanwhile
      <3>1. holds[x] # holds[w]
        BY <1>2, <1>4 DEF Holders
      <3> QED BY <1>1, <1>2, <3>1 DEF HandleInvOne, HeldAreInMap
    <2> QED BY <1>3, <2>3, <2>4 DEF HandleInvOne
  <1>5. CASE Holders(holds[w]) # {w}
    <2>1. UNCHANGED <<phase, running>>
      BY <1>5 DEF DestroyWasm
    <2>2. DyingIsRunning' /\ NobodyMeanwhile'
      BY <1>2, <2>1 DEF HandleInvOne, DyingIsRunning, NobodyMeanwhile
    <2> QED BY <1>3, <2>2 DEF HandleInvOne
  <1> QED BY <1>4, <1>5

LEMMA DtorStepOne ==
  ASSUME OneThread, HandleInv, HandleInvOne, NEW t \in Threads, Dtor(t)
  PROVE  HandleInvOne'
  <1>1. running[t] \in Wasms /\ holds' = holds
    BY DEF Dtor, DtorLock, DtorCallback, DtorErase, OutsideDtor, HandleInv, HandlesTypeOK
  <1>2. CASE DtorLock(t) \/ DtorCallback(t)
    <2>1. /\ UNCHANGED <<handles, holds, running>>
          /\ \A h \in Wasms : phase'[h] = phase[h] \/ h = running[t]
      BY <1>2 DEF DtorLock, DtorCallback, HandleInv, HandlesTypeOK
    <2> QED BY <2>1 DEF HandleInvOne, HeldAreInMap, DyingIsRunning, NobodyMeanwhile
  <1>3. CASE DtorErase(t)
    <2>1. /\ handles' = [handles EXCEPT ![WasmVmId[running[t]]] = NoHandle]
          /\ phase' = [phase EXCEPT ![running[t]] = "dead"]
          /\ running' = [running EXCEPT ![t] = NoHandle]
      BY <1>3 DEF DtorErase
    <2>2. \A u \in Threads : u = t /\ running'[u] = NoHandle
      BY <2>1 DEF OneThread, HandleInv, HandlesTypeOK
    <2>3. NobodyMeanwhile'
      BY <2>2 DEF NobodyMeanwhile
    <2>4. DyingIsRunning'
      <3> SUFFICES ASSUME NEW h \in Wasms PROVE phase'[h] \notin {"dying", "locked"}
        BY DEF DyingIsRunning
      <3>1. CASE h = running[t]
        BY <2>1, <3>1 DEF HandleInv, HandlesTypeOK
      <3>2. CASE h # running[t]
        BY <2>1, <2>2, <3>2 DEF HandleInv, HandlesTypeOK, HandleInvOne, DyingIsRunning
      <3> QED BY <3>1, <3>2
    <2>5. HeldAreInMap'
      <3> SUFFICES ASSUME NEW x \in Wasms, holds[x] # NoHandle
                   PROVE  handles'[WasmVmId[x]] = holds[x]
        BY <1>1 DEF HeldAreInMap
      <3>1. WasmVmId[x] # WasmVmId[running[t]] /\ WasmVmId[x] \in VmIds
        BY <1>1, WasmsAssumption, NoHandleAssumption DEF HandleInvOne, NobodyMeanwhile
      <3> QED BY <2>1, <3>1 DEF HandleInv, HandlesTypeOK, HandleInvOne, HeldAreInMap
    <2> QED BY <2>3, <2>4, <2>5 DEF HandleInvOne
  <1> QED BY <1>2, <1>3 DEF Dtor

LEMMA HandlesInvOneStep ==
  ASSUME OneThread
  PROVE  HandleInv /\ HandleInvOne /\ [HandlesNext]_handleVars => HandleInvOne'
  <1> SUFFICES ASSUME HandleInv, HandleInvOne, [HandlesNext]_handleVars PROVE HandleInvOne'
    OBVIOUS
  <1>1. ASSUME NEW t \in Threads, NEW w \in Wasms, NEW s \in Stores,
               UseStore(t, w, s)
        PROVE  HandleInvOne'
    BY <1>1 DEF UseStore, HandleInvOne, HeldAreInMap, DyingIsRunning, NobodyMeanwhile
  <1>2. ASSUME NEW t \in Threads, NEW s \in Stores, RegisterCallback(t, s)
        PROVE  HandleInvOne'
    BY <1>2 DEF RegisterCallback, HandleInvOne, HeldAreInMap, DyingIsRunning, NobodyMeanwhile
  <1>3. CASE UNCHANGED handleVars
    BY <1>3 DEF handleVars, HandleInvOne, HeldAreInMap, DyingIsRunning, NobodyMeanwhile
  <1> QED BY <1>1, <1>2, <1>3, CreateStepOne, DestroyStepOne, DtorStepOne DEF HandlesNext

(* test/vm_id_handle_test.cc: on one thread the callbacks run after the last    *)
(* base VM of the vm_id has gone, and under nobody.                            *)
THEOREM CleanUpComesLast ==
  ASSUME OneThread
  PROVE  HandlesSpec => []CallbacksOnlyAfterLast
  <1>1. HandleInv /\ HandleInvOne => CallbacksOnlyAfterLast
    <2> SUFFICES ASSUME HandleInvOne, NEW h \in Wasms, phase[h] = "locked", NEW w \in Wasms,
                        holds[w] # NoHandle
                 PROVE  WasmVmId[w] # WasmVmId[h]
      BY DEF CallbacksOnlyAfterLast
    <2> QED BY NoHandleAssumption DEF HandleInvOne, DyingIsRunning, NobodyMeanwhile
  <1>2. HandleInv /\ HandleInvOne /\ [HandlesNext]_handleVars => HandleInvOne'
    BY HandlesInvOneStep
  <1> QED BY <1>1, <1>2, HandlesInitInv, HandlesInvStep, HandlesInitInvOne, PTL DEF HandlesSpec
=============================================================================
