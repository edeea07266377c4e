-------------------------- MODULE SharedData_proofs --------------------------
(***************************************************************************)
(* Proofs about SharedData for every number of clients, vm_ids, keys and    *)
(* values, every width of the cas counter and every number of stores.       *)
(*                                                                         *)
(* The argument: the k-th store gets the number (k % (CasMod - 1)) + 1, so   *)
(* equal numbers mean stores a multiple of CasMod - 1 apart (CasCycle), and *)
(* a client's copy of an entry is never newer than the entry (Inv).         *)
(***************************************************************************)
EXTENDS SharedData, TLAPS

Cycle == CasMod - 1

(* c is the number that the store with stamp s got. *)
CasAt(s, c) == \E q \in Nat : s = q * Cycle + (c - 1)

(* What the store knows of one entry. *)
Written(e) == e.stamp < writes /\ CasAt(e.stamp, e.cas)

Counter == CasAt(writes, cas)

(* Every entry a client or the store holds. *)
Held(e) ==
    /\ e # NoEntry
    /\ \/ \E vm \in VmIds, k \in Keys : data[vm][k] = e
       \/ \E c \in Clients, k \in Keys : seen[c][k] = e

EntriesWritten == \A e \in Entry : Held(e) => Written(e)

StampIdentifies == \A e, f \in Entry : (Held(e) /\ Held(f) /\ e.stamp = f.stamp) => e = f

SlotsDiffer ==
    \A vm1, vm2 \in VmIds : \A k1, k2 \in Keys :
        (data[vm1][k1] # NoEntry /\ data[vm2][k2] # NoEntry
           /\ data[vm1][k1].stamp = data[vm2][k2].stamp)
        => vm1 = vm2 /\ k1 = k2

SeenNotNewer ==
    \A c \in Clients, k \in Keys :
        (seen[c][k] # NoEntry /\ data[VmIdOf[c]][k] # NoEntry)
        => seen[c][k].stamp <= data[VmIdOf[c]][k].stamp

Inv ==
    /\ TypeOK
    /\ Counter
    /\ EntriesWritten
    /\ StampIdentifies
    /\ SlotsDiffer
    /\ SeenNotNewer
    /\ NoLostUpdate
    /\ NoSpuriousMismatch

-----------------------------------------------------------------------------
LEMMA CycleType == Cycle \in Nat /\ Cycle >= 1
  BY CasModAssumption DEF Cycle

(* Two stores with one number are the same store or a cycle apart. *)
LEMMA CasCycle ==
  ASSUME NEW s \in Nat, NEW t \in Nat, NEW c \in 1..Cycle,
         CasAt(s, c), CasAt(t, c), s <= t
  PROVE  s = t \/ t - s >= Cycle
  <1>1. PICK p \in Nat : s = p * Cycle + (c - 1)
    BY DEF CasAt
  <1>2. PICK q \in Nat : t = q * Cycle + (c - 1)
    BY DEF CasAt
  <1> DEFINE d == q - p
  <1>3. d \in Int /\ t - s = d * Cycle
    BY <1>1, <1>2, CycleType
  <1> HIDE DEF d
  <1>4. CASE d >= 1
    <2>1. d * Cycle >= Cycle
      BY <1>3, <1>4, CycleType
    <2> QED BY <2>1, <1>3
  <1>5. CASE d = 0
    BY <1>3, <1>5, CycleType
  <1>6. CASE d <= -1
    <2>1. d * Cycle <= -1
      BY <1>3, <1>6, CycleType
    <2> QED BY <2>1, <1>3, CycleType
  <1> QED BY <1>3, <1>4, <1>5, <1>6

(* nextCas keeps the counter in step with the number of stores. *)
LEMMA CounterStep ==
  ASSUME NEW s \in Nat, NEW c \in 1..Cycle, CasAt(s, c)
  PROVE  LET n == IF (c + 1) % CasMod = 0 THEN 1 ELSE c + 1
         IN  n \in 1..Cycle /\ CasAt(s + 1, n)
  <1>1. PICK q \in Nat : s = q * Cycle + (c - 1)
    BY DEF CasAt
  <1>2. CASE c = Cycle
    <2>1. (c + 1) % CasMod = 0
      BY <1>2, CasModAssumption DEF Cycle
    <2>2. s + 1 = (q + 1) * Cycle + (1 - 1)
      BY <1>1, <1>2, CycleType
    <2>3. CasAt(s + 1, 1)
      <3>1. q + 1 \in Nat
        OBVIOUS
      <3> QED BY <2>2, <3>1 DEF CasAt
    <2> QED BY <2>1, <2>3, CycleType
  <1>3. CASE c # Cycle
    <2>1. (c + 1) % CasMod = c + 1 /\ c + 1 \in 1..Cycle
      BY <1>3, CasModAssumption DEF Cycle
    <2>2. s + 1 = q * Cycle + ((c + 1) - 1)
      BY <1>1, CycleType
    <2>3. CasAt(s + 1, c + 1)
      BY <2>2 DEF CasAt
    <2> QED BY <2>1, <2>3
  <1> QED BY <1>2, <1>3

-----------------------------------------------------------------------------
LEMMA InitInv == Init => Inv
  <1> SUFFICES ASSUME Init PROVE Inv
    OBVIOUS
  <1>1. TypeOK
    BY CasModAssumption DEF Init, TypeOK, NoOp, MaybeEntry
  <1>2. Counter
    <2>1. 0 \in Nat /\ 0 = 0 * Cycle + (1 - 1)
      BY CycleType
    <2> QED BY <2>1 DEF Init, Counter, CasAt
  <1>3. \A e : ~Held(e)
    BY ClientsAssumption DEF Init, Held
  <1>4. EntriesWritten /\ StampIdentifies
    BY <1>3 DEF EntriesWritten, StampIdentifies
  <1>5. SlotsDiffer /\ SeenNotNewer
    BY ClientsAssumption DEF Init, SlotsDiffer, SeenNotNewer
  <1>6. NoLostUpdate /\ NoSpuriousMismatch
    BY <1>1 DEF Init, NoLostUpdate, NoSpuriousMismatch, NoOp
  <1> QED BY <1>1, <1>2, <1>4, <1>5, <1>6 DEF Inv

(* A step that stores nothing and brings no entry that nobody held. *)
LEMMA NoStore ==
  ASSUME Inv, UNCHANGED <<cas, writes>>, \A e \in Entry : Held(e)' => Held(e)
  PROVE  Counter' /\ EntriesWritten' /\ StampIdentifies'
  <1>1. Counter'
    BY DEF Inv, Counter, CasAt
  <1>2. EntriesWritten'
    BY DEF Inv, EntriesWritten, Written
  <1>3. StampIdentifies'
    BY DEF Inv, StampIdentifies
  <1> QED BY <1>1, <1>2, <1>3

LEMMA GetStep ==
  ASSUME Inv, NEW c \in Clients, NEW k \in Keys, GetSharedData(c, k)
  PROVE  Inv'
  <1> DEFINE met == data[VmIdOf[c]][k]
  <1> USE DEF Inv
  <1>0. VmIdOf[c] \in VmIds
    BY ClientsAssumption
  <1>1. met \in Entry /\ met # NoEntry /\ seen' = [seen EXCEPT ![c][k] = met]
    BY <1>0 DEF GetSharedData, TypeOK, MaybeEntry
  <1>2. TypeOK'
    BY <1>1 DEF GetSharedData, TypeOK, MaybeEntry
  <1>3. \A e \in Entry : Held(e)' => Held(e)
    <2> SUFFICES ASSUME NEW e \in Entry, NEW d \in Clients, NEW j \in Keys,
                        seen'[d][j] = e
                 PROVE  \/ \E vm \in VmIds, i \in Keys : data[vm][i] = e
                        \/ seen[d][j] = e
      BY NoEntryAssumption DEF Held, GetSharedData, Entry
    <2>1. CASE d = c /\ j = k
      <3>1. e = met
        BY <1>1, <2>1 DEF TypeOK
      <3> QED BY <3>1, <1>0
    <2>2. CASE ~(d = c /\ j = k)
      BY <1>1, <2>2 DEF TypeOK
    <2> QED BY <2>1, <2>2
  <1>4. Counter' /\ EntriesWritten' /\ StampIdentifies'
    BY <1>3, NoStore DEF GetSharedData
  <1>5. SlotsDiffer'
    BY DEF GetSharedData, SlotsDiffer
  <1>6. SeenNotNewer'
    <2> SUFFICES ASSUME NEW d \in Clients, NEW j \in Keys,
                        seen'[d][j] # NoEntry, data[VmIdOf[d]][j] # NoEntry
                 PROVE  seen'[d][j].stamp <= data[VmIdOf[d]][j].stamp
      BY DEF SeenNotNewer, GetSharedData
    <2>1. CASE d = c /\ j = k
      BY <1>1, <2>1 DEF TypeOK, Entry
    <2>2. CASE ~(d = c /\ j = k)
      <3>1. seen'[d][j] = seen[d][j]
        BY <1>1, <2>2 DEF TypeOK
      <3> QED BY <3>1 DEF SeenNotNewer
    <2> QED BY <2>1, <2>2
  <1>7. NoLostUpdate' /\ NoSpuriousMismatch'
    BY <1>2 DEF Inv, GetSharedData, NoLostUpdate, NoSpuriousMismatch
  <1> QED BY <1>2, <1>4, <1>5, <1>6, <1>7

(* What a comparison with the stored entry says of the caller's copy of it. *)
LEMMA Comparison ==
  ASSUME Inv, NEW c \in Clients, NEW k \in Keys, NEW expected \in {NoEntry, seen[c][k]},
         data[VmIdOf[c]][k] # NoEntry
  PROVE  LET met == data[VmIdOf[c]][k] IN
         /\ CasMatches(expected, met) /\ expected # NoEntry
              => met = expected \/ met.stamp - expected.stamp >= Cycle
         /\ ~CasMatches(expected, met) => met.stamp > expected.stamp
  <1> DEFINE met == data[VmIdOf[c]][k]
  <1> USE ClientsAssumption DEF Inv
  <1>1. met \in Entry /\ Held(met)
    BY DEF TypeOK, MaybeEntry, Held
  <1>2. CASE expected = NoEntry
    BY <1>2 DEF CasMatches
  <1>3. CASE expected # NoEntry
    <2>1. expected \in Entry /\ Held(expected)
      BY <1>3 DEF TypeOK, MaybeEntry, Held
    <2>2. expected.stamp <= met.stamp
      BY <1>3 DEF SeenNotNewer
    <2>3. CasAt(met.stamp, met.cas) /\ CasAt(expected.stamp, expected.cas)
      BY <1>1, <2>1 DEF EntriesWritten, Written
    <2>4. met.stamp = expected.stamp => met = expected
      BY <1>1, <2>1 DEF StampIdentifies
    <2>5. met.stamp \in Nat /\ expected.stamp \in Nat /\ met.cas \in 1..Cycle
      BY <1>1, <2>1 DEF Entry, Cycle
    <2>6. CASE met.cas = expected.cas
      <3>1. met.stamp = expected.stamp \/ met.stamp - expected.stamp >= Cycle
        BY <2>2, <2>3, <2>5, <2>6, CasCycle
      <3> QED BY <3>1, <2>4, <2>6 DEF CasMatches
    <2>7. CASE met.cas # expected.cas
      <3>1. met.stamp # expected.stamp
        BY <2>4, <2>7
      <3> QED BY <1>3, <2>2, <2>5, <2>7, <3>1 DEF CasMatches
    <2> QED BY <2>6, <2>7
  <1> QED BY <1>2, <1>3

LEMMA SetStep ==
  ASSUME Inv, NEW c \in Clients, NEW k \in Keys, NEW v \in Values,
         NEW expected \in {NoEntry, seen[c][k]},
         SetSharedData(c, k, v, expected)
  PROVE  Inv'
  <1> DEFINE vm == VmIdOf[c]
             met == data[vm][k]
             new == [value |-> v, cas |-> cas, stamp |-> writes]
  <1>0. vm \in VmIds /\ expected \in MaybeEntry /\ met \in MaybeEntry
    BY ClientsAssumption DEF Inv, TypeOK, MaybeEntry
  <1>1. CASE met = NoEntry \/ CasMatches(expected, met)
    <2>1. /\ data' = [data EXCEPT ![vm][k] = new]
          /\ cas' = NextCas
          /\ writes' = writes + 1
          /\ seen' = seen
          /\ last' = [op |-> "set", status |-> "Ok", expected |-> expected, met |-> met]
      BY <1>1 DEF SetSharedData, Store
    <2>2. new \in Entry /\ new # NoEntry
      BY CasModAssumption, NoEntryAssumption DEF Inv, TypeOK, Entry
    <2>3. cas' \in 1..Cycle /\ CasAt(writes', cas')
      BY <2>1, CounterStep DEF Inv, TypeOK, Counter, NextCas, Cycle
    <2>4. CasAt(new.stamp, new.cas) /\ new.stamp = writes
      BY DEF Inv, Counter
    <2>5. TypeOK'
      BY <1>0, <2>1, <2>2, <2>3 DEF Inv, TypeOK, MaybeEntry, Cycle
    <2>6. Counter'
      BY <2>1, <2>3 DEF Counter, CasAt
    <2>7. \A u \in VmIds, j \in Keys :
             data'[u][j] = IF u = vm /\ j = k THEN new ELSE data[u][j]
      BY <1>0, <2>1 DEF Inv, TypeOK
    <2>8. \A e \in Entry : Held(e)' => Held(e) \/ e = new
      BY <2>1, <2>7 DEF Held
    <2>9. \A e \in Entry : Held(e) => e.stamp < writes
      BY DEF Inv, EntriesWritten, Written
    <2>10. EntriesWritten'
      <3> SUFFICES ASSUME NEW e \in Entry, Held(e) \/ e = new
                   PROVE  e.stamp < writes + 1 /\ CasAt(e.stamp, e.cas)
        BY <2>1, <2>8 DEF EntriesWritten, Written, CasAt
      <3>1. CASE Held(e)
        BY <3>1 DEF Inv, TypeOK, EntriesWritten, Written, Entry
      <3>2. CASE e = new
        BY <2>4, <3>2 DEF Inv, TypeOK
      <3> QED BY <3>1, <3>2
    <2>11. StampIdentifies'
      <3> SUFFICES ASSUME NEW e \in Entry, NEW f \in Entry, Held(e) \/ e = new,
                          Held(f) \/ f = new, e.stamp = f.stamp
                   PROVE  e = f
        BY <2>8 DEF StampIdentifies
      <3>1. CASE Held(e) /\ Held(f)
        BY <3>1 DEF Inv, StampIdentifies
      <3>2. CASE e = new \/ f = new
        BY <2>4, <2>9, <3>2 DEF Inv, TypeOK
      <3> QED BY <3>1, <3>2
    <2>12. \A u \in VmIds, j \in Keys : data[u][j] # NoEntry => data[u][j].stamp < writes
      BY <2>9 DEF Inv, TypeOK, MaybeEntry, Held
    <2>13. SlotsDiffer'
      BY <2>4, <2>7, <2>12 DEF Inv, TypeOK, SlotsDiffer
    <2>14. SeenNotNewer'
      <3> SUFFICES ASSUME NEW d \in Clients, NEW j \in Keys, seen[d][j] # NoEntry,
                          data'[VmIdOf[d]][j] # NoEntry
                   PROVE  seen[d][j].stamp <= data'[VmIdOf[d]][j].stamp
        BY <2>1 DEF SeenNotNewer
      <3>1. VmIdOf[d] \in VmIds
        BY ClientsAssumption
      <3>2. CASE VmIdOf[d] = vm /\ j = k
        <4>1. seen[d][j] \in Entry /\ Held(seen[d][j])
          BY DEF Inv, TypeOK, MaybeEntry, Held
        <4>2. seen[d][j].stamp < writes /\ seen[d][j].stamp \in Nat
          BY <2>9, <4>1 DEF Entry
        <4>3. data'[VmIdOf[d]][j] = new
          BY <2>7, <3>1, <3>2
        <4> QED BY <2>4, <4>2, <4>3 DEF Inv, TypeOK
      <3>3. CASE ~(VmIdOf[d] = vm /\ j = k)
        BY <2>7, <3>1, <3>3 DEF Inv, SeenNotNewer
      <3> QED BY <3>2, <3>3
    <2>15. NoLostUpdate' /\ NoSpuriousMismatch'
      <3>1. (met # NoEntry /\ expected # NoEntry)
              => met = expected \/ met.stamp - expected.stamp >= Cycle
        BY <1>1, Comparison
      <3> QED BY <2>1, <2>5, <3>1 DEF NoLostUpdate, NoSpuriousMismatch, Cycle
    <2> QED BY <2>5, <2>6, <2>10, <2>11, <2>13, <2>14, <2>15 DEF Inv
  <1>2. CASE ~(met = NoEntry \/ CasMatches(expected, met))
    <2>1. /\ UNCHANGED <<data, cas, writes, seen>>
          /\ last' = [op |-> "set", status |-> "CasMismatch",
                       expected |-> expected, met |-> met]
      BY <1>2 DEF SetSharedData
    <2>2. TypeOK'
      BY <1>0, <2>1 DEF Inv, TypeOK
    <2>3. \A e \in Entry : Held(e)' => Held(e)
      BY <2>1 DEF Held
    <2>4. SlotsDiffer' /\ SeenNotNewer'
      BY <2>1 DEF Inv, SlotsDiffer, SeenNotNewer
    <2>5. NoLostUpdate' /\ NoSpuriousMismatch'
      <3>1. met.stamp > expected.stamp
        BY <1>2, Comparison
      <3> QED BY <2>1, <2>2, <3>1 DEF NoLostUpdate, NoSpuriousMismatch
    <2> QED BY <2>1, <2>2, <2>3, <2>4, <2>5, NoStore DEF Inv
  <1> QED BY <1>1, <1>2

LEMMA RemoveStep ==
  ASSUME Inv, NEW c \in Clients, NEW k \in Keys, NEW wanted \in BOOLEAN,
         NEW expected \in {NoEntry, seen[c][k]},
         RemoveSharedDataKey(c, k, expected, wanted)
  PROVE  Inv'
  <1> DEFINE vm == VmIdOf[c]
             met == data[vm][k]
  <1>0. vm \in VmIds /\ expected \in MaybeEntry /\ met \in Entry /\ met # NoEntry
    BY ClientsAssumption DEF Inv, TypeOK, MaybeEntry, RemoveSharedDataKey
  <1>1. CASE CasMatches(expected, met)
    <2>1. /\ data' = [data EXCEPT ![vm][k] = NoEntry]
          /\ seen' = IF wanted THEN [seen EXCEPT ![c][k] = met] ELSE seen
          /\ last' = [op |-> "remove", status |-> "Ok", expected |-> expected, met |-> met]
          /\ UNCHANGED <<cas, writes>>
      BY <1>1 DEF RemoveSharedDataKey
    <2>2. TypeOK'
      BY <1>0, <2>1 DEF Inv, TypeOK, MaybeEntry
    <2>3. \A u \in VmIds, j \in Keys :
             data'[u][j] = IF u = vm /\ j = k THEN NoEntry ELSE data[u][j]
      BY <1>0, <2>1 DEF Inv, TypeOK
    <2>4. \A d \in Clients, j \in Keys :
             seen'[d][j] = seen[d][j] \/ (d = c /\ j = k /\ seen'[d][j] = met)
      BY <2>1 DEF Inv, TypeOK
    <2>5. \A e \in Entry : Held(e)' => Held(e)
      BY <1>0, <2>3, <2>4 DEF Held
    <2>6. SlotsDiffer'
      BY <2>3 DEF Inv, SlotsDiffer
    <2>7. SeenNotNewer'
      <3> SUFFICES ASSUME NEW d \in Clients, NEW j \in Keys, seen'[d][j] # NoEntry,
                          data'[VmIdOf[d]][j] # NoEntry
                   PROVE  seen'[d][j].stamp <= data'[VmIdOf[d]][j].stamp
        BY DEF SeenNotNewer
      <3>1. VmIdOf[d] \in VmIds
        BY ClientsAssumption
      <3>2. data'[VmIdOf[d]][j] = data[VmIdOf[d]][j] /\ ~(VmIdOf[d] = vm /\ j = k)
        BY <2>3, <3>1
      <3>3. seen'[d][j] = seen[d][j]
        BY <2>4, <3>2
      <3> QED BY <3>2, <3>3 DEF Inv, SeenNotNewer
    <2>8. NoLostUpdate' /\ NoSpuriousMismatch'
      <3>1. expected # NoEntry => met = expected \/ met.stamp - expected.stamp >= Cycle
        BY <1>0, <1>1, Comparison
      <3> QED BY <2>1, <2>2, <3>1 DEF NoLostUpdate, NoSpuriousMismatch, Cycle
    <2> QED BY <2>1, <2>2, <2>5, <2>6, <2>7, <2>8, NoStore DEF Inv
  <1>2. CASE ~CasMatches(expected, met)
    <2>1. /\ UNCHANGED <<data, cas, writes, seen>>
          /\ last' = [op |-> "remove", status |-> "CasMismatch",
                       expected |-> expected, met |-> met]
      BY <1>2 DEF RemoveSharedDataKey
    <2>2. TypeOK'
      BY <1>0, <2>1 DEF Inv, TypeOK, MaybeEntry
    <2>3. \A e \in Entry : Held(e)' => Held(e)
      BY <2>1 DEF Held
    <2>4. SlotsDiffer' /\ SeenNotNewer'
      BY <2>1 DEF Inv, SlotsDiffer, SeenNotNewer
    <2>5. NoLostUpdate' /\ NoSpuriousMismatch'
      <3>1. met.stamp > expected.stamp
        BY <1>0, <1>2, Comparison
      <3> QED BY <2>1, <2>2, <3>1 DEF NoLostUpdate, NoSpuriousMismatch
    <2> QED BY <2>1, <2>2, <2>3, <2>4, <2>5, NoStore DEF Inv
  <1> QED BY <1>1, <1>2

LEMMA DeleteStep ==
  ASSUME Inv, NEW vm \in VmIds, DeleteByVmId(vm)
  PROVE  Inv'
  <1> USE DEF DeleteByVmId
  <1>1. TypeOK'
    BY DEF Inv, TypeOK, MaybeEntry
  <1>2. \A u \in VmIds, j \in Keys :
           data'[u][j] = IF u = vm THEN NoEntry ELSE data[u][j]
    BY DEF Inv, TypeOK
  <1>3. \A e \in Entry : Held(e)' => Held(e)
    BY <1>2 DEF Held
  <1>4. SlotsDiffer'
    BY <1>2 DEF Inv, SlotsDiffer
  <1>5. SeenNotNewer'
    BY <1>2, ClientsAssumption DEF Inv, SeenNotNewer
  <1>6. NoLostUpdate' /\ NoSpuriousMismatch'
    BY <1>1 DEF Inv, NoLostUpdate, NoSpuriousMismatch
  <1> QED BY <1>1, <1>3, <1>4, <1>5, <1>6, NoStore DEF Inv

LEMMA InvStep == Inv /\ [Next]_vars => Inv'
  <1> SUFFICES ASSUME Inv, [Next]_vars PROVE Inv'
    OBVIOUS
  <1>1. ASSUME NEW c \in Clients, ClientNext(c) PROVE Inv'
    BY <1>1, GetStep, SetStep, RemoveStep DEF ClientNext
  <1>2. ASSUME NEW vm \in VmIds, DeleteByVmId(vm) PROVE Inv'
    BY <1>2, DeleteStep
  <1>3. CASE UNCHANGED vars
    BY <1>3 DEF vars, Inv, TypeOK, Counter, CasAt, EntriesWritten, Written, Held,
                StampIdentifies, SlotsDiffer, SeenNotNewer, NoLostUpdate, NoSpuriousMismatch
  <1> QED BY <1>1, <1>2, <1>3 DEF Next

-----------------------------------------------------------------------------
(* Every state of SharedData is well-typed: cas_ and the numbers in the store *)
(* are never 0, the value set() takes for "unconditional".                  *)
THEOREM TypeCorrect == Spec => []TypeOK
  <1>1. Inv => TypeOK
    BY DEF Inv
  <1> QED BY <1>1, InitInv, InvStep, PTL DEF Spec

(* A conditional store or removal that succeeds and met an entry met the very *)
(* one its caller had read, or at least CasMod - 1 stores came between.  A    *)
(* store on a removed key met none.                                         *)
THEOREM CasIsSafe == Spec => []NoLostUpdate
  <1>1. Inv => NoLostUpdate
    BY DEF Inv
  <1> QED BY <1>1, InitInv, InvStep, PTL DEF Spec

(* A conditional call is refused only if the entry changed after the read.   *)
THEOREM MismatchIsReal == Spec => []NoSpuriousMismatch
  <1>1. Inv => NoSpuriousMismatch
    BY DEF Inv
  <1> QED BY <1>1, InitInv, InvStep, PTL DEF Spec

(* Two keys share a compare-and-swap number only when a cycle apart.         *)
THEOREM CasNumbersDiffer == Spec => []CasIdentifiesStore
  <1>1. Inv => CasIdentifiesStore
    <2> SUFFICES ASSUME Inv, NEW vm1 \in VmIds, NEW vm2 \in VmIds,
                        NEW k1 \in Keys, NEW k2 \in Keys,
                        data[vm1][k1] # NoEntry, data[vm2][k2] # NoEntry,
                        data[vm1][k1].cas = data[vm2][k2].cas,
                        ~(vm1 = vm2 /\ k1 = k2)
                 PROVE  \/ data[vm1][k1].stamp - data[vm2][k2].stamp >= Cycle
                        \/ data[vm2][k2].stamp - data[vm1][k1].stamp >= Cycle
      BY DEF CasIdentifiesStore, Cycle
    <2> DEFINE e == data[vm1][k1]
               f == data[vm2][k2]
    <2>1. e \in Entry /\ f \in Entry /\ Held(e) /\ Held(f)
      BY DEF Inv, TypeOK, MaybeEntry, Held
    <2>2. CasAt(e.stamp, e.cas) /\ CasAt(f.stamp, f.cas)
      BY <2>1 DEF Inv, EntriesWritten, Written
    <2>3. e.stamp \in Nat /\ f.stamp \in Nat /\ e.cas \in 1..Cycle /\ e.cas = f.cas
      BY <2>1 DEF Entry, Cycle
    <2>4. e.stamp # f.stamp
      BY DEF Inv, SlotsDiffer
    <2> HIDE DEF e, f
    <2>5. CASE e.stamp <= f.stamp
      BY <2>2, <2>3, <2>4, <2>5, CasCycle DEF e, f
    <2>6. CASE f.stamp <= e.stamp
      BY <2>2, <2>3, <2>4, <2>6, CasCycle DEF e, f
    <2> QED BY <2>3, <2>5, <2>6
  <1> QED BY <1>1, InitInv, InvStep, PTL DEF Spec
-----------------------------------------------------------------------------
(* The store with versions (VersionedStore.tla), under the mapping of          *)
(* SharedData.tla.                                                           *)
StoreBar == [vm \in VmIds |-> [k \in Keys |-> WithVersion(data[vm][k])]]
CopyBar == [c \in Clients |-> [k \in Keys |-> WithVersion(seen[c][k])]]
AnswerBar == [call |-> last.op, on |-> WithVersion(last.expected), status |-> last.status]

VersionStep == Versions!StoreNext \/ Revives \/ UNCHANGED <<StoreBar, writes, CopyBar, AnswerBar>>

(* What a version shows of an entry; none is taken for "not found".           *)
LEMMA VersionFacts ==
  ASSUME NEW e \in MaybeEntry
  PROVE  /\ WithVersion(NoEntry) = NoEntry
         /\ WithVersion(e) = NoEntry <=> e = NoEntry
         /\ e # NoEntry => /\ WithVersion(e).version = e.stamp
                           /\ e.stamp \in Nat
  <1>1. CASE e = NoEntry
    BY <1>1 DEF WithVersion
  <1>2. CASE e # NoEntry
    <2>1. e.value \in Values /\ e.stamp \in Nat
      BY <1>2 DEF MaybeEntry, Entry
    <2>2. [value |-> e.value, version |-> e.stamp] \in [value : Values, version : Nat]
      BY <2>1
    <2>3. [value |-> e.value, version |-> e.stamp] # NoEntry
      BY <2>2, NoEntryAssumption
    <2> QED BY <1>2, <2>1, <2>3 DEF WithVersion
  <1> QED BY <1>1, <1>2

(* A comparison of cas numbers is one of versions, up to a cycle.             *)
LEMMA ComparedVersions ==
  ASSUME Inv, NEW c \in Clients, NEW k \in Keys, NEW expected \in {NoEntry, seen[c][k]}
  PROVE  LET met == data[VmIdOf[c]][k] IN
         /\ expected = NoEntry \/ (met # NoEntry /\ CasMatches(expected, met))
              => Versions!Replaceable(WithVersion(expected), WithVersion(met))
         /\ ~(met = NoEntry \/ CasMatches(expected, met))
              => Versions!Refusable(WithVersion(expected), WithVersion(met))
  <1> DEFINE met == data[VmIdOf[c]][k]
  <1>1. expected \in MaybeEntry /\ met \in MaybeEntry
    BY ClientsAssumption DEF Inv, TypeOK, MaybeEntry
  <1>2. met # NoEntry =>
          /\ CasMatches(expected, met) /\ expected # NoEntry
               => met = expected \/ met.stamp - expected.stamp >= Cycle
          /\ ~CasMatches(expected, met) => met.stamp > expected.stamp
    BY Comparison
  <1>3. /\ WithVersion(expected) = NoEntry <=> expected = NoEntry
        /\ WithVersion(met) = NoEntry <=> met = NoEntry
        /\ expected # NoEntry => WithVersion(expected).version = expected.stamp
        /\ met # NoEntry => WithVersion(met).version = met.stamp
        /\ expected # NoEntry => expected.stamp \in Nat
    BY <1>1, VersionFacts
  <1> HIDE DEF met
  <1>4. ASSUME expected = NoEntry \/ (met # NoEntry /\ CasMatches(expected, met))
        PROVE  Versions!Replaceable(WithVersion(expected), WithVersion(met))
    BY <1>2, <1>3, <1>4 DEF Versions!Replaceable, Cycle
  <1>5. ASSUME ~(met = NoEntry \/ CasMatches(expected, met))
        PROVE  Versions!Refusable(WithVersion(expected), WithVersion(met))
    <2>1. expected # NoEntry
      BY <1>5 DEF CasMatches
    <2>2. WithVersion(met) # WithVersion(expected)
      BY <1>2, <1>3, <1>5, <2>1
    <2> QED BY <1>3, <1>5, <2>1, <2>2 DEF Versions!Refusable
  <1> QED BY <1>4, <1>5 DEF met

(* The entry a client meets, and the copy it makes a call conditional on, at   *)
(* the level of versions.                                                     *)
LEMMA MetVersions ==
  ASSUME Inv, NEW c \in Clients, NEW k \in Keys, NEW expected \in {NoEntry, seen[c][k]}
  PROVE  /\ StoreBar[VmIdOf[c]][k] = WithVersion(data[VmIdOf[c]][k])
         /\ WithVersion(expected) \in {NoEntry, CopyBar[c][k]}
  BY ClientsAssumption DEF StoreBar, CopyBar, WithVersion

(* One slot of data_ changes, and so does one of the store.                   *)
LEMMA SlotChange ==
  ASSUME Inv, NEW vm \in VmIds, NEW k \in Keys, NEW e,
         data' = [data EXCEPT ![vm][k] = e]
  PROVE  StoreBar' = [StoreBar EXCEPT ![vm][k] = WithVersion(e)]
  <1>1. \A u \in VmIds, j \in Keys :
           data'[u][j] = IF u = vm /\ j = k THEN e ELSE data[u][j]
    BY DEF Inv, TypeOK
  <1>2. StoreBar' = [u \in VmIds |-> [j \in Keys |-> WithVersion(data'[u][j])]]
    BY DEF StoreBar, WithVersion
  <1>3. ASSUME NEW u \in VmIds, NEW j \in Keys
        PROVE  WithVersion(data'[u][j])
                 = IF u = vm /\ j = k THEN WithVersion(e) ELSE WithVersion(data[u][j])
    BY <1>1
  <1>4. StoreBar'
          = [u \in VmIds |-> [j \in Keys |->
               IF u = vm /\ j = k THEN WithVersion(e) ELSE WithVersion(data[u][j])]]
    BY <1>2, <1>3
  <1> QED BY <1>4 DEF StoreBar

(* The same for what a client has read.                                       *)
LEMMA CopyChange ==
  ASSUME Inv, NEW c \in Clients, NEW k \in Keys, NEW e,
         seen' = [seen EXCEPT ![c][k] = e]
  PROVE  CopyBar' = [CopyBar EXCEPT ![c][k] = WithVersion(e)]
  <1>1. \A d \in Clients, j \in Keys :
           seen'[d][j] = IF d = c /\ j = k THEN e ELSE seen[d][j]
    BY DEF Inv, TypeOK
  <1>2. CopyBar' = [d \in Clients |-> [j \in Keys |-> WithVersion(seen'[d][j])]]
    BY DEF CopyBar, WithVersion
  <1>3. ASSUME NEW d \in Clients, NEW j \in Keys
        PROVE  WithVersion(seen'[d][j])
                 = IF d = c /\ j = k THEN WithVersion(e) ELSE WithVersion(seen[d][j])
    BY <1>1
  <1>4. CopyBar'
          = [d \in Clients |-> [j \in Keys |->
               IF d = c /\ j = k THEN WithVersion(e) ELSE WithVersion(seen[d][j])]]
    BY <1>2, <1>3
  <1> QED BY <1>4 DEF CopyBar

(* What does not change below does not change above.                          *)
LEMMA SameVersions ==
  /\ UNCHANGED data => UNCHANGED StoreBar
  /\ UNCHANGED seen => UNCHANGED CopyBar
  /\ UNCHANGED last => UNCHANGED AnswerBar
  BY DEF StoreBar, CopyBar, AnswerBar, WithVersion

LEMMA ReadImplements ==
  ASSUME Inv, NEW c \in Clients, NEW k \in Keys, GetSharedData(c, k)
  PROVE  Versions!Read(c, k)
  <1> DEFINE met == data[VmIdOf[c]][k]
  <1>1. met # NoEntry /\ seen' = [seen EXCEPT ![c][k] = met]
    BY DEF GetSharedData
  <1>2. met \in MaybeEntry
    BY ClientsAssumption DEF Inv, TypeOK
  <1>3. CopyBar' = [CopyBar EXCEPT ![c][k] = WithVersion(met)]
    BY <1>1, CopyChange
  <1>4. StoreBar[VmIdOf[c]][k] = WithVersion(met) /\ WithVersion(met) # NoEntry
    BY <1>1, <1>2, VersionFacts, MetVersions
  <1>5. UNCHANGED <<StoreBar, writes, AnswerBar>>
    BY SameVersions DEF GetSharedData
  <1> QED BY <1>3, <1>4, <1>5 DEF Versions!Read, StoreBar, CopyBar, AnswerBar

(* A call that is refused: only its answer changes.                           *)
LEMMA RefusalImplements ==
  ASSUME Inv, NEW c \in Clients, NEW k \in Keys, NEW expected \in {NoEntry, seen[c][k]},
         NEW call \in {"set", "remove"},
         ~(data[VmIdOf[c]][k] = NoEntry \/ CasMatches(expected, data[VmIdOf[c]][k])),
         UNCHANGED <<data, writes, seen>>,
         last' = [op |-> call, status |-> "CasMismatch",
                  expected |-> expected, met |-> data[VmIdOf[c]][k]]
  PROVE  Versions!Refuse(c, k, call, WithVersion(expected))
  <1>1. Versions!Refusable(WithVersion(expected), StoreBar[VmIdOf[c]][k])
    BY ComparedVersions, MetVersions
  <1>2. AnswerBar' = [call |-> call, on |-> WithVersion(expected), status |-> "CasMismatch"]
    BY DEF AnswerBar, WithVersion
  <1>3. UNCHANGED <<StoreBar, writes, CopyBar>>
    BY SameVersions
  <1> QED BY <1>1, <1>2, <1>3 DEF Versions!Refuse, StoreBar, CopyBar, AnswerBar

(* A conditional store on an absent key is the one step that is none of that   *)
(* store's: the same entry is put, and only the condition is not asked for.    *)
LEMMA SetImplements ==
  ASSUME Inv, NEW c \in Clients, NEW k \in Keys, NEW v \in Values,
         NEW expected \in {NoEntry, seen[c][k]}, SetSharedData(c, k, v, expected)
  PROVE  \/ Versions!Write(c, k, v, WithVersion(expected))
         \/ Versions!Refuse(c, k, "set", WithVersion(expected))
         \/ Revives
  <1> DEFINE vm == VmIdOf[c]
             met == data[vm][k]
             new == [value |-> v, cas |-> cas, stamp |-> writes]
  <1>1. CASE met = NoEntry \/ CasMatches(expected, met)
    <2>1. /\ data' = [data EXCEPT ![vm][k] = new]
          /\ writes' = writes + 1
          /\ seen' = seen
          /\ last' = [op |-> "set", status |-> "Ok", expected |-> expected, met |-> met]
      BY <1>1 DEF SetSharedData, Store
    <2>2. vm \in VmIds
      BY ClientsAssumption
    <2>3. StoreBar' = [StoreBar EXCEPT ![vm][k] = WithVersion(new)]
      BY <2>1, <2>2, SlotChange
    <2>4. WithVersion(new) = [value |-> v, version |-> writes]
      <3>1. new \in [value : Values, cas : Nat, stamp : Nat]
        BY CasModAssumption DEF Inv, TypeOK
      <3>2. new # NoEntry
        BY <3>1, NoEntryAssumption
      <3> QED BY <3>2 DEF WithVersion
    <2>6. AnswerBar' = [call |-> "set", on |-> WithVersion(expected), status |-> "Ok"]
      BY <2>1 DEF AnswerBar, WithVersion
    <2>7. CopyBar' = CopyBar
      BY <2>1, SameVersions
    <2> HIDE DEF new
    <2> HIDE DEF met, vm
    <2>8. Versions!Put(c, k, v, WithVersion(expected))
      BY <2>1, <2>3, <2>4, <2>6, <2>7 DEF vm, Versions!Put, StoreBar, CopyBar, AnswerBar
    <2>9. CASE expected = NoEntry \/ met # NoEntry
      <3>1. Versions!Replaceable(WithVersion(expected), StoreBar[vm][k])
        BY <1>1, <2>9, ComparedVersions, MetVersions DEF met, vm
      <3> QED BY <2>8, <3>1 DEF vm, Versions!Write, StoreBar
    <2>10. CASE ~(expected = NoEntry \/ met # NoEntry)
      <3>1. seen[c][k] # NoEntry /\ data[VmIdOf[c]][k] = NoEntry /\ expected = seen[c][k]
        BY <2>10 DEF met, vm
      <3>2. Versions!Put(c, k, v, WithVersion(seen[c][k]))
        BY <2>8, <3>1
      <3> QED BY <3>1, <3>2 DEF Revives
    <2> QED BY <2>9, <2>10
  <1>2. CASE ~(met = NoEntry \/ CasMatches(expected, met))
    BY <1>2, RefusalImplements DEF SetSharedData
  <1> QED BY <1>1, <1>2

LEMMA RemoveImplements ==
  ASSUME Inv, NEW c \in Clients, NEW k \in Keys, NEW wanted \in BOOLEAN,
         NEW expected \in {NoEntry, seen[c][k]},
         RemoveSharedDataKey(c, k, expected, wanted)
  PROVE  \/ Versions!Remove(c, k, WithVersion(expected))
         \/ Versions!Refuse(c, k, "remove", WithVersion(expected))
  <1> DEFINE vm == VmIdOf[c]
             met == data[vm][k]
  <1>1. met # NoEntry /\ met \in MaybeEntry /\ vm \in VmIds
    BY ClientsAssumption DEF Inv, TypeOK, RemoveSharedDataKey
  <1>2. CASE CasMatches(expected, met)
    <2>1. /\ data' = [data EXCEPT ![vm][k] = NoEntry]
          /\ seen' = IF wanted THEN [seen EXCEPT ![c][k] = met] ELSE seen
          /\ last' = [op |-> "remove", status |-> "Ok", expected |-> expected, met |-> met]
          /\ writes' = writes
      BY <1>2 DEF RemoveSharedDataKey
    <2>2. StoreBar' = [StoreBar EXCEPT ![vm][k] = NoEntry]
      <3>1. StoreBar' = [StoreBar EXCEPT ![vm][k] = WithVersion(NoEntry)]
        BY <1>1, <2>1, SlotChange
      <3> QED BY <3>1 DEF WithVersion
    <2>3. StoreBar[vm][k] = WithVersion(met) /\ WithVersion(met) # NoEntry
      BY <1>1, VersionFacts, MetVersions
    <2>4. CopyBar' \in {CopyBar, [CopyBar EXCEPT ![c][k] = StoreBar[vm][k]]}
      <3>1. CASE wanted
        BY <2>1, <2>3, <3>1, CopyChange
      <3>2. CASE ~wanted
        BY <2>1, <3>2, SameVersions
      <3> QED BY <3>1, <3>2
    <2>5. Versions!Replaceable(WithVersion(expected), StoreBar[vm][k])
      BY <1>1, <1>2, ComparedVersions, MetVersions
    <2>6. AnswerBar' = [call |-> "remove", on |-> WithVersion(expected), status |-> "Ok"]
      BY <2>1 DEF AnswerBar, WithVersion
    <2> QED BY <2>1, <2>2, <2>3, <2>4, <2>5, <2>6
            DEF Versions!Remove, StoreBar, CopyBar, AnswerBar
  <1>3. CASE ~CasMatches(expected, met)
    BY <1>1, <1>3, RefusalImplements DEF RemoveSharedDataKey
  <1> QED BY <1>2, <1>3

LEMMA DeleteImplements ==
  ASSUME Inv, NEW vm \in VmIds, DeleteByVmId(vm)
  PROVE  Versions!Forget(vm)
  <1>1. \A u \in VmIds, j \in Keys :
           data'[u][j] = IF u = vm THEN NoEntry ELSE data[u][j]
    BY DEF Inv, TypeOK, DeleteByVmId
  <1>2. StoreBar' = [u \in VmIds |-> [j \in Keys |-> WithVersion(data'[u][j])]]
    BY DEF StoreBar, WithVersion
  <1>3. ASSUME NEW u \in VmIds, NEW j \in Keys
        PROVE  WithVersion(data'[u][j]) = IF u = vm THEN NoEntry ELSE WithVersion(data[u][j])
    BY <1>1 DEF WithVersion
  <1>4. StoreBar' = [u \in VmIds |-> [j \in Keys |->
                       IF u = vm THEN NoEntry ELSE WithVersion(data[u][j])]]
    BY <1>2, <1>3
  <1>5. StoreBar' = [StoreBar EXCEPT ![vm] = [j \in Keys |-> NoEntry]]
    BY <1>4 DEF StoreBar
  <1>6. UNCHANGED <<writes, CopyBar, AnswerBar>>
    BY SameVersions DEF DeleteByVmId
  <1> QED BY <1>5, <1>6 DEF Versions!Forget, StoreBar, CopyBar, AnswerBar

LEMMA StepImplements == Inv /\ [Next]_vars => VersionStep
  <1> SUFFICES ASSUME Inv, [Next]_vars PROVE VersionStep
    OBVIOUS
  <1>1. ASSUME NEW c \in Clients, ClientNext(c) PROVE VersionStep
    <2>1. PICK k \in Keys :
            \/ GetSharedData(c, k)
            \/ \E expected \in {NoEntry, seen[c][k]} :
                  \/ \E v \in Values : SetSharedData(c, k, v, expected)
                  \/ \E wanted \in BOOLEAN : RemoveSharedDataKey(c, k, expected, wanted)
      BY <1>1 DEF ClientNext
    <2> SUFFICES Versions!ClientStep(c, k) \/ Revives
      BY DEF VersionStep, Versions!StoreNext
    <2>2. CASE GetSharedData(c, k)
      BY <2>2, ReadImplements DEF Versions!ClientStep
    <2>3. ASSUME NEW expected \in {NoEntry, seen[c][k]}, NEW v \in Values,
                 SetSharedData(c, k, v, expected)
          PROVE  Versions!ClientStep(c, k) \/ Revives
      BY <2>3, SetImplements, MetVersions DEF Versions!ClientStep, CopyBar
    <2>4. ASSUME NEW expected \in {NoEntry, seen[c][k]}, NEW wanted \in BOOLEAN,
                 RemoveSharedDataKey(c, k, expected, wanted)
          PROVE  Versions!ClientStep(c, k)
      BY <2>4, RemoveImplements, MetVersions DEF Versions!ClientStep, CopyBar
    <2> QED BY <2>1, <2>2, <2>3, <2>4
  <1>2. ASSUME NEW vm \in VmIds, DeleteByVmId(vm) PROVE VersionStep
    BY <1>2, DeleteImplements DEF VersionStep, Versions!StoreNext
  <1>3. CASE UNCHANGED vars
    BY <1>3, SameVersions DEF vars, VersionStep
  <1> QED BY <1>1, <1>2, <1>3 DEF Next

LEMMA InitImplements == Init => Versions!StoreInit
  BY DEF Init, NoOp, WithVersion, Versions!StoreInit

(* But for conditional stores on absent keys, the shared data implement a     *)
(* store whose versions never come back: a conditional call goes through on   *)
(* the version its caller read and on no other, unless a whole cycle of cas   *)
(* numbers has been given out meanwhile, and a refused one changes nothing.    *)
THEOREM VersionsImplemented == Spec => ImplementsStoreButRevives
  <1>1. Inv /\ [Next]_vars => [Versions!StoreNext \/ Revives]_(Versions!storeVars)
    BY StepImplements
       DEF VersionStep, Versions!storeVars, StoreBar, CopyBar, AnswerBar
  <1> QED BY <1>1, InitImplements, InitInv, InvStep, PTL
          DEF Spec, ImplementsStoreButRevives
=============================================================================
