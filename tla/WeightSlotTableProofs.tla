----------------------- MODULE WeightSlotTableProofs -----------------------
(***************************************************************************)
(* Proofs about the weight slot table, for any module types, lists, ring   *)
(* sizes and number of passes.                                             *)
(***************************************************************************)
EXTENDS WeightSlotTableInvariants, TLAPS

LOCAL INSTANCE WellFoundedInduction

USE ZenonT(60)

-----------------------------------------------------------------------------
(* Slots and lists. *)

\* The references of the table are the pairs of a type and a slot number.
LEMMA RefPairs ==
    /\ \A t \in ModuleTypes : \A i \in DOMAIN slots[t] : <<t, i>> \in Refs
    /\ \A r \in Refs : /\ r = <<r[1], r[2]>>
                       /\ r[1] \in ModuleTypes
                       /\ r[2] \in DOMAIN slots[r[1]]
  BY SMTT(30) DEF Refs

\* The same of the next state.
LEMMA RefPairsNext ==
    /\ \A t \in ModuleTypes : \A i \in DOMAIN slots'[t] : <<t, i>> \in Refs'
    /\ \A r \in Refs' : /\ r = <<r[1], r[2]>>
                        /\ r[1] \in ModuleTypes
                        /\ r[2] \in DOMAIN slots'[r[1]]
  BY SMTT(30) DEF Refs

\* A ring of FREE slots is well typed.
LEMMA FreeRing ==
    ASSUME NEW n \in Nat
    PROVE  /\ FreeSlot \in Slot
           /\ FreeSlots(n) \in Seq(Slot)
           /\ DOMAIN FreeSlots(n) = 1..n
           /\ \A i \in 1..n : FreeSlots(n)[i] = FreeSlot
  <1>1. FreeSlot \in Slot
    BY DEF FreeSlot, Slot, SlotStates
  <1>2. FreeSlots(n) \in [1..n -> Slot]
    BY <1>1 DEF FreeSlots
  <1>3. FreeSlots(n) \in Seq(Slot)
    BY <1>2, SMTT(30)
  <1>4. QED  BY <1>1, <1>3 DEF FreeSlots

\* A table of such rings is well typed and all FREE.
LEMMA FreeTable ==
    ASSUME NEW f \in [ModuleTypes -> Nat],
           slots' = [t \in ModuleTypes |-> FreeSlots(f[t])]
    PROVE  /\ slots' \in [ModuleTypes -> Seq(Slot)]
           /\ \A t \in ModuleTypes : \A i \in DOMAIN slots'[t] : slots'[t][i] = FreeSlot
  <1>1. ASSUME NEW t \in ModuleTypes
        PROVE  /\ slots'[t] \in Seq(Slot)
               /\ \A i \in DOMAIN slots'[t] : slots'[t][i] = FreeSlot
    <2>1. slots'[t] = FreeSlots(f[t]) /\ f[t] \in Nat
      OBVIOUS
    <2>2. QED  BY <2>1, FreeRing
  <1>2. QED  BY <1>1

\* A step that leaves slots and index alone keeps what is said of them alone.
LEMMA SlotsKept ==
    ASSUME SlotsTyped, FreeUnnamed, IndexExact, UNCHANGED <<slots, index>>
    PROVE  /\ SlotsTyped' /\ FreeUnnamed' /\ IndexExact' /\ Refs' = Refs
           /\ \A r \in Refs : At(r)' = At(r)
  <1>1. Refs' = Refs /\ \A r \in Refs : At(r)' = At(r)
    BY DEF Refs, At
  <1>2. SlotsTyped'
    BY <1>1 DEF SlotsTyped
  <1>3. FreeUnnamed'
    BY DEF FreeUnnamed
  <1>4. IndexExact'
    BY DEF IndexExact, Refs, At
  <1>5. QED  BY <1>1, <1>2, <1>3, <1>4

\* An installed module has one type and one position, and its list has it
\* there.
LEMMA Located ==
    ASSUME CursorsInside
    PROVE  /\ \A t \in ModuleTypes : \A k \in DOMAIN lists[t] :
                /\ lists[t][k] \in Installed
                /\ TypeOf(lists[t][k]) = t
                /\ PositionOf(lists[t][k]) = k
           /\ \A m \in Installed :
                /\ TypeOf(m) \in ModuleTypes
                /\ PositionOf(m) \in DOMAIN lists[TypeOf(m)]
                /\ lists[TypeOf(m)][PositionOf(m)] = m
  <1>1. ASSUME NEW m \in Installed
        PROVE  /\ TypeOf(m) \in ModuleTypes
               /\ m \in Range(lists[TypeOf(m)])
    BY DEF Installed, TypeOf
  <1>2. ASSUME NEW m \in Installed
        PROVE  /\ PositionOf(m) \in DOMAIN lists[TypeOf(m)]
               /\ lists[TypeOf(m)][PositionOf(m)] = m
    <2>1. \E k \in DOMAIN lists[TypeOf(m)] : lists[TypeOf(m)][k] = m
      BY <1>1 DEF Range
    <2>2. QED  BY <2>1 DEF PositionOf
  <1>3. ASSUME NEW t \in ModuleTypes, NEW k \in DOMAIN lists[t]
        PROVE  /\ lists[t][k] \in Installed
               /\ TypeOf(lists[t][k]) = t
               /\ PositionOf(lists[t][k]) = k
    <2>1. lists[t][k] \in Installed
      BY SMTT(30) DEF Installed, Range
    <2>2. QED  BY <2>1, <1>1, <1>2, SMTT(30) DEF CursorsInside
  <1>4. QED  BY <1>1, <1>2, <1>3

\* A deque of consecutive ids that ends below n is an interval of ids.
LEMMA DequeInterval ==
    ASSUME NEW d \in Seq(Nat), NEW n \in Nat, n > Len(d),
           \A i \in 1..Len(d) : d[i] = n - Len(d) + i - 1
    PROVE  /\ Range(d) = (n - Len(d))..(n - 1)
           /\ d # <<>> => Head(d) = n - Len(d) /\ Head(d) \in Range(d)
  <1>1. Len(d) \in Nat /\ DOMAIN d = 1..Len(d)
    BY SMTT(30)
  <1>2. ASSUME NEW p \in Range(d) PROVE p \in (n - Len(d))..(n - 1)
    BY <1>1, SMTT(30) DEF Range
  <1>3. ASSUME NEW p \in (n - Len(d))..(n - 1) PROVE p \in Range(d)
    <2> DEFINE i == p - (n - Len(d)) + 1
    <2>1. i \in 1..Len(d)
      BY <1>1, SMTT(30)
    <2>2. d[i] = p
      BY <1>1, <2>1, SMTT(30)
    <2>3. QED  BY <1>1, <2>1, <2>2 DEF Range
  <1>4. ASSUME d # <<>> PROVE Len(d) >= 1 /\ Head(d) = d[1] /\ d[1] = n - Len(d)
    BY <1>1, <1>4, SMTT(30)
  <1>5. d # <<>> => Head(d) \in Range(d)
    BY <1>1, <1>4, SMTT(30) DEF Range
  <1>6. QED  BY <1>2, <1>3, <1>4, <1>5

\* The same of the open passes.
LEMMA OpenInterval ==
    ASSUME ScheduleTyped, DequeConsecutive
    PROVE  /\ Open = (nextPass - Len(openPasses))..(nextPass - 1)
           /\ Open \subseteq Nat
           /\ openPasses # <<>> =>
                CurrentPass = nextPass - Len(openPasses) /\ CurrentPass \in Open
  <1>1. /\ Open = (nextPass - Len(openPasses))..(nextPass - 1)
        /\ openPasses # <<>> =>
             CurrentPass = nextPass - Len(openPasses) /\ CurrentPass \in Open
    BY DequeInterval DEF Open, CurrentPass, ScheduleTyped, DequeConsecutive
  <1>2. QED  BY <1>1, SMTT(30) DEF ScheduleTyped, DequeConsecutive

-----------------------------------------------------------------------------
(* Steps that change slots. *)

\* The slots of a well typed table are slots.
LEMMA SlotTyped ==
    ASSUME SlotsTyped, NEW r \in Refs
    PROVE  At(r) \in Slot /\ At(r).name \in Modules \union {None} /\ At(r).pass \in Nat
  <1>1. r[1] \in ModuleTypes /\ r[2] \in DOMAIN slots[r[1]]
    BY RefPairs
  <1>2. slots[r[1]] \in Seq(Slot)
    BY <1>1 DEF SlotsTyped
  <1>3. slots[r[1]][r[2]] \in Slot
    BY <1>1, <1>2, SMTT(30)
  <1>4. QED  BY <1>3 DEF At, Slot

\* The index names the active slots, each under its key, and no other.
LEMMA IndexActive ==
    ASSUME IndexExact
    PROVE  /\ \A k \in DOMAIN index : /\ index[k] \in Refs
                                      /\ Active(index[k])
                                      /\ k = Key(index[k])
           /\ \A r \in Refs : Active(r) => /\ Key(r) \in DOMAIN index
                                           /\ index[Key(r)] = r
  <1>1. \A r \in Refs : Active(r) <=> r \in Range(index)
    BY DEF IndexExact, Active
  <1>2. \A k \in DOMAIN index : index[k] \in Refs /\ Active(index[k])
    BY DEF IndexExact, Active, Range
  <1>3. \A k \in DOMAIN index : k = Key(index[k])
    BY DEF IndexExact, Key
  <1>4. QED  BY <1>1, <1>2, <1>3 DEF Range

\* A table whose index names exactly the active slots has an exact index.
LEMMA IndexActiveNext ==
    ASSUME \A k \in DOMAIN index' : \E r \in Refs' :
               index'[k] = r /\ Active(r)' /\ k = Key(r)',
           \A r \in Refs' : Active(r)' => \E k \in DOMAIN index' : index'[k] = r
    PROVE  IndexExact'
  <1>1. \A k \in DOMAIN index' : k = <<At(index[k])'.name, At(index[k])'.pass>>
    BY DEF Key, At
  <1>2. {r \in Refs' : Active(r)'} = Range(index')
    BY DEF Range
  <1>3. QED  BY <1>1, <1>2 DEF IndexExact, Active

\* A step that names no slot, and takes the keys K out of the index with the
\* slots they name, keeps slots and index consistent.
LEMMA SlotStep ==
    ASSUME SlotsInv, NEW K,
           UNCHANGED <<lists, cursors, openPasses>>,
           slots' \in [ModuleTypes -> Seq(Slot)],
           DOMAIN index' = DOMAIN index \ K,
           \A k \in DOMAIN index' : index'[k] = index[k],
           \A r \in Refs' :
               /\ At(r)'.state = "FREE" => At(r)'.name = None
               /\ At(r)'.name # None => /\ r \in Refs
                                        /\ At(r)'.name = At(r).name
                                        /\ At(r)'.pass = At(r).pass
               /\ Active(r)' => Active(r) /\ Key(r) \notin K,
           \A r \in Refs : Active(r) /\ Key(r) \notin K => r \in Refs' /\ Active(r)'
    PROVE  SlotsInv'
  <1>1. \A k \in DOMAIN index' : \E r \in Refs' :
            index'[k] = r /\ Active(r)' /\ k = Key(r)'
    <2> TAKE k \in DOMAIN index'
    <2>1. k \in DOMAIN index /\ k \notin K /\ index'[k] = index[k]
      OBVIOUS
    <2>2. PICK r \in Refs : r = index[k] /\ Active(r) /\ k = Key(r)
      BY <2>1, IndexActive DEF SlotsInv
    <2>3. r \in Refs' /\ Active(r)'
      BY <2>1, <2>2
    <2>4. At(r)'.name = At(r).name /\ At(r)'.pass = At(r).pass
      BY <2>3 DEF Active
    <2>5. QED  BY <2>1, <2>2, <2>3, <2>4 DEF Key
  <1>2. \A r \in Refs' : Active(r)' => \E k \in DOMAIN index' : index'[k] = r
    <2> SUFFICES ASSUME NEW r \in Refs', Active(r)'
                 PROVE  \E k \in DOMAIN index' : index'[k] = r
      OBVIOUS
    <2>1. r \in Refs /\ Active(r) /\ Key(r) \notin K
      BY DEF Active
    <2>2. Key(r) \in DOMAIN index /\ index[Key(r)] = r
      BY <2>1, IndexActive DEF SlotsInv
    <2>3. QED  BY <2>1, <2>2
  <1>3. IndexExact'
    BY <1>1, <1>2, IndexActiveNext
  <1>4. SlotsTyped'
    BY <1>1 DEF SlotsTyped, SlotsInv
  <1>5. FreeUnnamed'
    BY RefPairsNext DEF FreeUnnamed, At
  <1>6. NamedBehindCursor'
    <2> SUFFICES ASSUME NEW r \in Refs', At(r)'.name # None
                 PROVE  (/\ At(r).pass \in Open
                         /\ At(r).name \in Range(lists[r[1]])
                         /\ Produced(At(r).name, At(r).pass))'
      BY DEF NamedBehindCursor
    <2>1. /\ r \in Refs /\ At(r).name # None
          /\ At(r)'.name = At(r).name /\ At(r)'.pass = At(r).pass
      OBVIOUS
    <2>2. /\ At(r).pass \in Open
          /\ At(r).name \in Range(lists[r[1]])
          /\ Produced(At(r).name, At(r).pass)
      BY <2>1 DEF NamedBehindCursor, SlotsInv
    <2>3. QED
      BY <2>1, <2>2, SMTT(30) DEF Open, Produced, TypeOf, PositionOf
  <1>7. QED  BY <1>3, <1>4, <1>5, <1>6 DEF SlotsInv

\* The same of a step that leaves the index alone.
LEMMA SlotStepIndexed ==
    ASSUME SlotsInv,
           UNCHANGED <<index, lists, cursors, openPasses>>,
           slots' \in [ModuleTypes -> Seq(Slot)],
           Refs \subseteq Refs',
           \A r \in Refs' :
               /\ At(r)'.state = "FREE" => At(r)'.name = None
               /\ At(r)'.name # None => /\ r \in Refs
                                        /\ At(r)'.name = At(r).name
                                        /\ At(r)'.pass = At(r).pass
               /\ Active(r)' => Active(r),
           \A r \in Refs : Active(r) => Active(r)'
    PROVE  SlotsInv'
  <1> DEFINE K == {}
  <1>1. /\ DOMAIN index' = DOMAIN index \ K
        /\ \A k \in DOMAIN index' : index'[k] = index[k]
        /\ \A r \in Refs' : Active(r)' => Active(r) /\ Key(r) \notin K
        /\ \A r \in Refs : Active(r) /\ Key(r) \notin K => r \in Refs' /\ Active(r)'
    OBVIOUS
  <1> HIDE DEF K
  <1>2. QED  BY <1>1, SlotStep

\* A FREE slot has no name, said of references.
LEMMA FreeRefs ==
    ASSUME SlotsInv, NEW r \in Refs, At(r).state = "FREE"
    PROVE  At(r).name = None
  BY RefPairs DEF SlotsInv, FreeUnnamed, At

\* Replacing one slot leaves the others alone.
LEMMA OneSlot ==
    ASSUME SlotsTyped, NEW t \in ModuleTypes, NEW i \in DOMAIN slots[t], NEW s \in Slot,
           slots' = [slots EXCEPT ![t][i] = s]
    PROVE  /\ slots' \in [ModuleTypes -> Seq(Slot)]
           /\ Refs' = Refs
           /\ <<t, i>> \in Refs
           /\ \A r \in Refs : At(r)' = IF r = <<t, i>> THEN s ELSE At(r)
  <1>1. slots[t] \in Seq(Slot) /\ DOMAIN slots[t] = 1..Len(slots[t])
    BY SMTT(30) DEF SlotsTyped
  <1>2. [slots[t] EXCEPT ![i] = s] \in Seq(Slot)
    BY <1>1, SMTT(30)
  <1>3. slots' \in [ModuleTypes -> Seq(Slot)]
    BY <1>2 DEF SlotsTyped
  <1>4. \A u \in ModuleTypes : DOMAIN slots'[u] = DOMAIN slots[u]
    BY DEF SlotsTyped
  <1>5. Refs' = Refs
    BY <1>4 DEF Refs
  <1>6. ASSUME NEW r \in Refs PROVE At(r)' = IF r = <<t, i>> THEN s ELSE At(r)
    <2>1. r = <<r[1], r[2]>> /\ r[1] \in ModuleTypes /\ r[2] \in DOMAIN slots[r[1]]
      BY RefPairs
    <2>2. CASE r = <<t, i>>
      BY <2>1, <2>2 DEF At, SlotsTyped
    <2>3. CASE r # <<t, i>>
      BY <2>1, <2>3 DEF At, SlotsTyped
    <2>4. QED  BY <2>2, <2>3
  <1>7. QED  BY <1>3, <1>5, <1>6, RefPairs

\* The same, of the slot at a reference.
LEMMA OneRef ==
    ASSUME SlotsTyped, NEW r \in Refs, NEW s \in Slot,
           slots' = [slots EXCEPT ![r[1]][r[2]] = s]
    PROVE  /\ slots' \in [ModuleTypes -> Seq(Slot)]
           /\ Refs' = Refs
           /\ \A q \in Refs : At(q)' = IF q = r THEN s ELSE At(q)
  <1>1. r = <<r[1], r[2]>> /\ r[1] \in ModuleTypes /\ r[2] \in DOMAIN slots[r[1]]
    BY RefPairs
  <1>2. /\ slots' \in [ModuleTypes -> Seq(Slot)]
        /\ Refs' = Refs
        /\ \A q \in Refs : At(q)' = IF q = <<r[1], r[2]>> THEN s ELSE At(q)
    BY <1>1, OneSlot
  <1>3. QED  BY <1>1, <1>2

\* Replacing slots one for one keeps the shape of the rings.
LEMMA SameShape ==
    ASSUME SlotsTyped,
           slots' = [u \in ModuleTypes |-> slots'[u]],
           \A u \in ModuleTypes : slots'[u] \in [DOMAIN slots[u] -> Slot]
    PROVE  slots' \in [ModuleTypes -> Seq(Slot)] /\ Refs' = Refs
  <1>1. ASSUME NEW u \in ModuleTypes PROVE slots'[u] \in Seq(Slot)
    <2>1. slots[u] \in Seq(Slot) /\ DOMAIN slots[u] = 1..Len(slots[u]) /\ Len(slots[u]) \in Nat
      BY SMTT(30) DEF SlotsTyped
    <2>2. QED  BY <2>1, SMTT(30)
  <1>2. \A u \in ModuleTypes : DOMAIN slots'[u] = DOMAIN slots[u]
    OBVIOUS
  <1>3. QED  BY <1>1, <1>2 DEF Refs

\* A step that only changes slots and counts keeps the schedule.
LEMMA ScheduleKept ==
    ASSUME ScheduleInv,
           UNCHANGED <<pendingSkips, lists, cursors, openPasses, nextPass, scheduleLost>>,
           passCounts' \in [Open -> [ModuleTypes -> [copied : Nat, skipped : Nat]]]
    PROVE  ScheduleInv'
  <1>1. Open' = Open /\ Installed' = Installed /\ CurrentPass' = CurrentPass
    BY DEF Open, Installed, CurrentPass
  <1>2. \A m, p : Produced(m, p)' <=> Produced(m, p)
    BY DEF Produced, TypeOf, PositionOf
  <1>3. ScheduleTyped'
    BY <1>1 DEF ScheduleInv, ScheduleTyped
  <1>4. CursorsInside' /\ DequeConsecutive'
    BY SMTT(30) DEF ScheduleInv, CursorsInside, DequeConsecutive
  <1>5. SkipsAhead'
    BY <1>1, <1>2 DEF ScheduleInv, SkipsAhead
  <1>6. PassesConsecutive'
    BY <1>1 DEF ScheduleInv, PassesConsecutive
  <1>7. QED  BY <1>3, <1>4, <1>5, <1>6 DEF ScheduleInv

\* A set of natural numbers that is not empty has a least one.
LEMMA LeastNatural ==
    ASSUME NEW S \in SUBSET Nat, S # {}
    PROVE  \E i \in S : \A j \in S : i <= j
  <1> DEFINE R == OpToRel(<, Nat)
  <1>1. IsWellFoundedOn(R, Nat)
    BY NatLessThanWellFounded
  <1>2. \A i, j \in Nat : <<j, i>> \in R <=> j < i
    BY SMTT(30) DEF OpToRel
  <1> HIDE DEF R
  <1>3. PICK i \in S : \A j \in S : ~(<<j, i>> \in R)
    BY <1>1, WFMin
  <1>4. ASSUME NEW j \in S PROVE i <= j
    <2>1. ~(j < i) 
      BY <1>2, <1>3, Zenon
    <2>2. i \in Nat /\ j \in Nat
      OBVIOUS
    <2>3. QED  BY <2>1, <2>2, SMTT(30)
  <1>5. QED  BY <1>4

\* reserve(): the first FREE slot becomes FILLING, still without a name.
LEMMA ReserveStep ==
    ASSUME SlotsInv, NEW t \in ModuleTypes, Reserve(t)
    PROVE  SlotsInv'
  <1> DEFINE i == Reserved(slots, t)
             s == [FreeSlot EXCEPT !.state = "FILLING"]
  <1>1. FreeIn(slots, t) \in SUBSET Nat
    BY SMTT(30) DEF FreeIn, SlotsInv, SlotsTyped
  <1>2. \E j \in FreeIn(slots, t) : \A k \in FreeIn(slots, t) : j <= k
    BY <1>1, LeastNatural DEF Reserve
  <1>3. i \in DOMAIN slots[t] /\ slots[t][i].state = "FREE"
    BY <1>2 DEF Reserved, FreeIn
  <1>4. s \in Slot /\ s.name = None /\ s.state = "FILLING"
    BY DEF FreeSlot, Slot, SlotStates
  <1>5. slots' = [slots EXCEPT ![t][i] = s]
    BY DEF Reserve, AfterReserve
  <1> HIDE DEF i, s
  <1>6. /\ slots' \in [ModuleTypes -> Seq(Slot)]
        /\ Refs' = Refs
        /\ <<t, i>> \in Refs
        /\ \A r \in Refs : At(r)' = IF r = <<t, i>> THEN s ELSE At(r)
    BY <1>3, <1>4, <1>5, OneSlot DEF SlotsInv
  <1>7. At(<<t, i>>).name = None
    BY <1>3 DEF SlotsInv, FreeUnnamed, At
  <1>8. \A r \in Refs : At(r)' = At(r) \/ (At(r)'.name = None /\ At(r).name = None /\ At(r)'.state = "FILLING")
    BY <1>4, <1>6, <1>7
  <1>9. UNCHANGED <<index, lists, cursors, openPasses>>
    BY DEF Reserve
  <1>10. QED
    BY <1>6, <1>8, <1>9, FreeRefs, SlotStepIndexed DEF Active

\* A step that frees the slots G, and takes their keys and no others out of the
\* index.
LEMMA FreeStep ==
    ASSUME SlotsInv, NEW G, NEW K,
           UNCHANGED <<lists, cursors, openPasses>>,
           slots' \in [ModuleTypes -> Seq(Slot)],
           Refs' = Refs,
           \A r \in Refs : At(r)' = IF r \in G THEN FreeSlot ELSE At(r),
           index' = Unindexed(K),
           \A r \in Refs : Active(r) => (Key(r) \in K <=> r \in G)
    PROVE  SlotsInv'
  <1>1. DOMAIN index' = DOMAIN index \ K /\ \A k \in DOMAIN index' : index'[k] = index[k]
    BY DEF Unindexed, Restrict
  <1>2. FreeSlot.state = "FREE" /\ FreeSlot.name = None
    BY DEF FreeSlot
  <1>3. ASSUME NEW r \in Refs
        PROVE  /\ At(r)'.state = "FREE" => At(r)'.name = None
               /\ At(r)'.name # None => /\ At(r)'.name = At(r).name
                                        /\ At(r)'.pass = At(r).pass
               /\ Active(r)' => Active(r) /\ Key(r) \notin K
               /\ Active(r) /\ Key(r) \notin K => Active(r)'
    <2>1. CASE r \in G
      BY <1>2, <2>1 DEF Active
    <2>2. CASE r \notin G
      <3>1. At(r)' = At(r)
        BY <2>2
      <3>2. Active(r)' <=> Active(r)
        BY <3>1 DEF Active
      <3>3. QED  BY <2>2, <3>1, <3>2, FreeRefs
    <2>3. QED  BY <2>1, <2>2
  <1>4. QED  BY <1>1, <1>3, SlotStep

\* lease(), release(): the slot of a resident module.
LEMMA ResidentSlot ==
    ASSUME SlotsInv, NEW m, Resident(m)
    PROVE  LET r == index[<<m, CurrentPass>>]
           IN  /\ r \in Refs /\ r = <<r[1], r[2]>>
               /\ r[1] \in ModuleTypes /\ r[2] \in DOMAIN slots[r[1]]
               /\ Active(r) /\ Key(r) = <<m, CurrentPass>>
               /\ At(r) \in Slot
  <1> DEFINE r == index[<<m, CurrentPass>>]
  <1>1. r \in Refs /\ Active(r) /\ Key(r) = <<m, CurrentPass>>
    BY IndexActive DEF SlotsInv, Resident
  <1>2. At(r) \in Slot
    BY <1>1, SlotTyped DEF SlotsInv
  <1>3. QED  BY <1>1, <1>2, RefPairs

\* Two active slots with the same key are the same slot.
LEMMA KeysDiffer ==
    ASSUME SlotsInv, NEW q \in Refs, NEW r \in Refs, Active(q), Active(r), Key(q) = Key(r)
    PROVE  q = r
  BY IndexActive DEF SlotsInv

\* lease(): a PRESENT slot becomes LEASED.
LEMMA LeaseStep ==
    ASSUME SlotsInv, NEW m, Lease(m)
    PROVE  SlotsInv'
  <1> DEFINE r == index[<<m, CurrentPass>>]
             s == [At(r) EXCEPT !.state = "LEASED"]
  <1>1. Resident(m)
    BY DEF Lease, CheckLease
  <1>2. /\ r \in Refs /\ r = <<r[1], r[2]>>
        /\ r[1] \in ModuleTypes /\ r[2] \in DOMAIN slots[r[1]]
        /\ Active(r) /\ At(r) \in Slot
    BY <1>1, ResidentSlot
  <1>3. s \in Slot /\ s.state = "LEASED" /\ s.name = At(r).name /\ s.pass = At(r).pass
    BY <1>2 DEF Slot, SlotStates
  <1>4. slots' = [slots EXCEPT ![r[1]][r[2]] = s]
    BY <1>2 DEF Lease, At
  <1>5. UNCHANGED <<index, lists, cursors, openPasses>>
    BY DEF Lease
  <1> HIDE DEF r, s
  <1>6. /\ slots' \in [ModuleTypes -> Seq(Slot)]
        /\ Refs' = Refs
        /\ \A q \in Refs : At(q)' = IF q = r THEN s ELSE At(q)
    BY <1>2, <1>3, <1>4, OneRef DEF SlotsInv
  <1>7. ASSUME NEW q \in Refs
        PROVE  /\ At(q)'.state = "FREE" => At(q)'.name = None
               /\ At(q)'.name = At(q).name /\ At(q)'.pass = At(q).pass
               /\ Active(q)' <=> Active(q)
    <2>1. CASE q = r
      BY <1>2, <1>3, <1>6, <2>1 DEF Active
    <2>2. CASE q # r
      BY <1>6, <2>2, FreeRefs DEF Active
    <2>3. QED  BY <2>1, <2>2
  <1>8. QED  BY <1>5, <1>6, <1>7, SlotStepIndexed

\* release(): a LEASED slot is freed.
LEMMA ReleaseStep ==
    ASSUME SlotsInv, NEW m, Release(m)
    PROVE  SlotsInv'
  <1> DEFINE r == index[<<m, CurrentPass>>]
  <1>1. /\ r \in Refs /\ r = <<r[1], r[2]>>
        /\ r[1] \in ModuleTypes /\ r[2] \in DOMAIN slots[r[1]]
        /\ Active(r) /\ Key(r) = <<m, CurrentPass>>
    BY ResidentSlot DEF Release, LeasedNow
  <1>2. FreeSlot \in Slot
    BY FreeRing
  <1>3. /\ slots' = [slots EXCEPT ![r[1]][r[2]] = FreeSlot]
        /\ index' = Unindexed({Key(r)})
        /\ UNCHANGED <<lists, cursors, openPasses>>
    BY <1>1 DEF Release
  <1> HIDE DEF r
  <1>4. /\ slots' \in [ModuleTypes -> Seq(Slot)]
        /\ Refs' = Refs
        /\ \A q \in Refs : At(q)' = IF q \in {r} THEN FreeSlot ELSE At(q)
    BY <1>1, <1>2, <1>3, OneRef DEF SlotsInv
  <1>5. \A q \in Refs : Active(q) => (Key(q) \in {Key(r)} <=> q \in {r})
    BY <1>1, KeysDiffer
  <1>6. QED  BY <1>3, <1>4, <1>5, FreeStep

\* abandon(), and landed() of a copy to be released: a FILLING slot is freed.
LEMMA FillingFreed ==
    ASSUME SlotsInv, NEW t \in ModuleTypes, NEW i \in DOMAIN slots[t],
           slots[t][i].state = "FILLING",
           slots' = [slots EXCEPT ![t][i] = FreeSlot],
           index' = Unindexed({<<slots[t][i].name, slots[t][i].pass>>}),
           UNCHANGED <<lists, cursors, openPasses>>
    PROVE  SlotsInv'
  <1> DEFINE r == <<t, i>>
  <1>1. r \in Refs /\ At(r) = slots[t][i]
    BY RefPairs DEF At
  <1>2. FreeSlot \in Slot
    BY FreeRing
  <1>3. index' = Unindexed({Key(r)})
    BY <1>1 DEF Key
  <1>4. /\ slots' \in [ModuleTypes -> Seq(Slot)]
        /\ Refs' = Refs
        /\ \A q \in Refs : At(q)' = IF q \in {r} THEN FreeSlot ELSE At(q)
    BY <1>1, <1>2, OneSlot DEF SlotsInv
  <1>5. ASSUME NEW q \in Refs, Active(q), Key(q) = Key(r) PROVE q = r
    <2>1. At(r).name # None
      BY <1>5 DEF Active, Key
    <2>2. Active(r)
      BY <1>1, <2>1 DEF Active
    <2>3. QED  BY <1>1, <1>5, <2>2, KeysDiffer
  <1> HIDE DEF r
  <1>6. \A q \in Refs : Active(q) => (Key(q) \in {Key(r)} <=> q \in {r})
    BY <1>5
  <1>7. QED  BY <1>3, <1>4, <1>6, FreeStep

\* landed() of a copy that stays: a FILLING slot becomes PRESENT.
LEMMA FillingLanded ==
    ASSUME SlotsInv, NEW t \in ModuleTypes, NEW i \in DOMAIN slots[t],
           slots[t][i].state = "FILLING",
           slots' = [slots EXCEPT ![t][i].state = "PRESENT"],
           UNCHANGED <<index, lists, cursors, openPasses>>
    PROVE  SlotsInv'
  <1> DEFINE r == <<t, i>>
             s == [At(r) EXCEPT !.state = "PRESENT"]
  <1>1. r \in Refs /\ At(r) = slots[t][i]
    BY RefPairs DEF At
  <1>2. At(r) \in Slot
    BY <1>1, SlotTyped DEF SlotsInv
  <1>3. s \in Slot /\ s.state = "PRESENT" /\ s.name = At(r).name /\ s.pass = At(r).pass
    BY <1>2 DEF Slot, SlotStates
  <1>4. slots' = [slots EXCEPT ![r[1]][r[2]] = s]
    BY <1>1
  <1> HIDE DEF r, s
  <1>5. /\ slots' \in [ModuleTypes -> Seq(Slot)]
        /\ Refs' = Refs
        /\ \A q \in Refs : At(q)' = IF q = r THEN s ELSE At(q)
    BY <1>1, <1>3, <1>4, OneRef DEF SlotsInv
  <1>6. ASSUME NEW q \in Refs
        PROVE  /\ At(q)'.state = "FREE" => At(q)'.name = None
               /\ At(q)'.name = At(q).name /\ At(q)'.pass = At(q).pass
               /\ Active(q)' <=> Active(q)
    <2>1. CASE q = r
      BY <1>1, <1>3, <1>5, <2>1 DEF Active
    <2>2. CASE q # r
      BY <1>5, <2>2, FreeRefs DEF Active
    <2>3. QED  BY <2>1, <2>2
  <1>7. QED  BY <1>5, <1>6, SlotStepIndexed

\* release_async(): LEASED slots leave the index and keep their names.
LEMMA ReleaseAsyncStep ==
    ASSUME SlotsInv, NEW ms, ReleaseAsync(ms)
    PROVE  SlotsInv'
  <1> DEFINE K == {<<m, CurrentPass>> : m \in ms}
             G == RefsOf(ms)
  <1>1. ASSUME NEW m \in ms
        PROVE  /\ index[<<m, CurrentPass>>] \in Refs
               /\ Key(index[<<m, CurrentPass>>]) = <<m, CurrentPass>>
    BY ResidentSlot DEF ReleaseAsync, LeasedNow
  <1>2. ASSUME NEW r \in Refs, Active(r) PROVE Key(r) \in K <=> r \in G
    <2>1. index[Key(r)] = r
      BY <1>2, IndexActive DEF SlotsInv
    <2>2. QED  BY <1>1, <2>1 DEF RefsOf
  <1>3. DOMAIN index' = DOMAIN index \ K /\ \A k \in DOMAIN index' : index'[k] = index[k]
    BY DEF ReleaseAsync, Unindexed, Restrict
  <1>4. ASSUME NEW q \in Refs
        PROVE  At(q)' = IF q \in G THEN [At(q) EXCEPT !.state = "PENDING_RELEASE"] ELSE At(q)
    <2>1. q = <<q[1], q[2]>> /\ q[1] \in ModuleTypes /\ q[2] \in DOMAIN slots[q[1]]
      BY RefPairs
    <2>2. QED  BY <2>1 DEF ReleaseAsync, At
  <1>5. ASSUME NEW u \in ModuleTypes PROVE slots'[u] \in [DOMAIN slots[u] -> Slot]
    <2>1. ASSUME NEW j \in DOMAIN slots[u]
          PROVE  slots[u][j] \in Slot /\ [slots[u][j] EXCEPT !.state = "PENDING_RELEASE"] \in Slot
      <3>1. slots[u][j] \in Slot
        BY RefPairs, SlotTyped DEF At, SlotsInv
      <3>2. QED  BY <3>1 DEF Slot, SlotStates
    <2>2. QED  BY <2>1 DEF ReleaseAsync
  <1>6. slots' \in [ModuleTypes -> Seq(Slot)] /\ Refs' = Refs
    BY <1>5, SameShape DEF ReleaseAsync, SlotsInv
  <1> HIDE DEF K, G
  <1>7. ASSUME NEW q \in Refs
        PROVE  /\ At(q)'.state = "FREE" => At(q)'.name = None
               /\ At(q)'.name = At(q).name /\ At(q)'.pass = At(q).pass
               /\ Active(q)' => Active(q) /\ Key(q) \notin K
               /\ Active(q) /\ Key(q) \notin K => Active(q)'
    <2>1. At(q) \in Slot
      BY SlotTyped DEF SlotsInv
    <2>2. CASE q \in G
      <3>1. At(q)'.state = "PENDING_RELEASE" /\ At(q)'.name = At(q).name /\ At(q)'.pass = At(q).pass
        BY <1>4, <2>1, <2>2 DEF Slot
      <3>2. QED  BY <1>2, <2>2, <3>1 DEF Active
    <2>3. CASE q \notin G
      <3>1. At(q)' = At(q)
        BY <1>4, <2>3
      <3>2. QED  BY <1>2, <2>3, <3>1, FreeRefs DEF Active
    <2>4. QED  BY <2>2, <2>3
  <1>8. UNCHANGED <<lists, cursors, openPasses>>
    BY DEF ReleaseAsync
  <1>9. QED  BY <1>3, <1>6, <1>7, <1>8, SlotStep

\* reclaim(): slots behind a completed event are freed.
LEMMA ReclaimStep ==
    ASSUME SlotsInv, NEW G \in SUBSET Refs, Reclaim(G)
    PROVE  SlotsInv'
  <1>1. ASSUME NEW q \in Refs PROVE At(q)' = IF q \in G THEN FreeSlot ELSE At(q)
    <2>1. q = <<q[1], q[2]>> /\ q[1] \in ModuleTypes /\ q[2] \in DOMAIN slots[q[1]]
      BY RefPairs
    <2>2. QED  BY <2>1 DEF Reclaim, Reclaimed, At
  <1>2. ASSUME NEW u \in ModuleTypes PROVE slots'[u] \in [DOMAIN slots[u] -> Slot]
    <2>1. \A j \in DOMAIN slots[u] : slots[u][j] \in Slot
      BY RefPairs, SlotTyped DEF At, SlotsInv
    <2>2. FreeSlot \in Slot
      BY FreeRing
    <2>3. QED  BY <2>1, <2>2 DEF Reclaim, Reclaimed
  <1>3. slots' \in [ModuleTypes -> Seq(Slot)] /\ Refs' = Refs
    BY <1>2, SameShape DEF Reclaim, Reclaimed, SlotsInv
  <1>4. ASSUME NEW q \in Refs
        PROVE  /\ At(q)'.state = "FREE" => At(q)'.name = None
               /\ At(q)'.name # None => At(q)'.name = At(q).name /\ At(q)'.pass = At(q).pass
               /\ Active(q)' <=> Active(q)
    <2>1. CASE q \in G
      BY <1>1, <2>1, SMTT(30) DEF Active, Reclaim, FreeSlot
    <2>2. CASE q \notin G
      BY <1>1, <2>2, FreeRefs DEF Active
    <2>3. QED  BY <2>1, <2>2
  <1>5. UNCHANGED <<index, lists, cursors, openPasses>>
    BY DEF Reclaim
  <1>6. QED  BY <1>3, <1>4, <1>5, SlotStepIndexed

\* grow_type(): FREE slots are added at the end of a ring.
LEMMA GrowTypeStep ==
    ASSUME SlotsInv, NEW t \in ModuleTypes, NEW n \in Nat, GrowType(t, n)
    PROVE  SlotsInv'
  <1> DEFINE d == n - Len(slots[t])
             fresh == FreeSlots(d)
             ring == slots[t] \o fresh
  <1>1. slots[t] \in Seq(Slot) /\ Len(slots[t]) \in Nat /\ d \in Nat
    BY SMTT(30) DEF SlotsInv, SlotsTyped, GrowType
  <1> HIDE DEF d
  <1>2. /\ fresh \in Seq(Slot)
        /\ DOMAIN fresh = 1..d
        /\ \A i \in 1..d : fresh[i] = FreeSlot
    BY <1>1, FreeRing
  <1> HIDE DEF fresh
  <1>3. Len(fresh) = d
    BY <1>1, <1>2, SMTT(30)
  <1>4. /\ ring \in Seq(Slot)
        /\ Len(ring) = Len(slots[t]) + d
        /\ \A i \in 1 .. Len(slots[t]) + d :
              ring[i] = IF i <= Len(slots[t]) THEN slots[t][i] ELSE fresh[i - Len(slots[t])]
    BY <1>1, <1>2, <1>3, SMTT(30)
  <1>5. slots' = [slots EXCEPT ![t] = ring]
    BY DEF GrowType, d, fresh
  <1> HIDE DEF ring
  <1>6. /\ ring \in Seq(Slot)
        /\ Len(ring) = Len(slots[t]) + d
        /\ \A i \in 1..Len(slots[t]) : ring[i] = slots[t][i]
        /\ \A i \in 1..Len(ring) : i > Len(slots[t]) => ring[i] = FreeSlot
    <2> DEFINE l == Len(slots[t])
    <2>1. l \in Nat /\ d \in Nat
      BY <1>1
    <2>2. /\ ring \in Seq(Slot)
          /\ Len(ring) = l + d
          /\ \A i \in 1 .. l + d : ring[i] = IF i <= l THEN slots[t][i] ELSE fresh[i - l]
      BY <1>4
    <2> HIDE DEF l
    <2>3. \A i \in 1 .. l : i \in 1 .. l + d /\ i <= l
      BY <2>1, SMTT(30)
    <2>4. \A i \in 1 .. l + d : i > l => ~(i <= l) /\ i - l \in 1 .. d
      BY <2>1, SMTT(30)
    <2>5. \A i \in 1 .. l : ring[i] = slots[t][i]
      BY <2>2, <2>3
    <2>6. \A i \in 1 .. Len(ring) : i > l => ring[i] = FreeSlot
      BY <1>2, <2>2, <2>4
    <2>7. QED  BY <2>2, <2>5, <2>6 DEF l
  <1>7. slots' \in [ModuleTypes -> Seq(Slot)]
    BY <1>6, <1>5 DEF SlotsInv, SlotsTyped
  <1>8. /\ slots'[t] = ring
        /\ \A u \in ModuleTypes : u # t => slots'[u] = slots[u]
    BY <1>5 DEF SlotsInv, SlotsTyped
  <1>9. DOMAIN slots[t] = 1..Len(slots[t]) /\ DOMAIN ring = 1..Len(ring)
    BY <1>1, <1>6, SMTT(30)
  <1>10. DOMAIN slots[t] \subseteq DOMAIN ring
    BY <1>1, <1>6, <1>9, SMTT(30)
  <1>11. Refs \subseteq Refs'
    BY <1>8, <1>10, SMTT(30) DEF Refs
  <1>12. ASSUME NEW r \in Refs' PROVE (r \in Refs /\ At(r)' = At(r)) \/ (At(r)' = FreeSlot /\ r \notin Refs)
    <2>1. r = <<r[1], r[2]>> /\ r[1] \in ModuleTypes /\ r[2] \in DOMAIN slots'[r[1]]
      BY RefPairsNext
    <2>2. r \in Refs <=> r[2] \in DOMAIN slots[r[1]]
      BY <2>1, RefPairs
    <2>3. CASE r[1] # t
      BY <1>8, <2>1, <2>2, <2>3 DEF At
    <2>4. CASE r[1] = t
      <3>1. r[2] \in 1..Len(ring) /\ At(r)' = ring[r[2]]
        BY <1>8, <1>9, <2>1, <2>4 DEF At
      <3>2. CASE r[2] \in DOMAIN slots[t]
        BY <1>6, <1>9, <2>2, <2>4, <3>1, <3>2 DEF At
      <3>3. CASE r[2] \notin DOMAIN slots[t]
        BY <1>1, <1>6, <1>9, <2>2, <2>4, <3>1, <3>3, SMTT(30)
      <3>4. QED  BY <3>2, <3>3
    <2>5. QED  BY <2>3, <2>4
  <1>13. FreeSlot.name = None
    BY DEF FreeSlot
  <1>14. ASSUME NEW r \in Refs' 
         PROVE  /\ At(r)'.state = "FREE" => At(r)'.name = None
                /\ At(r)'.name # None => /\ r \in Refs
                                         /\ At(r)'.name = At(r).name
                                         /\ At(r)'.pass = At(r).pass
                /\ Active(r)' => Active(r)
    BY <1>12, <1>13, FreeRefs DEF Active
  <1>15. ASSUME NEW r \in Refs, Active(r) PROVE Active(r)'
    BY <1>11, <1>12, <1>15 DEF Active
  <1>16. UNCHANGED <<index, lists, cursors, openPasses>>
    BY DEF GrowType
  <1>17. QED  BY <1>7, <1>11, <1>14, <1>15, <1>16, SlotStepIndexed

\* A table of FREE slots with an empty index, whatever the schedule.
LEMMA AllFree ==
    ASSUME slots' \in [ModuleTypes -> Seq(Slot)],
           \A t \in ModuleTypes : \A i \in DOMAIN slots'[t] : slots'[t][i] = FreeSlot,
           DOMAIN index' = {}
    PROVE  SlotsInv'
  <1>1. \A r \in Refs' : At(r)' = FreeSlot
    BY RefPairsNext DEF At
  <1>2. FreeSlot.state = "FREE" /\ FreeSlot.name = None
    BY DEF FreeSlot
  <1>3. \A r \in Refs' : ~Active(r)'
    BY <1>1, <1>2 DEF Active
  <1>4. IndexExact'
    BY <1>3, IndexActiveNext
  <1>5. SlotsTyped'
    BY DEF SlotsTyped
  <1>6. FreeUnnamed'
    BY <1>2 DEF FreeUnnamed
  <1>7. NamedBehindCursor'
    BY <1>1, <1>2 DEF NamedBehindCursor
  <1>8. QED  BY <1>4, <1>5, <1>6, <1>7 DEF SlotsInv

\* cancel_pass() and skip(): PRESENT slots are freed, FILLING ones marked.
LEMMA SkipAllSlots ==
    ASSUME SlotsInv, NEW p, NEW ms, NEW pending, None \notin ms,
           SkipAll(p, ms, pending)
    PROVE  SlotsInv'
  <1> DEFINE of(q) == At(q).pass = p /\ At(q).name \in ms
             G == {q \in Refs : of(q) /\ At(q).state = "PRESENT"}
             K == {<<At(q).name, p>> : q \in G}
  <1>1. ASSUME NEW q \in Refs
        PROVE  At(q)' = IF of(q) /\ At(q).state = "PRESENT" THEN FreeSlot
                        ELSE IF of(q) /\ At(q).state = "FILLING" THEN [At(q) EXCEPT !.release = TRUE]
                        ELSE At(q)
    <2>1. q = <<q[1], q[2]>> /\ q[1] \in ModuleTypes /\ q[2] \in DOMAIN slots[q[1]]
      BY RefPairs
    <2>2. QED  BY <2>1 DEF SkipAll, At
  <1>2. ASSUME NEW u \in ModuleTypes PROVE slots'[u] \in [DOMAIN slots[u] -> Slot]
    <2>1. ASSUME NEW j \in DOMAIN slots[u]
          PROVE  slots[u][j] \in Slot /\ [slots[u][j] EXCEPT !.release = TRUE] \in Slot
      <3>1. slots[u][j] \in Slot
        BY RefPairs, SlotTyped DEF At, SlotsInv
      <3>2. QED  BY <3>1 DEF Slot
    <2>2. FreeSlot \in Slot
      BY FreeRing
    <2>3. QED  BY <2>1, <2>2 DEF SkipAll
  <1>3. slots' \in [ModuleTypes -> Seq(Slot)] /\ Refs' = Refs
    BY <1>2, SameShape DEF SkipAll, SlotsInv
  <1>4. DOMAIN index' = DOMAIN index \ K /\ \A k \in DOMAIN index' : index'[k] = index[k]
    BY DEF SkipAll, Unindexed, Restrict
  <1>5. \A q \in G : Active(q) /\ <<At(q).name, p>> = Key(q)
    BY DEF Active, Key
  <1>6. ASSUME NEW q \in Refs, Active(q) PROVE Key(q) \in K <=> q \in G
    BY <1>5, <1>6, KeysDiffer
  <1>7. ASSUME NEW q \in Refs, q \notin G
        PROVE  /\ At(q)'.state = At(q).state
               /\ At(q)'.name = At(q).name
               /\ At(q)'.pass = At(q).pass
    <2>1. At(q) \in Slot
      BY SlotTyped DEF SlotsInv
    <2>2. QED  BY <1>1, <1>7, <2>1 DEF Slot
  <1>8. \A q \in G : At(q)' = FreeSlot
    BY <1>1
  <1> HIDE DEF G, K
  <1>9. FreeSlot.state = "FREE" /\ FreeSlot.name = None
    BY DEF FreeSlot
  <1>10. ASSUME NEW q \in Refs
         PROVE  /\ At(q)'.state = "FREE" => At(q)'.name = None
                /\ At(q)'.name # None => At(q)'.name = At(q).name /\ At(q)'.pass = At(q).pass
                /\ Active(q)' => Active(q) /\ Key(q) \notin K
                /\ Active(q) /\ Key(q) \notin K => Active(q)'
    <2>1. CASE q \in G
      BY <1>6, <1>8, <1>9, <2>1 DEF Active
    <2>2. CASE q \notin G
      <3>1. Active(q)' <=> Active(q)
        BY <1>7, <2>2 DEF Active
      <3>2. QED  BY <1>6, <1>7, <2>2, <3>1, FreeRefs
    <2>3. QED  BY <2>1, <2>2
  <1>11. UNCHANGED <<lists, cursors, openPasses>>
    BY DEF SkipAll
  <1>12. QED  BY <1>3, <1>4, <1>10, <1>11, SlotStep

-----------------------------------------------------------------------------
(* Steps that move a cursor. *)

\* advance(): the cursor goes past its module and past no other.
LEMMA CursorAdvances ==
    ASSUME ScheduleInv, NEW t \in ModuleTypes,
           lists[t] # <<>>, cursors[t].pass \in Open,
           cursors' = [cursors EXCEPT ![t] = Advanced(t)],
           UNCHANGED <<lists, openPasses, nextPass>>
    PROVE  /\ cursors' \in [ModuleTypes -> [pass : Nat, position : Nat]]
           /\ CursorsInside'
           /\ PassesConsecutive'
           /\ CursorModule(t) \in Range(lists[t])
           /\ CursorModule(t) \in Installed
           /\ ~Produced(CursorModule(t), cursors[t].pass)
           /\ \A m \in Installed, p \in Nat :
                /\ Produced(m, p) => Produced(m, p)'
                /\ Produced(m, p)' => \/ Produced(m, p)
                                      \/ m = CursorModule(t) /\ p = cursors[t].pass
                /\ m = CursorModule(t) /\ p = cursors[t].pass => Produced(m, p)'
  <1> DEFINE cur == cursors[t]
             moved == Advanced(t)
             n == Len(lists[t])
  <1>1. /\ cur \in [pass : Nat, position : Nat]
        /\ lists[t] \in Seq(Modules) /\ n \in Nat
        /\ DOMAIN lists[t] = 1..n /\ cur.position \in 1..n
        /\ nextPass \in Nat
    BY SMTT(30) DEF ScheduleInv, ScheduleTyped, CursorsInside
  <1>2. /\ moved \in [pass : Nat, position : Nat]
        /\ moved.position \in 1..n
        /\ \/ /\ moved.pass = cur.pass + 1 /\ moved.position = 1 /\ cur.position = n
           \/ /\ moved.pass = cur.pass /\ moved.position = cur.position + 1
    BY <1>1, SMTT(30) DEF Advanced
  <1>3. /\ cursors'[t] = moved
        /\ \A u \in ModuleTypes : u # t => cursors'[u] = cursors[u]
        /\ cursors' \in [ModuleTypes -> [pass : Nat, position : Nat]]
    BY <1>2 DEF ScheduleInv, ScheduleTyped
  <1> HIDE DEF moved
  <1>4. CursorsInside'
    BY <1>1, <1>2, <1>3, SMTT(30) DEF ScheduleInv, CursorsInside
  <1>5. Open' = Open /\ CurrentPass' = CurrentPass
    BY DEF Open, CurrentPass
  <1>6. moved.pass \in Open \union {nextPass}
    <2>1. Open = (nextPass - Len(openPasses))..(nextPass - 1) /\ Len(openPasses) \in Nat
      BY SMTT(30) DEF ScheduleInv, PassesConsecutive, ScheduleTyped
    <2>2. QED  BY <1>1, <1>2, <2>1, SMTT(30)
  <1>7. PassesConsecutive'
    BY <1>3, <1>5, <1>6 DEF ScheduleInv, PassesConsecutive
  <1>8. /\ CursorModule(t) \in Installed /\ CursorModule(t) \in Range(lists[t])
        /\ TypeOf(CursorModule(t)) = t /\ PositionOf(CursorModule(t)) = cur.position
    BY <1>1, Located DEF ScheduleInv, CursorModule, Range
  <1>9. ~Produced(CursorModule(t), cur.pass)
    BY <1>1, <1>8, SMTT(30) DEF Produced
  <1>10. \A m, p : Produced(m, p)' <=> \/ cursors'[TypeOf(m)].pass > p
                                       \/ /\ cursors'[TypeOf(m)].pass = p
                                          /\ cursors'[TypeOf(m)].position > PositionOf(m)
    BY DEF Produced, TypeOf, PositionOf
  <1>11. ASSUME NEW m, NEW p, m = CursorModule(t), p = cur.pass PROVE Produced(m, p)'
    <2>1. Produced(m, p)' <=> \/ moved.pass > cur.pass
                              \/ moved.pass = cur.pass /\ moved.position > cur.position
      BY <1>3, <1>8, <1>10, <1>11
    <2>2. QED  BY <1>1, <1>2, <2>1, SMTT(30)
  <1>12. ASSUME NEW m \in Installed, NEW p \in Nat
         PROVE  /\ Produced(m, p) => Produced(m, p)'
                /\ Produced(m, p)' => \/ Produced(m, p)
                                      \/ m = CursorModule(t) /\ p = cur.pass
    <2>1. /\ TypeOf(m) \in ModuleTypes
          /\ PositionOf(m) \in DOMAIN lists[TypeOf(m)]
          /\ lists[TypeOf(m)][PositionOf(m)] = m
      BY Located DEF ScheduleInv
    <2>2. CASE TypeOf(m) # t
      BY <1>3, <1>10, <2>1, <2>2 DEF Produced
    <2>3. CASE TypeOf(m) = t
      <3>1. PositionOf(m) \in 1..n
        BY <1>1, <2>1, <2>3
      <3>2. PositionOf(m) = cur.position => m = CursorModule(t)
        BY <2>1, <2>3 DEF CursorModule
      <3>3. Produced(m, p) <=> \/ cur.pass > p
                               \/ cur.pass = p /\ cur.position > PositionOf(m)
        BY <2>3 DEF Produced
      <3>4. Produced(m, p)' <=> \/ moved.pass > p
                                \/ moved.pass = p /\ moved.position > PositionOf(m)
        BY <1>3, <1>10, <2>3
      <3>5. CASE moved.pass = cur.pass + 1 /\ moved.position = 1 /\ cur.position = n
        BY <1>1, <3>1, <3>2, <3>3, <3>4, <3>5, SMTT(30)
      <3>6. CASE moved.pass = cur.pass /\ moved.position = cur.position + 1
        BY <1>1, <3>1, <3>2, <3>3, <3>4, <3>6, SMTT(30)
      <3>7. QED  BY <1>2, <3>5, <3>6
    <2>4. QED  BY <2>2, <2>3
  <1>13. QED
    BY <1>3, <1>4, <1>7, <1>8, <1>9, <1>11, <1>12

\* A copy or a skip is produced at a cursor in an open pass.
LEMMA CursorOpen ==
    ASSUME NEW t, NextProduction(t) \in {"COPY", "SKIP"}
    PROVE  lists[t] # <<>> /\ cursors[t].pass \in Open
  BY DEF NextProduction

\* Counting a module in an open pass keeps the counts well typed.
LEMMA CountTyped ==
    ASSUME ScheduleTyped, NEW p \in Open, NEW t \in ModuleTypes
    PROVE  /\ [passCounts EXCEPT ![p][t].skipped = @ + 1]
                 \in [Open -> [ModuleTypes -> [copied : Nat, skipped : Nat]]]
           /\ [passCounts EXCEPT ![p][t].copied = @ + 1]
                 \in [Open -> [ModuleTypes -> [copied : Nat, skipped : Nat]]]
  <1> DEFINE C == [copied : Nat, skipped : Nat]
             f == passCounts[p]
             c == f[t]
             skip == [c EXCEPT !.skipped = @ + 1]
             copy == [c EXCEPT !.copied = @ + 1]
  <1>1. f \in [ModuleTypes -> C] /\ c \in C
    BY DEF ScheduleTyped
  <1>2. skip \in C /\ copy \in C
    BY <1>1, SMTT(30)
  <1>3. /\ [passCounts EXCEPT ![p][t].skipped = @ + 1] = [passCounts EXCEPT ![p] = [f EXCEPT ![t] = skip]]
        /\ [passCounts EXCEPT ![p][t].copied = @ + 1] = [passCounts EXCEPT ![p] = [f EXCEPT ![t] = copy]]
    OBVIOUS
  <1> HIDE DEF skip, copy
  <1>4. [f EXCEPT ![t] = skip] \in [ModuleTypes -> C] /\ [f EXCEPT ![t] = copy] \in [ModuleTypes -> C]
    BY <1>1, <1>2
  <1> HIDE DEF f, c, C
  <1>5. passCounts \in [Open -> [ModuleTypes -> C]]
    BY DEF ScheduleTyped, C
  <1>6. /\ [passCounts EXCEPT ![p] = [f EXCEPT ![t] = skip]] \in [Open -> [ModuleTypes -> C]]
        /\ [passCounts EXCEPT ![p] = [f EXCEPT ![t] = copy]] \in [Open -> [ModuleTypes -> C]]
    BY <1>4, <1>5
  <1>7. QED  BY <1>3, <1>6 DEF C

\* What a step owes for NamedBehindCursor, of a slot's module and pass.
LEMMA NamedNext ==
    ASSUME \A r \in Refs' : \A x, p :
               At(r)'.name # None /\ x = At(r)'.name /\ p = At(r)'.pass =>
                  p \in Open' /\ x \in Range(lists'[r[1]]) /\ Produced(x, p)'
    PROVE  NamedBehindCursor'
  <1> SUFFICES ASSUME NEW r \in Refs', At(r)'.name # None
               PROVE  (/\ At(r).pass \in Open
                       /\ At(r).name \in Range(lists[r[1]])
                       /\ Produced(At(r).name, At(r).pass))'
    BY DEF NamedBehindCursor
  <1>1. PICK x, p : x = At(r)'.name /\ p = At(r)'.pass
    OBVIOUS
  <1>2. p \in Open' /\ x \in Range(lists'[r[1]]) /\ Produced(x, p)'
    BY <1>1
  <1>3. QED  BY <1>1, <1>2 DEF Produced, TypeOf, PositionOf

\* retire_skip(): the skip is dropped and the cursor goes past it.
LEMMA RetireSkipStep ==
    ASSUME TableInv, NEW t \in ModuleTypes, RetireSkip(t)
    PROVE  TableInv'
  <1> DEFINE cur == cursors[t]
             m == CursorModule(t)
  <1>1. lists[t] # <<>> /\ cur.pass \in Open
    BY CursorOpen, SMTT(30) DEF RetireSkip
  <1>2. /\ UNCHANGED <<slots, index, lists, openPasses, nextPass, scheduleLost>>
        /\ cursors' = [cursors EXCEPT ![t] = Advanced(t)]
        /\ pendingSkips' = pendingSkips \ {<<cur.pass, m>>}
        /\ passCounts' = [passCounts EXCEPT ![cur.pass][t].skipped = @ + 1]
    BY DEF RetireSkip
  <1>3. /\ cursors' \in [ModuleTypes -> [pass : Nat, position : Nat]]
        /\ CursorsInside'
        /\ PassesConsecutive'
    BY <1>1, <1>2, CursorAdvances DEF TableInv
  <1>4. ASSUME NEW x \in Installed, NEW p \in Nat
        PROVE  /\ Produced(x, p) => Produced(x, p)'
               /\ Produced(x, p)' => Produced(x, p) \/ (x = m /\ p = cur.pass)
    BY <1>1, <1>2, CursorAdvances DEF TableInv
  <1>5. Open' = Open /\ Installed' = Installed
    BY <1>2 DEF Open, Installed
  <1>6. passCounts' \in [Open -> [ModuleTypes -> [copied : Nat, skipped : Nat]]]
    BY <1>1, <1>2, CountTyped DEF TableInv, ScheduleInv
  <1>7. ScheduleTyped'
    BY <1>2, <1>3, <1>5, <1>6 DEF TableInv, ScheduleInv, ScheduleTyped
  <1>8. SkipsAhead'
    <2> SUFFICES ASSUME NEW skip \in pendingSkips'
                 PROVE  skip[1] \in Open' /\ skip[2] \in Installed' /\ ~Produced(skip[2], skip[1])'
      BY DEF SkipsAhead
    <2>1. /\ skip \in pendingSkips /\ skip # <<cur.pass, m>>
          /\ skip = <<skip[1], skip[2]>> /\ skip[1] \in Nat
      BY <1>2, SMTT(30) DEF TableInv, ScheduleInv, ScheduleTyped
    <2>2. skip[1] \in Open /\ skip[2] \in Installed /\ ~Produced(skip[2], skip[1])
      BY <2>1 DEF TableInv, ScheduleInv, SkipsAhead
    <2>3. ~Produced(skip[2], skip[1])'
      BY <1>4, <2>1, <2>2
    <2>4. QED  BY <1>5, <2>2, <2>3
  <1>9. DequeConsecutive'
    BY <1>2 DEF TableInv, ScheduleInv, DequeConsecutive
  <1>10. SlotsTyped' /\ FreeUnnamed' /\ IndexExact' /\ Refs' = Refs
    BY <1>2, SlotsKept DEF TableInv, SlotsInv
  <1>11. NamedBehindCursor'
    <2> SUFFICES ASSUME NEW r \in Refs, NEW x, NEW p, x = At(r).name, p = At(r).pass, x # None
                 PROVE  p \in Open /\ x \in Range(lists[r[1]]) /\ Produced(x, p)'
      BY <1>2, <1>5, <1>10, NamedNext DEF At
    <2>1. p \in Open /\ x \in Range(lists[r[1]]) /\ Produced(x, p)
      BY DEF TableInv, SlotsInv, NamedBehindCursor
    <2>2. r[1] \in ModuleTypes /\ p \in Nat
      BY RefPairs, SlotTyped DEF TableInv, SlotsInv
    <2>3. x \in Installed
      BY <2>1, <2>2 DEF Installed
    <2>4. QED  BY <1>4, <2>1, <2>2, <2>3
  <1>12. QED
    BY <1>3, <1>7, <1>8, <1>9, <1>10, <1>11 DEF TableInv, SlotsInv, ScheduleInv

\* claim(): the reserved slot gets the module at the cursor and the cursor's
\* pass, and the cursor advances past the module.
LEMMA ClaimCopyStep ==
    ASSUME TableInv, NEW t \in ModuleTypes, NEW i \in DOMAIN slots[t], ClaimCopy(t, i)
    PROVE  TableInv'
  <1> DEFINE m == CursorModule(t)
             c == cursors[t].pass
             key == <<m, c>>
             r == <<t, i>>
             s == [At(r) EXCEPT !.name = m, !.pass = c]
  <1>1. lists[t] # <<>> /\ c \in Open /\ <<c, m>> \notin pendingSkips
    BY DEF ClaimCopy, NextProduction
  <1>2. /\ UNCHANGED <<pendingSkips, lists, openPasses, nextPass, passCounts, scheduleLost>>
        /\ cursors' = [cursors EXCEPT ![t] = Advanced(t)]
        /\ slots' = [slots EXCEPT ![t][i].name = m, ![t][i].pass = c]
        /\ index' = [k \in DOMAIN index \union {key} |-> IF k = key THEN r ELSE index[k]]
        /\ key \notin DOMAIN index
        /\ slots[t][i].state = "FILLING" /\ slots[t][i].name = None
    BY DEF ClaimCopy
  <1>3. r \in Refs /\ At(r) = slots[t][i] /\ At(r) \in Slot
    BY RefPairs, SlotTyped DEF At, TableInv, SlotsInv
  <1>4. /\ cursors' \in [ModuleTypes -> [pass : Nat, position : Nat]]
        /\ CursorsInside' /\ PassesConsecutive'
        /\ m \in Range(lists[t]) /\ m \in Installed
    BY <1>1, <1>2, CursorAdvances DEF TableInv
  <1>5. ASSUME NEW x \in Installed, NEW p \in Nat
        PROVE  /\ Produced(x, p) => Produced(x, p)'
               /\ Produced(x, p)' => Produced(x, p) \/ (x = m /\ p = c)
               /\ x = m /\ p = c => Produced(x, p)'
    BY <1>1, <1>2, CursorAdvances DEF TableInv
  <1>6. Open' = Open /\ Installed' = Installed
    BY <1>2 DEF Open, Installed
  <1>7. lists \in [ModuleTypes -> Seq(Modules)] /\ c \in Nat
    BY DEF TableInv, ScheduleInv, ScheduleTyped
  <1>8. m \in Modules
    BY <1>4, <1>7, SMTT(30) DEF Range
  <1>9. slots' = [slots EXCEPT ![r[1]][r[2]] = s]
    BY <1>2, <1>3
  <1>10. s \in Slot /\ s.state = "FILLING" /\ s.name = m /\ s.pass = c /\ m # None
    BY <1>2, <1>3, <1>7, <1>8, NoneAssumption DEF Slot, SlotStates
  <1> HIDE DEF s, m, c, r
  <1>11. /\ slots' \in [ModuleTypes -> Seq(Slot)]
         /\ Refs' = Refs
         /\ \A q \in Refs : At(q)' = IF q = r THEN s ELSE At(q)
    BY <1>3, <1>9, <1>10, OneRef DEF TableInv, SlotsInv
  <1>12. /\ \A k \in DOMAIN index : k # key /\ index'[k] = index[k]
         /\ DOMAIN index' = DOMAIN index \union {key}
         /\ index'[key] = r
    BY <1>2
  <1>13. SlotsTyped'
    <2>1. key \in Modules \X Nat
      BY <1>7, <1>8
    <2>2. DOMAIN index \subseteq Modules \X Nat /\ \A k \in DOMAIN index : index[k] \in Refs
      BY DEF TableInv, SlotsInv, SlotsTyped
    <2> HIDE DEF key
    <2>3. DOMAIN index' \subseteq Modules \X Nat
      BY <1>12, <2>1, <2>2
    <2>4. \A k \in DOMAIN index' : index'[k] \in Refs
      BY <1>3, <1>12, <2>2
    <2>5. QED  BY <1>11, <2>3, <2>4 DEF SlotsTyped
  <1>14. FreeUnnamed'
    <2> SUFFICES ASSUME NEW u \in ModuleTypes, NEW j \in DOMAIN slots'[u], slots'[u][j].state = "FREE"
                 PROVE  slots'[u][j].name = None
      BY DEF FreeUnnamed
    <2>1. <<u, j>> \in Refs' /\ At(<<u, j>>)' = slots'[u][j]
      BY RefPairsNext DEF At
    <2>2. QED  BY <1>10, <1>11, <2>1, FreeRefs DEF TableInv
  <1>15. IndexExact'
    <2>1. Active(r)' /\ key = Key(r)' /\ ~Active(r)
      BY <1>2, <1>3, <1>10, <1>11 DEF Active, Key
    <2>2. \A q \in Refs : q # r => (Active(q)' <=> Active(q)) /\ Key(q)' = Key(q)
      BY <1>11 DEF Active, Key
    <2>3. ASSUME NEW k \in DOMAIN index'
          PROVE  \E q \in Refs' : index'[k] = q /\ Active(q)' /\ k = Key(q)'
      <3>1. CASE k = key
        BY <1>3, <1>11, <1>12, <2>1, <3>1
      <3>2. CASE k \in DOMAIN index
        <4>1. PICK q \in Refs : index[k] = q /\ Active(q) /\ k = Key(q)
          BY <3>2, IndexActive DEF TableInv, SlotsInv
        <4>2. QED  BY <1>11, <1>12, <2>1, <2>2, <3>2, <4>1
      <3>3. QED  BY <1>12, <3>1, <3>2
    <2>4. ASSUME NEW q \in Refs', Active(q)'
          PROVE  \E k \in DOMAIN index' : index'[k] = q
      <3>1. CASE q = r
        BY <1>12, <3>1
      <3>2. CASE q # r
        BY <1>11, <1>12, <2>2, <2>4, <3>2, IndexActive DEF TableInv, SlotsInv
      <3>3. QED  BY <3>1, <3>2
    <2>5. QED  BY <2>3, <2>4, IndexActiveNext
  <1>16. NamedBehindCursor'
    <2> SUFFICES ASSUME NEW q \in Refs', NEW x, NEW p,
                        At(q)'.name # None, x = At(q)'.name, p = At(q)'.pass
                 PROVE  p \in Open' /\ x \in Range(lists'[q[1]]) /\ Produced(x, p)'
      BY NamedNext
    <2>1. CASE q = r
      <3>1. x = m /\ p = c /\ q[1] = t
        BY <1>3, <1>10, <1>11, <2>1 DEF r
      <3>2. c \in Open' /\ lists' = lists
        BY <1>1, <1>2, <1>6 DEF c
      <3>3. QED  BY <1>4, <1>5, <1>7, <3>1, <3>2
    <2>2. CASE q # r
      <3>1. q \in Refs /\ x = At(q).name /\ p = At(q).pass /\ At(q).name # None
        BY <1>11, <2>2
      <3>2. p \in Open /\ x \in Range(lists[q[1]]) /\ Produced(x, p)
        BY <3>1 DEF TableInv, SlotsInv, NamedBehindCursor
      <3>3. q[1] \in ModuleTypes /\ p \in Nat
        BY <3>1, RefPairs, SlotTyped DEF TableInv, SlotsInv
      <3>4. x \in Installed
        BY <3>2, <3>3 DEF Installed
      <3>5. QED  BY <1>2, <1>5, <1>6, <3>2, <3>3, <3>4
    <2>3. QED  BY <2>1, <2>2
  <1>17. SkipsAhead'
    <2> SUFFICES ASSUME NEW skip \in pendingSkips'
                 PROVE  skip[1] \in Open' /\ skip[2] \in Installed' /\ ~Produced(skip[2], skip[1])'
      BY DEF SkipsAhead
    <2>1. skip \in pendingSkips /\ skip # <<c, m>>
      BY <1>1, <1>2
    <2>2. skip = <<skip[1], skip[2]>> /\ skip[1] \in Nat
      BY <2>1, SMTT(30) DEF TableInv, ScheduleInv, ScheduleTyped
    <2>3. skip[1] \in Open /\ skip[2] \in Installed /\ ~Produced(skip[2], skip[1])
      BY <2>1 DEF TableInv, ScheduleInv, SkipsAhead
    <2>4. ~Produced(skip[2], skip[1])'
      BY <1>5, <2>1, <2>2, <2>3
    <2>5. QED  BY <1>6, <2>3, <2>4
  <1>18. ScheduleTyped' /\ DequeConsecutive'
    BY <1>2, <1>4, <1>6 DEF TableInv, ScheduleInv, ScheduleTyped, DequeConsecutive
  <1>19. QED
    BY <1>4, <1>13, <1>14, <1>15, <1>16, <1>17, <1>18 DEF TableInv, SlotsInv, ScheduleInv

\* landed(): the copy is counted in its pass, and the slot becomes PRESENT or,
\* when it was released meanwhile, FREE.
LEMMA LandedStep ==
    ASSUME TableInv, NEW t \in ModuleTypes, NEW i \in DOMAIN slots[t], Landed(t, i)
    PROVE  TableInv'
  <1>1. <<t, i>> \in Refs /\ At(<<t, i>>) = slots[t][i]
    BY RefPairs DEF At
  <1>2. slots[t][i].pass \in Open
    BY <1>1 DEF Landed, TableInv, SlotsInv, NamedBehindCursor
  <1>3. passCounts' \in [Open -> [ModuleTypes -> [copied : Nat, skipped : Nat]]]
    BY <1>2, CountTyped DEF Landed, TableInv, ScheduleInv
  <1>4. ScheduleInv'
    BY <1>3, ScheduleKept DEF Landed, TableInv
  <1>5. SlotsInv'
    BY FillingFreed, FillingLanded DEF Landed, TableInv
  <1>6. QED  BY <1>4, <1>5 DEF TableInv

-----------------------------------------------------------------------------
(* Steps of the passes and the installation. *)

\* While lists and cursors stay, so does what was produced.
LEMMA ProducedKept ==
    ASSUME UNCHANGED <<lists, cursors>>
    PROVE  Installed' = Installed /\ \A x, p : Produced(x, p)' <=> Produced(x, p)
  BY DEF Installed, Produced, TypeOf, PositionOf

\* A change of the open passes keeps the slots' invariant as long as no pass a
\* slot is named for is closed.
LEMMA PassesStep ==
    ASSUME TableInv, UNCHANGED <<slots, index, lists, cursors>>,
           \A r \in Refs : At(r).name # None => At(r).pass \in Open'
    PROVE  SlotsInv'
  <1>1. SlotsTyped' /\ FreeUnnamed' /\ IndexExact' /\ Refs' = Refs
    BY SlotsKept DEF TableInv, SlotsInv
  <1>2. \A r \in Refs : At(r)' = At(r)
    BY DEF At
  <1>3. NamedBehindCursor'
    <2> SUFFICES ASSUME NEW r \in Refs, NEW x, NEW p, x = At(r).name, p = At(r).pass, x # None
                 PROVE  p \in Open' /\ x \in Range(lists[r[1]]) /\ Produced(x, p)'
      BY <1>1, <1>2, NamedNext
    <2>1. p \in Open /\ x \in Range(lists[r[1]]) /\ Produced(x, p)
      BY DEF TableInv, SlotsInv, NamedBehindCursor
    <2>2. QED  BY <2>1, ProducedKept
  <1>4. QED  BY <1>1, <1>3 DEF SlotsInv

\* begin_pass(): the next id is armed.
LEMMA BeginPassStep ==
    ASSUME TableInv, BeginPass
    PROVE  TableInv'
  <1> DEFINE n == nextPass
             L == Len(openPasses)
             C == [ModuleTypes -> [copied : Nat, skipped : Nat]]
  <1>1. /\ openPasses \in Seq(Nat) /\ n \in Nat /\ L \in Nat /\ n > L
        /\ passCounts \in [Open -> C]
        /\ \A i \in 1..L : openPasses[i] = n - L + i - 1
    BY SMTT(30) DEF TableInv, ScheduleInv, ScheduleTyped, DequeConsecutive
  <1>2. /\ openPasses' = Append(openPasses, n) /\ nextPass' = n + 1
        /\ UNCHANGED <<slots, index, pendingSkips, lists, cursors, scheduleLost>>
        /\ passCounts' = [p \in Open \union {n} |-> IF p \in Open THEN passCounts[p] ELSE NoCounts]
    BY DEF BeginPass
  <1>3. /\ openPasses' \in Seq(Nat) /\ Len(openPasses') = L + 1
        /\ \A i \in 1..L : openPasses'[i] = openPasses[i]
        /\ openPasses'[L + 1] = n
    BY <1>1, <1>2, SMTT(30)
  <1>4. \A i \in 1..(L + 1) : openPasses'[i] = (n + 1) - (L + 1) + i - 1
    <2> SUFFICES ASSUME NEW i \in 1..(L + 1)
                 PROVE  openPasses'[i] = (n + 1) - (L + 1) + i - 1
      OBVIOUS
    <2>1. CASE i = L + 1
      BY <1>1, <1>3, <2>1, SMTT(30)
    <2>2. CASE i \in 1..L
      BY <1>1, <1>3, <2>2, SMTT(30)
    <2>3. QED  BY <1>1, <2>1, <2>2, SMTT(30)
  <1>5. DequeConsecutive'
    BY <1>1, <1>2, <1>3, <1>4, SMTT(30) DEF DequeConsecutive
  <1>6. /\ Open' = (n - L)..n
        /\ CurrentPass' = n - L
    <2>1. openPasses' # <<>> /\ (n + 1) - (L + 1) = n - L /\ (n + 1) - 1 = n
      BY <1>1, <1>3, SMTT(30)
    <2>2. \A d, k : d \in Seq(Nat) /\ k \in Nat /\ k > Len(d)
                    /\ (\A i \in 1..Len(d) : d[i] = k - Len(d) + i - 1) =>
                      /\ Range(d) = (k - Len(d))..(k - 1)
                      /\ d # <<>> => Head(d) = k - Len(d)
      BY DequeInterval
    <2>3. n + 1 \in Nat /\ n + 1 > Len(openPasses')
      BY <1>1, <1>3, SMTT(30)
    <2>4. QED  BY <1>3, <1>4, <2>1, <2>2, <2>3, SMTT(30) DEF Open, CurrentPass
  <1>7. Open = (n - L)..(n - 1)
    BY OpenInterval DEF TableInv, ScheduleInv
  <1>8. Open' = Open \union {n}
    BY <1>1, <1>6, <1>7, SMTT(30)
  <1>9. NoCounts \in C
    BY DEF NoCounts
  <1>10. passCounts' \in [Open' -> C]
    <2> HIDE DEF C
    <2>1. QED  BY <1>1, <1>2, <1>8, <1>9
  <1>11. ScheduleTyped'
    BY <1>1, <1>2, <1>3, <1>10, SMTT(30) DEF TableInv, ScheduleInv, ScheduleTyped
  <1>12. CursorsInside'
    BY <1>2, SMTT(30) DEF TableInv, ScheduleInv, CursorsInside
  <1>13. SkipsAhead'
    BY <1>2, <1>8, ProducedKept DEF TableInv, ScheduleInv, SkipsAhead
  <1>14. PassesConsecutive'
    <2>1. \A t \in ModuleTypes : lists'[t] # <<>> => cursors'[t].pass \in Open'
      BY <1>2, <1>8 DEF TableInv, ScheduleInv, PassesConsecutive
    <2>2. /\ Open' = (nextPass' - Len(openPasses'))..(nextPass' - 1)
          /\ CurrentPass' = nextPass' - Len(openPasses')
      BY <1>1, <1>2, <1>3, <1>6, SMTT(30)
    <2>3. QED  BY <2>1, <2>2 DEF PassesConsecutive
  <1>15. SlotsInv'
    BY <1>2, <1>8, PassesStep DEF TableInv, SlotsInv, NamedBehindCursor
  <1>16. QED
    BY <1>5, <1>11, <1>12, <1>13, <1>14, <1>15 DEF TableInv, ScheduleInv

\* end_pass(): the oldest pass is closed once the producer is past it, no slot
\* of it is held and none of its skips is pending.
LEMMA EndPassStep ==
    ASSUME TableInv, NEW p, EndPass(p)
    PROVE  TableInv'
  <1> DEFINE n == nextPass
             L == Len(openPasses)
             C == [ModuleTypes -> [copied : Nat, skipped : Nat]]
  <1>1. /\ openPasses \in Seq(Nat) /\ n \in Nat /\ L \in Nat /\ n > L
        /\ passCounts \in [Open -> C]
        /\ \A i \in 1..L : openPasses[i] = n - L + i - 1
    BY SMTT(30) DEF TableInv, ScheduleInv, ScheduleTyped, DequeConsecutive
  <1>2. /\ openPasses # <<>> /\ CurrentPass = p
        /\ openPasses' = Tail(openPasses)
        /\ passCounts' = Restrict(passCounts, DOMAIN passCounts \ {p})
        /\ UNCHANGED <<slots, index, pendingSkips, lists, cursors, nextPass, scheduleLost>>
    BY DEF EndPass, CanEnd
  <1>3. /\ openPasses' \in Seq(Nat) /\ L >= 1 /\ Len(openPasses') = L - 1
        /\ \A i \in 1..(L - 1) : openPasses'[i] = openPasses[i + 1]
    BY <1>1, <1>2, SMTT(30)
  <1>4. \A i \in 1..(L - 1) : openPasses'[i] = n - (L - 1) + i - 1
    BY <1>1, <1>3, SMTT(30)
  <1>5. DequeConsecutive'
    BY <1>1, <1>2, <1>3, <1>4, SMTT(30) DEF DequeConsecutive
  <1>6. /\ Open' = (n - (L - 1))..(n - 1)
        /\ openPasses' # <<>> => CurrentPass' = n - (L - 1)
    <2>1. \A d, k : d \in Seq(Nat) /\ k \in Nat /\ k > Len(d)
                    /\ (\A i \in 1..Len(d) : d[i] = k - Len(d) + i - 1) =>
                      /\ Range(d) = (k - Len(d))..(k - 1)
                      /\ d # <<>> => Head(d) = k - Len(d)
      BY DequeInterval
    <2>2. n > Len(openPasses')
      BY <1>1, <1>3, SMTT(30)
    <2>3. QED  BY <1>1, <1>3, <1>4, <2>1, <2>2 DEF Open, CurrentPass
  <1>7. Open = (n - L)..(n - 1) /\ p = n - L
    BY <1>2, OpenInterval DEF TableInv, ScheduleInv
  <1>8. Open' = Open \ {p}
    BY <1>1, <1>6, <1>7, SMTT(30)
  <1>9. passCounts' \in [Open' -> C]
    <2> HIDE DEF C
    <2>1. QED  BY <1>1, <1>2, <1>8 DEF Restrict
  <1>10. ScheduleTyped'
    BY <1>1, <1>2, <1>3, <1>9 DEF TableInv, ScheduleInv, ScheduleTyped
  <1>11. CursorsInside'
    BY <1>2, SMTT(30) DEF TableInv, ScheduleInv, CursorsInside
  <1>12. SkipsAhead'
    BY <1>2, <1>8, ProducedKept DEF TableInv, ScheduleInv, SkipsAhead, EndPass, CanEnd
  <1>13. PassesConsecutive'
    <2> SUFFICES ASSUME NEW t \in ModuleTypes, lists[t] # <<>>
                 PROVE  cursors[t].pass \in Open' \union {nextPass}
      BY <1>2, <1>3, <1>6 DEF PassesConsecutive
    <2>1. cursors[t].pass \in Open \union {nextPass} /\ cursors[t].pass > p
      BY DEF TableInv, ScheduleInv, PassesConsecutive, EndPass, CanEnd, ProducerFinished
    <2>2. QED  BY <1>1, <1>7, <1>8, <2>1, SMTT(30)
  <1>14. ASSUME NEW r \in Refs, At(r).name # None PROVE At(r).pass \in Open'
    <2>1. At(r).pass \in Open /\ At(r).state # "FREE"
      BY <1>14, FreeRefs DEF TableInv, SlotsInv, NamedBehindCursor
    <2>2. At(r).pass # p
      BY <1>14, <2>1 DEF EndPass, CanEnd, Held
    <2>3. QED  BY <1>8, <2>1, <2>2
  <1>15. SlotsInv'
    BY <1>2, <1>14, PassesStep
  <1>16. QED
    BY <1>5, <1>10, <1>11, <1>12, <1>13, <1>15 DEF TableInv, ScheduleInv

\* An empty schedule: no pass is open, and every cursor is parked at the start
\* of the pass that will be armed next.
LEMMA NoPassOpen ==
    ASSUME openPasses' = <<>>, pendingSkips' = {}, passCounts' = <<>>,
           nextPass' \in Nat \ {0}, scheduleLost' \in BOOLEAN,
           lists' \in [ModuleTypes -> Seq(Modules)],
           \A t, u \in ModuleTypes : \A i \in DOMAIN lists'[t], j \in DOMAIN lists'[u] :
              lists'[t][i] = lists'[u][j] => t = u /\ i = j,
           cursors' = [t \in ModuleTypes |-> [pass |-> nextPass', position |-> 1]]
    PROVE  ScheduleInv'
  <1>1. Open' = {} /\ Len(openPasses') = 0
    BY SMTT(30) DEF Open, Range
  <1>2. ScheduleTyped'
    <2>1. passCounts' \in [Open' -> [ModuleTypes -> [copied : Nat, skipped : Nat]]]
      BY <1>1, SMTT(30)
    <2>2. cursors' \in [ModuleTypes -> [pass : Nat, position : Nat]]
      OBVIOUS
    <2>3. QED  BY <2>1, <2>2, SMTT(30) DEF ScheduleTyped
  <1>3. CursorsInside'
    <2>1. \A t \in ModuleTypes : lists'[t] # <<>> => 1 \in DOMAIN lists'[t]
      BY SMTT(30)
    <2>2. QED  BY <2>1 DEF CursorsInside
  <1>4. DequeConsecutive'
    BY <1>1, SMTT(30) DEF DequeConsecutive
  <1>5. SkipsAhead'
    BY DEF SkipsAhead
  <1>6. PassesConsecutive'
    <2>1. (nextPass' - 0)..(nextPass' - 1) = {}
      <3>1. \A n \in Nat : (n - 0)..(n - 1) = {}
        BY SMTT(30)
      <3>2. QED  BY <3>1
    <2>2. \A t \in ModuleTypes : cursors'[t].pass = nextPass'
      OBVIOUS
    <2>3. QED  BY <1>1, <2>1, <2>2 DEF PassesConsecutive
  <1>7. QED  BY <1>2, <1>3, <1>4, <1>5, <1>6 DEF ScheduleInv

\* abort_passes(): the ring is emptied and the schedule with it.
LEMMA AbortPassesStep ==
    ASSUME TableInv, NEW lose \in BOOLEAN, AbortPasses(lose)
    PROVE  TableInv'
  <1>1. /\ slots' = [t \in ModuleTypes |-> FreeSlots(Len(slots[t]))]
        /\ index' = <<>> /\ pendingSkips' = {} /\ passCounts' = <<>> /\ openPasses' = <<>>
        /\ cursors' = [t \in ModuleTypes |-> [pass |-> nextPass, position |-> 1]]
        /\ scheduleLost' = (scheduleLost \/ lose)
        /\ UNCHANGED <<lists, nextPass>>
    BY DEF AbortPasses
  <1> DEFINE f == [t \in ModuleTypes |-> Len(slots[t])]
  <1>2. f \in [ModuleTypes -> Nat] /\ slots' = [t \in ModuleTypes |-> FreeSlots(f[t])]
    BY <1>1, SMTT(30) DEF TableInv, SlotsInv, SlotsTyped
  <1> HIDE DEF f
  <1>3. /\ slots' \in [ModuleTypes -> Seq(Slot)]
        /\ \A t \in ModuleTypes : \A i \in DOMAIN slots'[t] : slots'[t][i] = FreeSlot
    BY <1>2, FreeTable
  <1>4. SlotsInv'
    BY <1>1, <1>3, AllFree, SMTT(30)
  <1>5. nextPass' \in Nat \ {0} /\ cursors' = [t \in ModuleTypes |-> [pass |-> nextPass', position |-> 1]]
    BY <1>1, SMTT(30) DEF TableInv, ScheduleInv, ScheduleTyped, DequeConsecutive
  <1>6. scheduleLost' \in BOOLEAN
    BY <1>1
  <1>7. /\ lists' \in [ModuleTypes -> Seq(Modules)]
        /\ \A t, u \in ModuleTypes : \A i \in DOMAIN lists'[t], j \in DOMAIN lists'[u] :
              lists'[t][i] = lists'[u][j] => t = u /\ i = j
    BY <1>1, SMTT(30) DEF TableInv, ScheduleInv, ScheduleTyped, CursorsInside
  <1>8. ScheduleInv'
    BY <1>1, <1>5, <1>6, <1>7, NoPassOpen
  <1>9. QED  BY <1>4, <1>8 DEF TableInv

\* install(): new lists over a ring with every slot FREE.
LEMMA InstallStep ==
    ASSUME TableInv, NEW tasks \in Tasks, Install(tasks)
    PROVE  TableInv'
  <1>1. /\ openPasses = <<>> /\ Held = {}
        /\ lists' = tasks /\ nextPass' = 1
        /\ pendingSkips' = {} /\ passCounts' = <<>>
        /\ cursors' = [t \in ModuleTypes |-> [pass |-> 1, position |-> 1]]
        /\ UNCHANGED <<slots, index, openPasses, scheduleLost>>
    BY DEF Install
  <1>2. ScheduleInv'
    BY <1>1, TasksAssumption, NoPassOpen, SMTT(30) DEF TableInv, ScheduleInv, ScheduleTyped
  <1>3. SlotsTyped' /\ FreeUnnamed' /\ IndexExact' /\ Refs' = Refs
    BY <1>1, SlotsKept DEF TableInv, SlotsInv
  <1>4. \A r \in Refs : At(r).name = None /\ At(r)' = At(r)
    BY <1>1, FreeRefs DEF TableInv, Held, At
  <1>5. NamedBehindCursor'
    BY <1>3, <1>4 DEF NamedBehindCursor
  <1>6. QED  BY <1>2, <1>3, <1>5 DEF TableInv, SlotsInv

\* reset_type() of every type, between two forwards: the ring has a new size.
LEMMA ResetTypesStep ==
    ASSUME TableInv, NEW layout \in Layouts, ResetTypes(layout)
    PROVE  TableInv'
  \* Without an open pass the index is empty.
  <1>NothingIndexed. ASSUME SlotsInv, Open = {}
                     PROVE  DOMAIN index = {}
    <2> USE <1>NothingIndexed
    <2>1. \A r \in Refs : ~Active(r)
      BY DEF SlotsInv, NamedBehindCursor, Active
    <2>2. QED  BY <2>1, IndexActive DEF SlotsInv
  <1>1. layout \in [ModuleTypes -> Nat]
    BY LayoutsAssumption
  <1>2. /\ slots' \in [ModuleTypes -> Seq(Slot)]
        /\ \A t \in ModuleTypes : \A i \in DOMAIN slots'[t] : slots'[t][i] = FreeSlot
    BY <1>1, FreeTable DEF ResetTypes
  <1>3. Open = {}
    BY SMTT(30) DEF ResetTypes, Open, Range
  <1>4. DOMAIN index = {}
    BY <1>3, <1>NothingIndexed DEF TableInv
  <1>5. DOMAIN index' = {}
    BY <1>4 DEF ResetTypes, Unindexed, Restrict
  <1>6. SlotsInv'
    BY <1>2, <1>5, AllFree
  <1>7. ScheduleInv'
    BY ScheduleKept DEF ResetTypes, TableInv, ScheduleInv, ScheduleTyped
  <1>8. QED  BY <1>6, <1>7 DEF TableInv

\* Skipping modules of an open pass that are not produced yet.
LEMMA SkipAllSchedule ==
    ASSUME ScheduleInv, NEW p \in Open, NEW ms, NEW pending,
           \A m \in pending : m \in Installed /\ ~Produced(m, p),
           SkipAll(p, ms, pending)
    PROVE  ScheduleInv'
  <1>1. /\ pendingSkips' = pendingSkips \union {<<p, m>> : m \in pending}
        /\ UNCHANGED <<lists, cursors, openPasses, nextPass, passCounts, scheduleLost>>
    BY DEF SkipAll
  <1>2. Open' = Open /\ CurrentPass' = CurrentPass /\ p \in Nat
    BY <1>1, OpenInterval DEF ScheduleInv, Open, CurrentPass
  <1>3. Installed \subseteq Modules
    <2> SUFFICES ASSUME NEW t \in ModuleTypes, NEW m \in Range(lists[t])
                 PROVE  m \in Modules
      BY DEF Installed
    <2>1. lists[t] \in Seq(Modules)
      BY DEF ScheduleInv, ScheduleTyped
    <2>2. PICK k \in DOMAIN lists[t] : m = lists[t][k]
      BY DEF Range
    <2>3. QED  BY <2>1, <2>2, SMTT(30)
  <1>4. pendingSkips' \subseteq Nat \X Modules
    <2>1. pendingSkips \subseteq Nat \X Modules
      BY DEF ScheduleInv, ScheduleTyped
    <2>2. \A m \in pending : <<p, m>> \in Nat \X Modules
      BY <1>2, <1>3
    <2>3. QED  BY <1>1, <2>1, <2>2
  <1>5. ScheduleTyped'
    BY <1>1, <1>2, <1>4 DEF ScheduleInv, ScheduleTyped
  <1>6. SkipsAhead'
    <2> SUFFICES ASSUME NEW skip \in pendingSkips'
                 PROVE  skip[1] \in Open' /\ skip[2] \in Installed' /\ ~Produced(skip[2], skip[1])'
      BY DEF SkipsAhead
    <2>1. skip[1] \in Open /\ skip[2] \in Installed /\ ~Produced(skip[2], skip[1])
      BY <1>1, SMTT(30) DEF ScheduleInv, SkipsAhead
    <2>2. ~Produced(skip[2], skip[1])' /\ Installed' = Installed
      BY <1>1, <2>1, ProducedKept
    <2>3. QED  BY <1>2, <2>1, <2>2
  <1>7. CursorsInside' /\ DequeConsecutive' /\ PassesConsecutive'
    BY <1>1, <1>2, SMTT(30) DEF ScheduleInv, CursorsInside, DequeConsecutive, PassesConsecutive
  <1>8. QED  BY <1>5, <1>6, <1>7 DEF ScheduleInv

\* cancel_pass(): everything of the pass is skipped.
LEMMA CancelPassStep ==
    ASSUME TableInv, NEW p \in Open, CancelPass(p)
    PROVE  TableInv'
  <1> DEFINE pending == {m \in Installed : ~Produced(m, p)}
  <1>1. SkipAll(p, Modules, pending)
    BY DEF CancelPass
  <1>2. \A m \in pending : m \in Installed /\ ~Produced(m, p)
    OBVIOUS
  <1> HIDE DEF pending
  <1>3. SlotsInv'
    BY <1>1, NoneAssumption, SkipAllSlots DEF TableInv
  <1>4. ScheduleInv'
    BY <1>1, <1>2, SkipAllSchedule DEF TableInv
  <1>5. QED  BY <1>3, <1>4 DEF TableInv

\* skip_modules(): modules of the oldest pass are skipped.
LEMMA SkipModulesStep ==
    ASSUME TableInv, NEW ms \in SUBSET Modules, ms # {}, SkipModules(ms)
    PROVE  TableInv'
  <1> DEFINE pending == {m \in ms : ~Resident(m)}
  <1>1. SkipAll(CurrentPass, ms, pending) /\ \A m \in ms : CheckSkip(m)
    BY DEF SkipModules
  <1>2. CurrentPass \in Open
    BY <1>1, OpenInterval DEF CheckSkip, TableInv, ScheduleInv
  <1>3. \A m \in pending : m \in Installed /\ ~Produced(m, CurrentPass)
    BY <1>1 DEF CheckSkip
  <1> HIDE DEF pending
  <1>4. None \notin ms
    BY NoneAssumption
  <1>5. SlotsInv'
    BY <1>1, <1>4, SkipAllSlots DEF TableInv
  <1>6. ScheduleInv'
    BY <1>1, <1>2, <1>3, SkipAllSchedule DEF TableInv
  <1>7. QED  BY <1>5, <1>6 DEF TableInv

-----------------------------------------------------------------------------
(* The invariant. *)

\* Before the first installation the ring is FREE and the schedule empty.
LEMMA TableInit == Init => TableInv
  <1> SUFFICES ASSUME Init PROVE TableInv
    OBVIOUS
  <1>1. PICK layout \in Layouts : slots = [t \in ModuleTypes |-> FreeSlots(layout[t])]
    BY DEF Init
  <1>2. \A t \in ModuleTypes : layout[t] \in Nat
    BY LayoutsAssumption
  <1>3. /\ slots \in [ModuleTypes -> Seq(Slot)]
        /\ \A t \in ModuleTypes : \A i \in DOMAIN slots[t] : slots[t][i] = FreeSlot
    <2>1. ASSUME NEW t \in ModuleTypes
          PROVE  /\ slots[t] \in Seq(Slot)
                 /\ \A i \in DOMAIN slots[t] : slots[t][i] = FreeSlot
      <3>1. slots[t] = FreeSlots(layout[t])
        BY <1>1
      <3>2. QED  BY <1>2, <3>1, FreeRing, SMTT(30)
    <2>2. QED  BY <1>1, <2>1
  <1>4. \A r \in Refs : At(r).name = None /\ At(r).state = "FREE"
    BY <1>3, RefPairs, SMTT(30) DEF At, FreeSlot
  <1>5. /\ index = <<>> /\ pendingSkips = {} /\ openPasses = <<>> /\ nextPass = 1
        /\ passCounts = <<>> /\ scheduleLost = FALSE
        /\ lists = [t \in ModuleTypes |-> <<>>]
        /\ cursors = [t \in ModuleTypes |-> [pass |-> 1, position |-> 1]]
    BY DEF Init
  <1>6. SlotsTyped /\ FreeUnnamed
    BY <1>3, <1>5, SMTT(30) DEF SlotsTyped, FreeUnnamed, FreeSlot
  <1>7. IndexExact
    BY <1>4, <1>5, SMTT(30) DEF IndexExact, Range
  <1>8. NamedBehindCursor
    BY <1>4 DEF NamedBehindCursor
  <1>9. Open = {} /\ Len(openPasses) = 0
    BY <1>5, SMTT(30) DEF Open, Range
  <1>10. ScheduleTyped
    <2>1. passCounts \in [Open -> [ModuleTypes -> [copied : Nat, skipped : Nat]]]
      BY <1>5, <1>9, SMTT(30)
    <2>2. lists \in [ModuleTypes -> Seq(Modules)]
      BY <1>5, SMTT(30)
    <2>3. cursors \in [ModuleTypes -> [pass : Nat, position : Nat]]
      BY <1>5
    <2>4. pendingSkips \subseteq Nat \X Modules /\ openPasses \in Seq(Nat)
      BY <1>5, SMTT(30)
    <2>5. nextPass \in Nat /\ scheduleLost \in BOOLEAN
      BY <1>5
    <2>6. QED  BY <2>1, <2>2, <2>3, <2>4, <2>5 DEF ScheduleTyped
  <1>11. CursorsInside /\ DequeConsecutive /\ SkipsAhead /\ PassesConsecutive
    BY <1>5, <1>9, SMTT(30) DEF CursorsInside, DequeConsecutive, SkipsAhead, PassesConsecutive
  <1>12. QED
    BY <1>6, <1>7, <1>8, <1>10, <1>11 DEF TableInv, SlotsInv, ScheduleInv

\* A call that only moves slots leaves the schedule alone.
LEMMA SlotsOnly ==
    ASSUME TableInv, SlotsInv',
           UNCHANGED <<pendingSkips, lists, cursors, openPasses, nextPass, passCounts,
                       scheduleLost>>
    PROVE  TableInv'
  BY ScheduleKept DEF TableInv, ScheduleInv, ScheduleTyped

\* Every call of the owner preserves the invariant.
LEMMA TableStep == TableInv /\ [Next]_tableVars => TableInv'
  <1> SUFFICES ASSUME TableInv, [Next]_tableVars PROVE TableInv'
    OBVIOUS
  <1>1. SlotsInv
    BY DEF TableInv
  <1>2. CASE \E layout \in Layouts : ResetTypes(layout)
    BY <1>2, ResetTypesStep
  <1>3. ASSUME NEW t \in ModuleTypes, NEW layout \in Layouts, GrowType(t, layout[t])
        PROVE  TableInv'
    <2>1. layout[t] \in Nat
      BY LayoutsAssumption
    <2>2. SlotsInv'
      BY <1>1, <1>3, <2>1, GrowTypeStep
    <2>3. QED  BY <1>3, <2>2, SlotsOnly DEF GrowType
  <1>4. CASE \E tasks \in Tasks : Install(tasks)
    BY <1>4, InstallStep
  <1>5. CASE BeginPass
    BY <1>5, BeginPassStep
  <1>6. CASE \E p \in Open : CancelPass(p) \/ EndPass(p)
    BY <1>6, CancelPassStep, EndPassStep
  <1>7. CASE \E lose \in BOOLEAN : AbortPasses(lose)
    BY <1>7, AbortPassesStep
  <1>8. ASSUME NEW t \in ModuleTypes, Reserve(t)  PROVE TableInv'
    BY <1>1, <1>8, ReserveStep, SlotsOnly DEF Reserve
  <1>9. CASE \E t \in ModuleTypes : RetireSkip(t)
    BY <1>9, RetireSkipStep
  <1>10. ASSUME NEW t \in ModuleTypes, NEW i \in DOMAIN slots[t], Abandon(t, i)
         PROVE  TableInv'
    <2>1. SlotsInv'
      BY <1>1, <1>10, FillingFreed DEF Abandon
    <2>2. QED  BY <1>10, <2>1, SlotsOnly DEF Abandon
  <1>11. CASE UNCHANGED tableVars
    <2>1. UNCHANGED <<slots, index, pendingSkips, lists, cursors, openPasses, nextPass,
                      passCounts, scheduleLost>>
      BY <1>11 DEF tableVars
    <2>2. \A r \in Refs : At(r).name # None => At(r).pass \in Open'
      BY <1>1, <2>1 DEF SlotsInv, NamedBehindCursor, Open
    <2>3. QED  BY <2>1, <2>2, PassesStep, SlotsOnly
  <1>12. ASSUME NEW t \in ModuleTypes, NEW i \in DOMAIN slots[t],
                ClaimCopy(t, i) \/ ClaimSkip(t, i) \/ Landed(t, i)
         PROVE  TableInv'
    BY <1>10, <1>11, <1>12, ClaimCopyStep, LandedStep DEF ClaimSkip
  <1>13. ASSUME NEW m \in Modules, Lease(m)  PROVE TableInv'
    BY <1>1, <1>13, LeaseStep, SlotsOnly DEF Lease
  <1>14. ASSUME NEW m \in Modules, Release(m)  PROVE TableInv'
    BY <1>1, <1>14, ReleaseStep, SlotsOnly DEF Release
  <1>15. ASSUME NEW ms \in (SUBSET Modules) \ {{}}, SkipModules(ms)  PROVE TableInv'
    BY <1>15, SkipModulesStep
  <1>16. ASSUME NEW ms \in (SUBSET Modules) \ {{}}, ReleaseAsync(ms)  PROVE TableInv'
    BY <1>1, <1>16, ReleaseAsyncStep, SlotsOnly DEF ReleaseAsync
  <1>17. ASSUME NEW r \in Refs, Reclaim({r})  PROVE TableInv'
    BY <1>1, <1>17, ReclaimStep, SlotsOnly, SMTT(30) DEF Reclaim
  <1>18. QED
    BY <1>2, <1>3, <1>4, <1>5, <1>6, <1>7, <1>8, <1>9, <1>10, <1>11, <1>12, <1>13,
       <1>14, <1>15, <1>16, <1>17 DEF Next

\* The invariant holds of every reachable state.
THEOREM TableInvariant == Spec => []TableInv
  BY TableInit, TableStep, PTL DEF Spec

-----------------------------------------------------------------------------
(* What follows from it. *)

\* Every variable of the table keeps its type through every call of its owner.
THEOREM TableTyped == Spec => []TypeOK
  <1>1. TableInv => TypeOK
    BY DEF TableInv, SlotsInv, SlotsTyped, ScheduleInv, ScheduleTyped, TypeOK
  <1>2. QED  BY <1>1, TableInvariant, PTL

\* In any number of passes, of any lists over any ring, the index names exactly
\* the slots whose module may be found, each under its own module and pass.
THEOREM IndexAlwaysExact == Spec => []IndexExact
  <1>1. TableInv => IndexExact
    BY DEF TableInv, SlotsInv
  <1>2. QED  BY <1>1, TableInvariant, PTL

\* A named slot is of an open pass and behind its type's cursor, so no module is
\* copied twice in a pass and a closed pass leaves nothing in the ring.
THEOREM NamesBehindCursor == Spec => []NamedBehindCursor
  <1>1. TableInv => NamedBehindCursor
    BY DEF TableInv, SlotsInv
  <1>2. QED  BY <1>1, TableInvariant, PTL

\* The producer meets every pending skip: each is of an open pass and ahead of
\* the cursor of its type.
THEOREM SkipsStayAhead == Spec => []SkipsAhead
  <1>1. TableInv => SkipsAhead
    BY DEF TableInv, ScheduleInv
  <1>2. QED  BY <1>1, TableInvariant, PTL

\* The open passes are consecutive, and no cursor is more than one pass ahead of
\* the last one armed.
THEOREM PassesStayConsecutive == Spec => []PassesConsecutive
  <1>1. TableInv => PassesConsecutive
    BY DEF TableInv, ScheduleInv
  <1>2. QED  BY <1>1, TableInvariant, PTL

-----------------------------------------------------------------------------
(* What each call does to the slots, for the modules that build on the table. *)

\* The fields of a free slot, and of one just reserved.
LEMMA SlotFields ==
    /\ FreeSlot.state = "FREE" /\ FreeSlot.name = None
    /\ Reserving.state = "FILLING" /\ Reserving.name = None /\ Reserving.release = FALSE
  BY DEF FreeSlot, Reserving

\* A slot number is not 0.
LEMMA ZeroIsNoSlot ==
    ASSUME SlotsTyped
    PROVE  \A t : <<t, 0>> \notin Refs
  <1> SUFFICES ASSUME NEW t, <<t, 0>> \in Refs PROVE FALSE
    OBVIOUS
  <1>1. t \in ModuleTypes /\ 0 \in DOMAIN slots[t]
    BY RefPairs
  <1>2. DOMAIN slots[t] = 1..Len(slots[t]) /\ Len(slots[t]) \in Nat
    BY <1>1, SMTT(30) DEF SlotsTyped
  <1>3. QED  BY ONLY <1>1, <1>2, SMTT(30)

\* Installed modules are modules.
LEMMA InstalledTyped ==
    ASSUME ScheduleTyped
    PROVE  Installed \subseteq Modules
  BY SMTT(30) DEF ScheduleTyped, Installed, Range

\* A step that leaves the slots alone runs beside the producer.
LEMMA SameSlots ==
    ASSUME UNCHANGED slots
    PROVE  SlotsBeside /\ Refs' = Refs /\ \A r \in Refs : At(r)' = At(r)
  <1>1. Refs' = Refs /\ \A r \in Refs : At(r)' = At(r)
    BY DEF Refs, At
  <1>2. QED  BY <1>1 DEF SlotsBeside, SlotBeside

\* abort_weight_passes() and the reset of the ring leave every slot FREE.
LEMMA AllSlotsFree ==
    ASSUME SlotsTyped,
           (\E lose : AbortPasses(lose)) \/ (\E layout \in Layouts : ResetTypes(layout))
    PROVE  \A r \in Refs' : At(r)' = FreeSlot
  <1>1. \E f \in [ModuleTypes -> Nat] : slots' = [t \in ModuleTypes |-> FreeSlots(f[t])]
    <2>1. CASE \E lose : AbortPasses(lose)
      <3> DEFINE f == [t \in ModuleTypes |-> Len(slots[t])]
      <3>1. \A t \in ModuleTypes : Len(slots[t]) \in Nat
        BY SMTT(30) DEF SlotsTyped
      <3>2. f \in [ModuleTypes -> Nat] /\ slots' = [t \in ModuleTypes |-> FreeSlots(f[t])]
        BY <2>1, <3>1 DEF AbortPasses
      <3>3. QED  BY <3>2
    <2>2. CASE \E layout \in Layouts : ResetTypes(layout)
      BY <2>2, LayoutsAssumption DEF ResetTypes
    <2>3. QED  BY <2>1, <2>2
  <1>2. \A t \in ModuleTypes : \A i \in DOMAIN slots'[t] : slots'[t][i] = FreeSlot
    BY <1>1, FreeTable
  <1>3. QED  BY <1>2, RefPairsNext DEF At

\* lease(): the slot of the module, PRESENT before, is LEASED.
LEMMA LeaseView ==
    ASSUME SlotsInv, NEW m, Lease(m)
    PROVE  \E r \in Refs :
               /\ At(r).state = "PRESENT" /\ Active(r) /\ Key(r) = <<m, CurrentPass>>
               /\ Refs' = Refs
               /\ At(r)' = [At(r) EXCEPT !.state = "LEASED"]
               /\ \A q \in Refs : q # r => At(q)' = At(q)
  <1> DEFINE r == index[<<m, CurrentPass>>]
             s == [At(r) EXCEPT !.state = "LEASED"]
  <1>1. Resident(m) /\ At(r).state = "PRESENT"
    BY DEF Lease, CheckLease, SlotOf
  <1>2. /\ r \in Refs /\ r = <<r[1], r[2]>>
        /\ r[1] \in ModuleTypes /\ r[2] \in DOMAIN slots[r[1]]
        /\ Active(r) /\ Key(r) = <<m, CurrentPass>> /\ At(r) \in Slot
    BY <1>1, ResidentSlot
  <1>3. s \in Slot
    BY <1>2 DEF Slot, SlotStates
  <1>4. slots' = [slots EXCEPT ![r[1]][r[2]] = s]
    BY <1>2 DEF Lease, At
  <1> HIDE DEF r
  <1>5. Refs' = Refs /\ \A q \in Refs : At(q)' = IF q = r THEN s ELSE At(q)
    BY <1>2, <1>3, <1>4, OneRef DEF SlotsInv
  <1>6. QED  BY <1>1, <1>2, <1>5

\* release(): the LEASED slot of the module is freed.
LEMMA ReleaseView ==
    ASSUME SlotsInv, NEW m, Release(m)
    PROVE  \E r \in Refs :
               /\ At(r).state = "LEASED" /\ Active(r) /\ Key(r) = <<m, CurrentPass>>
               /\ Refs' = Refs /\ At(r)' = FreeSlot
               /\ \A q \in Refs : q # r => At(q)' = At(q)
  <1> DEFINE r == index[<<m, CurrentPass>>]
  <1>1. /\ r \in Refs /\ Active(r) /\ Key(r) = <<m, CurrentPass>> /\ At(r).state = "LEASED"
    BY ResidentSlot DEF Release, LeasedNow, SlotOf
  <1>2. FreeSlot \in Slot
    BY FreeRing
  <1>3. slots' = [slots EXCEPT ![r[1]][r[2]] = FreeSlot]
    BY DEF Release
  <1> HIDE DEF r
  <1>4. Refs' = Refs /\ \A q \in Refs : At(q)' = IF q = r THEN FreeSlot ELSE At(q)
    BY <1>1, <1>2, <1>3, OneRef DEF SlotsInv
  <1>5. QED  BY <1>1, <1>4

\* release_async(): LEASED slots wait for an event.
LEMMA ReleaseAsyncView ==
    ASSUME SlotsInv, NEW ms, ReleaseAsync(ms)
    PROVE  /\ RefsOf(ms) \subseteq Refs
           /\ \A r \in RefsOf(ms) : At(r).state = "LEASED" /\ Active(r)
           /\ Refs' = Refs
           /\ \A r \in RefsOf(ms) : At(r)' = [At(r) EXCEPT !.state = "PENDING_RELEASE"]
           /\ \A r \in Refs : r \notin RefsOf(ms) => At(r)' = At(r)
  <1>1. ASSUME NEW r \in RefsOf(ms)
        PROVE  r \in Refs /\ At(r).state = "LEASED" /\ Active(r)
    <2>1. PICK m \in ms : r = index[<<m, CurrentPass>>]
      BY DEF RefsOf
    <2>2. LeasedNow(m)
      BY DEF ReleaseAsync
    <2>3. QED  BY <2>1, <2>2, ResidentSlot DEF LeasedNow, SlotOf
  <1>2. ASSUME NEW q \in Refs
        PROVE  At(q)' = IF q \in RefsOf(ms) THEN [At(q) EXCEPT !.state = "PENDING_RELEASE"]
                        ELSE At(q)
    <2>1. q = <<q[1], q[2]>> /\ q[1] \in ModuleTypes /\ q[2] \in DOMAIN slots[q[1]]
      BY RefPairs
    <2>2. QED  BY <2>1 DEF ReleaseAsync, At
  <1>3. \A u \in ModuleTypes : DOMAIN slots'[u] = DOMAIN slots[u]
    BY DEF ReleaseAsync
  <1>4. Refs' = Refs
    BY <1>3 DEF Refs
  <1>5. QED  BY <1>1, <1>2, <1>4

\* reclaim(): the slots of the refs are freed, the others stay.
LEMMA ReclaimView ==
    ASSUME NEW G, slots' = Reclaimed(G)
    PROVE  /\ Refs' = Refs
           /\ \A q \in Refs : At(q)' = IF q \in G THEN FreeSlot ELSE At(q)
  <1>1. ASSUME NEW q \in Refs PROVE At(q)' = IF q \in G THEN FreeSlot ELSE At(q)
    <2>1. q = <<q[1], q[2]>> /\ q[1] \in ModuleTypes /\ q[2] \in DOMAIN slots[q[1]]
      BY RefPairs
    <2>2. QED  BY <2>1 DEF Reclaimed, At
  <1>2. \A u \in ModuleTypes : DOMAIN slots'[u] = DOMAIN slots[u]
    BY DEF Reclaimed
  <1>3. QED  BY <1>1, <1>2 DEF Refs

\* cancel_pass() and skip(): PRESENT slots of the modules are freed, FILLING
\* ones marked for release.
LEMMA SkipAllView ==
    ASSUME NEW p, NEW ms, NEW pending, SkipAll(p, ms, pending)
    PROVE  /\ Refs' = Refs
           /\ \A q \in Refs :
                At(q)' = IF At(q).pass = p /\ At(q).name \in ms /\ At(q).state = "PRESENT"
                         THEN FreeSlot
                         ELSE IF At(q).pass = p /\ At(q).name \in ms /\ At(q).state = "FILLING"
                         THEN [At(q) EXCEPT !.release = TRUE]
                         ELSE At(q)
  <1>1. ASSUME NEW q \in Refs
        PROVE  At(q)' = IF At(q).pass = p /\ At(q).name \in ms /\ At(q).state = "PRESENT"
                        THEN FreeSlot
                        ELSE IF At(q).pass = p /\ At(q).name \in ms /\ At(q).state = "FILLING"
                        THEN [At(q) EXCEPT !.release = TRUE]
                        ELSE At(q)
    <2>1. q = <<q[1], q[2]>> /\ q[1] \in ModuleTypes /\ q[2] \in DOMAIN slots[q[1]]
      BY RefPairs
    <2>2. QED  BY <2>1 DEF SkipAll, At
  <1>2. \A u \in ModuleTypes : DOMAIN slots'[u] = DOMAIN slots[u]
    BY DEF SkipAll
  <1>3. QED  BY <1>1, <1>2 DEF Refs

\* abandon(): the slot is freed.
LEMMA AbandonView ==
    ASSUME SlotsInv, NEW t \in ModuleTypes, NEW i \in DOMAIN slots[t], Abandon(t, i)
    PROVE  /\ <<t, i>> \in Refs /\ At(<<t, i>>).state = "FILLING"
           /\ Refs' = Refs /\ At(<<t, i>>)' = FreeSlot
           /\ \A q \in Refs : q # <<t, i>> => At(q)' = At(q)
           /\ SlotsInv'
  <1>1. /\ slots' = [slots EXCEPT ![t][i] = FreeSlot]
        /\ slots[t][i].state = "FILLING"
        /\ index' = Unindexed({<<slots[t][i].name, slots[t][i].pass>>})
        /\ UNCHANGED <<lists, cursors, openPasses>>
    BY DEF Abandon
  <1>2. FreeSlot \in Slot /\ <<t, i>> \in Refs /\ At(<<t, i>>) = slots[t][i]
    BY FreeRing, RefPairs DEF At
  <1>3. Refs' = Refs /\ \A q \in Refs : At(q)' = IF q = <<t, i>> THEN FreeSlot ELSE At(q)
    BY <1>1, <1>2, OneSlot DEF SlotsInv
  <1>4. SlotsInv'
    BY <1>1, FillingFreed
  <1>5. QED  BY <1>1, <1>2, <1>3, <1>4

\* claim(): the slot gets its module and its pass.
LEMMA ClaimView ==
    ASSUME SlotsInv, ScheduleTyped, CursorsInside,
           NEW t \in ModuleTypes, NEW i \in DOMAIN slots[t], ClaimCopy(t, i)
    PROVE  /\ <<t, i>> \in Refs /\ At(<<t, i>>) \in Slot
           /\ At(<<t, i>>).state = "FILLING" /\ At(<<t, i>>).name = None
           /\ Refs' = Refs
           /\ At(<<t, i>>)'.state = "FILLING" /\ At(<<t, i>>)'.name = CursorModule(t)
           /\ At(<<t, i>>)'.pass = cursors[t].pass
           /\ At(<<t, i>>)'.release = At(<<t, i>>).release
           /\ \A q \in Refs : q # <<t, i>> => At(q)' = At(q)
           /\ CursorModule(t) \in Installed /\ CursorModule(t) \in Modules
  <1> DEFINE m == CursorModule(t)
             c == cursors[t].pass
             s == [At(<<t, i>>) EXCEPT !.name = m, !.pass = c]
  <1>1. /\ slots' = [slots EXCEPT ![t][i].name = m, ![t][i].pass = c]
        /\ slots[t][i].state = "FILLING" /\ slots[t][i].name = None
        /\ lists[t] # <<>>
    BY DEF ClaimCopy, NextProduction
  <1>2. <<t, i>> \in Refs /\ At(<<t, i>>) = slots[t][i] /\ At(<<t, i>>) \in Slot
    BY RefPairs, SlotTyped DEF At, SlotsInv
  <1>3. m \in Installed /\ m \in Modules
    BY <1>1, Located, InstalledTyped DEF CursorsInside, CursorModule
  <1>4. s \in Slot
    BY <1>2, <1>3 DEF Slot, ScheduleTyped
  <1>5. slots' = [slots EXCEPT ![t][i] = s]
    BY <1>1, <1>2
  <1>6. s.state = "FILLING" /\ s.name = m /\ s.pass = c /\ s.release = At(<<t, i>>).release
    <2>1. PICK u \in Slot : u = At(<<t, i>>)
      BY <1>2
    <2>2. u.state = "FILLING"
      BY <1>1, <1>2, <2>1
    <2> HIDE DEF m, c
    <2>3. QED  BY <2>1, <2>2 DEF Slot
  <1> HIDE DEF s, m, c
  <1>7. Refs' = Refs /\ \A q \in Refs : At(q)' = IF q = <<t, i>> THEN s ELSE At(q)
    BY <1>4, <1>5, OneSlot DEF SlotsInv
  <1>8. QED  BY <1>1, <1>2, <1>3, <1>6, <1>7 DEF m, c

\* landed(): the slot is PRESENT, or FREE when it was released meanwhile.
LEMMA LandedView ==
    ASSUME SlotsInv, NEW t \in ModuleTypes, NEW i \in DOMAIN slots[t], Landed(t, i)
    PROVE  /\ <<t, i>> \in Refs /\ At(<<t, i>>) \in Slot
           /\ At(<<t, i>>).state = "FILLING" /\ At(<<t, i>>).name # None
           /\ Refs' = Refs
           /\ At(<<t, i>>).release => At(<<t, i>>)' = FreeSlot
           /\ ~At(<<t, i>>).release =>
                /\ At(<<t, i>>)'.state = "PRESENT" /\ At(<<t, i>>)'.name = At(<<t, i>>).name
                /\ At(<<t, i>>)'.pass = At(<<t, i>>).pass /\ ~At(<<t, i>>)'.release
           /\ \A q \in Refs : q # <<t, i>> => At(q)' = At(q)
  <1> DEFINE s == IF At(<<t, i>>).release THEN FreeSlot
                  ELSE [At(<<t, i>>) EXCEPT !.state = "PRESENT"]
  <1>1. <<t, i>> \in Refs /\ At(<<t, i>>) = slots[t][i] /\ At(<<t, i>>) \in Slot
    BY RefPairs, SlotTyped DEF At, SlotsInv
  <1>2. [At(<<t, i>>) EXCEPT !.state = "PRESENT"] \in Slot
    BY <1>1 DEF Slot, SlotStates
  <1>3. s \in Slot
    BY <1>2, FreeRing
  <1>4. slots' = [slots EXCEPT ![t][i] = s]
    BY <1>1 DEF Landed
  <1>5. ~At(<<t, i>>).release => /\ s.state = "PRESENT" /\ s.name = At(<<t, i>>).name
                                 /\ s.pass = At(<<t, i>>).pass /\ ~s.release
    <2>1. PICK u \in Slot : u = At(<<t, i>>)
      BY <1>1
    <2>2. QED  BY <2>1 DEF Slot
  <1>6. At(<<t, i>>).release => s = FreeSlot
    OBVIOUS
  <1> HIDE DEF s
  <1>7. Refs' = Refs /\ \A q \in Refs : At(q)' = IF q = <<t, i>> THEN s ELSE At(q)
    BY <1>3, <1>4, OneSlot DEF SlotsInv
  <1>8. At(<<t, i>>)' = s
    BY <1>1, <1>7
  <1>9. QED  BY <1>1, <1>5, <1>6, <1>7, <1>8 DEF Landed

\* acquireEmptyBuffer(): the slots of the completed releases are freed, and the
\* first FREE one is reserved.
LEMMA AcquireView ==
    ASSUME SlotsInv, NEW t \in ModuleTypes, NEW G \in SUBSET Refs, NEW ring,
           ring = Reclaimed(G), FreeIn(ring, t) # {},
           slots' = AfterReserve(ring, t)
    PROVE  /\ <<t, Reserved(ring, t)>> \in Refs
           /\ <<t, Reserved(ring, t)>> \in G \/ At(<<t, Reserved(ring, t)>>).state = "FREE"
           /\ slots' \in [ModuleTypes -> Seq(Slot)]
           /\ Refs' = Refs
           /\ \A q \in Refs : At(q)' = IF q = <<t, Reserved(ring, t)>> THEN Reserving
                                       ELSE IF q \in G THEN FreeSlot ELSE At(q)
  <1> DEFINE i == Reserved(ring, t)
  <1>1. /\ DOMAIN ring = ModuleTypes
        /\ \A u \in ModuleTypes : DOMAIN ring[u] = DOMAIN slots[u]
        /\ \A u \in ModuleTypes : \A j \in DOMAIN slots[u] :
             ring[u][j] = IF <<u, j>> \in G THEN FreeSlot ELSE slots[u][j]
        /\ ring = [u \in ModuleTypes |-> ring[u]]
        /\ \A u \in ModuleTypes : ring[u] = [j \in DOMAIN slots[u] |-> ring[u][j]]
    BY DEF Reclaimed
  <1>2. /\ slots \in [ModuleTypes -> Seq(Slot)]
        /\ \A u \in ModuleTypes : \A j \in DOMAIN slots[u] : slots[u][j] \in Slot
    BY SMTT(30) DEF SlotsInv, SlotsTyped
  <1>3. FreeSlot \in Slot /\ FreeSlot.state = "FREE"
    BY FreeRing DEF FreeSlot
  <1>4. ASSUME NEW u \in ModuleTypes PROVE ring[u] \in [DOMAIN slots[u] -> Slot]
    <2>1. \A j \in DOMAIN slots[u] : ring[u][j] \in Slot
      BY <1>1, <1>2, <1>3
    <2>2. ring[u] = [j \in DOMAIN slots[u] |-> ring[u][j]]
      BY <1>1
    <2>3. QED  BY ONLY <2>1, <2>2
  <1>5. FreeIn(ring, t) \in SUBSET Nat
    BY <1>1, <1>2, SMTT(30) DEF FreeIn
  <1>6. \E j \in FreeIn(ring, t) : \A k \in FreeIn(ring, t) : j <= k
    BY <1>5, LeastNatural
  <1>7. i \in DOMAIN slots[t] /\ ring[t][i].state = "FREE"
    BY <1>1, <1>6 DEF Reserved, FreeIn
  <1>8. <<t, i>> \in Refs /\ At(<<t, i>>) = slots[t][i]
    BY <1>7, RefPairs DEF At
  <1>9. <<t, i>> \in G \/ At(<<t, i>>).state = "FREE"
    BY <1>1, <1>7, <1>8
  <1>10. slots' = [ring EXCEPT ![t][i] = Reserving] /\ Reserving \in Slot
    BY DEF AfterReserve, Reserving, FreeSlot, Slot, SlotStates
  <1> HIDE DEF i
  <1>11. /\ slots' = [u \in ModuleTypes |-> slots'[u]]
         /\ slots'[t] = [ring[t] EXCEPT ![i] = Reserving]
         /\ \A u \in ModuleTypes : u # t => slots'[u] = ring[u]
    BY ONLY <1>1, <1>10, t \in ModuleTypes, ZenonT(60)
  <1>12. slots' \in [ModuleTypes -> Seq(Slot)] /\ Refs' = Refs
    <2>1. slots'[t] \in [DOMAIN slots[t] -> Slot]
      BY ONLY <1>4, <1>7, <1>10, <1>11, t \in ModuleTypes
    <2>2. \A u \in ModuleTypes : slots'[u] \in [DOMAIN slots[u] -> Slot]
      BY <1>4, <1>11, <2>1
    <2>3. QED  BY <1>11, <2>2, SameShape DEF SlotsInv
  <1>13. ASSUME NEW q \in Refs
         PROVE  At(q)' = IF q = <<t, i>> THEN Reserving
                         ELSE IF q \in G THEN FreeSlot ELSE At(q)
    <2>1. q = <<q[1], q[2]>> /\ q[1] \in ModuleTypes /\ q[2] \in DOMAIN slots[q[1]]
      BY RefPairs
    <2>2. At(q) = slots[q[1]][q[2]] /\ At(q)' = slots'[q[1]][q[2]]
      BY DEF At
    <2>3. CASE q = <<t, i>>
      <3>1. slots'[t][i] = Reserving
        BY ONLY <1>4, <1>7, <1>11, t \in ModuleTypes
      <3>2. QED  BY <2>1, <2>2, <2>3, <3>1
    <2>4. CASE q # <<t, i>>
      <3>1. slots'[q[1]][q[2]] = ring[q[1]][q[2]]
        <4>1. CASE q[1] = t
          <5>1. q[2] # i
            BY <2>1, <2>4, <4>1
          <5>2. QED  BY ONLY <1>4, <1>11, <2>1, <4>1, <5>1
        <4>2. CASE q[1] # t
          BY <1>11, <2>1, <4>2
        <4>3. QED  BY <4>1, <4>2
      <3>2. ring[q[1]][q[2]] = IF q \in G THEN FreeSlot ELSE slots[q[1]][q[2]]
        BY <1>1, <2>1, SMTT(30)
      <3>3. QED  BY <2>2, <2>4, <3>1, <3>2
    <2>5. QED  BY <2>3, <2>4
  <1>14. QED  BY <1>8, <1>9, <1>12, <1>13 DEF i

\* What next_production() tells.
LEMMA ProductionKinds ==
    ASSUME NEW t
    PROVE  /\ NextProduction(t) \in {"NONE", "PARKED", "SKIP", "COPY"}
           /\ NextProduction(t) \in {"SKIP", "COPY"} =>
                lists[t] # <<>> /\ cursors[t].pass \in Open
           /\ NextProduction(t) = "SKIP" <=>
                /\ lists[t] # <<>> /\ cursors[t].pass \in Open
                /\ <<cursors[t].pass, CursorModule(t)>> \in pendingSkips
  BY DEF NextProduction

\* Where advance() puts a cursor.
LEMMA AdvancedCursor ==
    ASSUME ScheduleInv, NEW t \in ModuleTypes, lists[t] # <<>>
    PROVE  /\ lists[t] \in Seq(Modules) /\ Len(lists[t]) \in Nat
           /\ cursors[t].pass \in Nat /\ cursors[t].position \in 1..Len(lists[t])
           /\ Advanced(t).position = (IF cursors[t].position >= Len(lists[t]) THEN 1
                                      ELSE cursors[t].position + 1)
           /\ Advanced(t).pass = (IF cursors[t].position >= Len(lists[t])
                                  THEN cursors[t].pass + 1 ELSE cursors[t].pass)
  <1>1. /\ lists[t] \in Seq(Modules) /\ Len(lists[t]) \in Nat
        /\ cursors[t] \in [pass : Nat, position : Nat]
        /\ cursors[t].position \in 1..Len(lists[t])
    BY SMTT(30) DEF ScheduleInv, ScheduleTyped, CursorsInside
  <1>2. PICK c \in [pass : Nat, position : Nat] : c = cursors[t]
    BY <1>1
  <1>3. Advanced(t) = IF c.position >= Len(lists[t]) THEN [pass |-> c.pass + 1, position |-> 1]
                      ELSE [c EXCEPT !.position = c.position + 1]
    BY <1>2 DEF Advanced
  <1>4. [c EXCEPT !.position = c.position + 1].position = c.position + 1
        /\ [c EXCEPT !.position = c.position + 1].pass = c.pass
    OBVIOUS
  <1>5. CASE c.position >= Len(lists[t])
    <2>1. Advanced(t).position = 1 /\ Advanced(t).pass = c.pass + 1
      BY <1>3, <1>5, SMTT(30)
    <2>2. QED  BY <1>1, <1>2, <1>5, <2>1
  <1>6. CASE ~(c.position >= Len(lists[t]))
    <2>1. Advanced(t).position = c.position + 1 /\ Advanced(t).pass = c.pass
      BY <1>3, <1>4, <1>6
    <2>2. QED  BY <1>1, <1>2, <1>6, <2>1
  <1>7. QED  BY <1>5, <1>6

\* The cursors after one of them advanced.
LEMMA AdvancedCursors ==
    ASSUME ScheduleTyped, NEW t \in ModuleTypes,
           cursors' = [cursors EXCEPT ![t] = Advanced(t)]
    PROVE  /\ cursors'[t] = Advanced(t)
           /\ \A u \in ModuleTypes : u # t => cursors'[u] = cursors[u]
  BY DEF ScheduleTyped

=============================================================================
