--------------------- MODULE WeightStreamWorkerProofs ---------------------
(***************************************************************************)
(* Proofs about the worker of the weight stream: while nothing failed, the *)
(* slot table refuses none of its calls.                                   *)
(***************************************************************************)
EXTENDS WeightStreamProofs, TLAPS

USE ZenonT(60)

-----------------------------------------------------------------------------
(* What is fresh: only lease(), skip_modules() and cancel_pass() change it. *)

\* A slot the worker cannot lease may be freed or reserved.
LEMMA QuietFree ==
    ASSUME NEW r, ~Live(r), At(r)' = FreeSlot \/ At(r)' = Reserving
    PROVE  QuietSlot(r)
  BY SlotFields DEF QuietSlot, Live

\* Then every module is as fresh as before.
LEMMA QuietFresh ==
    ASSUME QuietSlots, NEW m, NEW p,
           (~Produced(m, p)' /\ <<p, m>> \notin pendingSkips')
             <=> (~Produced(m, p) /\ <<p, m>> \notin pendingSkips)
    PROVE  Fresh(m, p)' <=> Fresh(m, p)
  <1>1. ASSUME NEW r \in Refs
        PROVE  (Live(r)' /\ Key(r)' = <<m, p>>) <=> (Live(r) /\ Key(r) = <<m, p>>)
    <2>1. CASE At(r)' = At(r)
      BY <2>1 DEF Live, Key
    <2>2. CASE /\ Live(r)' <=> Live(r)
               /\ At(r)'.name # None => Key(r)' = Key(r)
      BY <2>2 DEF Live
    <2>3. QED  BY <2>1, <2>2 DEF QuietSlots, QuietSlot
  <1>2. Refs' = Refs
    BY DEF QuietSlots
  <1>3. QED  BY <1>1, <1>2 DEF Fresh

\* Above all when the schedule stays the same.
LEMMA QuietStep ==
    ASSUME QuietSlots, UNCHANGED <<lists, cursors, pendingSkips>>
    PROVE  Installed' = Installed /\ \A m, p : Fresh(m, p)' <=> Fresh(m, p)
  <1>1. Installed' = Installed
    BY DEF Installed
  <1>2. \A m, p : Produced(m, p)' <=> Produced(m, p)
    BY DEF Produced, TypeOf, PositionOf
  <1>3. QED  BY <1>1, <1>2, QuietFresh

\* A step that leaves the slots alone.
LEMMA QuietSame ==
    ASSUME UNCHANGED slots
    PROVE  QuietSlots
  BY SameSlots DEF QuietSlots, QuietSlot

\* release(), release_async() and reclaim(): their slots are leased or pending.
LEMMA CallsQuiet ==
    ASSUME SlotsInv
    PROVE  /\ \A m : Release(m) => QuietSlots
           /\ \A ms : ReleaseAsync(ms) => QuietSlots
           /\ \A G \in SUBSET Refs : Reclaim(G) => QuietSlots
  <1>1. ASSUME NEW m, Release(m) PROVE QuietSlots
    <2>1. PICK r \in Refs :
               /\ At(r).state = "LEASED"
               /\ Refs' = Refs /\ At(r)' = FreeSlot
               /\ \A q \in Refs : q # r => At(q)' = At(q)
      BY <1>1, ReleaseView
    <2>2. ~Live(r)
      BY <2>1 DEF Live
    <2>3. QuietSlot(r)
      BY <2>1, <2>2, QuietFree
    <2>4. QED  BY <2>1, <2>3 DEF QuietSlots, QuietSlot
  <1>2. ASSUME NEW ms, ReleaseAsync(ms) PROVE QuietSlots
    <2>1. /\ \A r \in RefsOf(ms) : r \in Refs /\ At(r).state = "LEASED"
          /\ Refs' = Refs
          /\ \A r \in RefsOf(ms) : At(r)' = [At(r) EXCEPT !.state = "PENDING_RELEASE"]
          /\ \A r \in Refs : r \notin RefsOf(ms) => At(r)' = At(r)
      BY <1>2, ReleaseAsyncView
    <2>2. ASSUME NEW r \in RefsOf(ms) PROVE QuietSlot(r)
      <3>1. PICK s \in Slot : s = At(r) /\ s.state = "LEASED"
        BY <2>1, SlotTyped DEF SlotsInv
      <3>2. PICK u : u = At(r)' /\ u = [s EXCEPT !.state = "PENDING_RELEASE"]
        BY <2>1, <3>1
      <3>3. u.state = "PENDING_RELEASE" /\ u.name = s.name /\ u.pass = s.pass
        BY <3>2 DEF Slot
      <3>4. ~Live(r) /\ ~Live(r)' /\ Key(r)' = Key(r)
        BY <3>1, <3>2, <3>3 DEF Live, Key
      <3>5. QED  BY <3>2, <3>3, <3>4 DEF QuietSlot
    <2>3. QED  BY <2>1, <2>2 DEF QuietSlots, QuietSlot
  <1>3. ASSUME NEW G \in SUBSET Refs, Reclaim(G) PROVE QuietSlots
    <2>1. /\ Refs' = Refs
          /\ \A q \in Refs : At(q)' = IF q \in G THEN FreeSlot ELSE At(q)
          /\ \A q \in G : At(q).state = "PENDING_RELEASE"
      BY <1>3, ReclaimView DEF Reclaim
    <2>2. ASSUME NEW q \in Refs PROVE QuietSlot(q)
      <3>1. CASE q \in G
        <4>1. ~Live(q)
          BY <2>1, <3>1 DEF Live
        <4>2. QED  BY <2>1, <3>1, <4>1, QuietFree
      <3>2. CASE q \notin G
        BY <2>1, <3>2 DEF QuietSlot
      <3>3. QED  BY <3>1, <3>2
    <2>3. QED  BY <2>1, <2>2 DEF QuietSlots
  <1>4. QED  BY <1>1, <1>2, <1>3

\* acquireEmptyBuffer() frees pending slots and reserves a free one.
LEMMA AcquireQuiet ==
    ASSUME SlotsInv, ReleaseInv, ThreadInv, ProducerAcquire
    PROVE  QuietSlots
  <1> DEFINE G == DoneRefs
             ring == Reclaimed(G)
  <1>1. G \in SUBSET Refs /\ \A r \in G : ~Live(r)
    BY DonePending DEF Live
  <1>2. CASE slots' = ring
    <2>1. Refs' = Refs /\ \A q \in Refs : At(q)' = IF q \in G THEN FreeSlot ELSE At(q)
      BY <1>2, ReclaimView
    <2> HIDE DEF G
    <2>2. \A q \in Refs : QuietSlot(q)
      BY <1>1, <2>1, QuietFree DEF QuietSlot
    <2>3. QED  BY <2>1, <2>2 DEF QuietSlots
  <1>3. CASE FreeIn(ring, visited) # {} /\ slots' = AfterReserve(ring, visited)
    <2>0. ring = Reclaimed(G)
      OBVIOUS
    <2> HIDE DEF G, ring
    <2>1. visited \in ModuleTypes
      BY VisitedType DEF ThreadInv, Busy, AtCursor, ProducerAcquire
    <2>2. PICK r : r = <<visited, Reserved(ring, visited)>>
      OBVIOUS
    <2>3. /\ r \in G \/ At(r).state = "FREE"
          /\ Refs' = Refs
          /\ \A q \in Refs : At(q)' = IF q = r THEN Reserving
                                      ELSE IF q \in G THEN FreeSlot ELSE At(q)
      BY <1>1, <1>3, <2>0, <2>1, <2>2, AcquireView, SMTT(30)
    <2>4. ~Live(r)
      BY <1>1, <2>3 DEF Live
    <2>5. \A q \in Refs : QuietSlot(q)
      BY <1>1, <2>3, <2>4, QuietFree DEF QuietSlot
    <2>6. QED  BY <2>3, <2>5 DEF QuietSlots
  <1>4. slots' = ring \/ (FreeIn(ring, visited) # {} /\ slots' = AfterReserve(ring, visited))
    BY DEF ProducerAcquire, DoneRefs
  <1>5. QED  BY ONLY <1>2, <1>3, <1>4, ZenonT(60)

\* Quiet slots are slots the producer may leave behind.
LEMMA QuietProduced ==
    ASSUME QuietSlots
    PROVE  Refs' = Refs /\ \A r \in Refs : ProducedSlot(r)
  <1> SUFFICES ASSUME NEW r \in Refs PROVE ProducedSlot(r)
    BY DEF QuietSlots
  <1>1. CASE At(r)' = At(r)
    BY <1>1 DEF ProducedSlot
  <1>2. CASE At(r)'.state # "LEASED" /\ (At(r)'.name # None => Key(r)' = Key(r))
    <2>1. At(r)'.name # None => At(r)'.name = At(r).name /\ At(r)'.pass = At(r).pass
      BY <1>2 DEF Key
    <2>2. QED  BY <1>2, <2>1 DEF ProducedSlot
  <1>3. QED  BY <1>1, <1>2 DEF QuietSlots, QuietSlot

\* A quiet step that leaves the schedule alone.
LEMMA QuietKept ==
    ASSUME ScheduleInv, QuietSlots,
           UNCHANGED <<lists, cursors, pendingSkips, openPasses, nextPass>>
    PROVE  FreshKept
  <1>1. \A t \in ModuleTypes : lists[t] # <<>> => cursors'[t].pass >= cursors[t].pass
    BY AdvancedCursor, SMTT(30)
  <1>2. QED  BY <1>1, QuietStep, QuietProduced DEF FreshKept

\* Abandoning a slot that is reserved but not named.
LEMMA AbandonQuiet ==
    ASSUME TableInv, ThreadInv, ProducerInv, pc \in {"fetch", "claim"}, buffer # 0,
           Abandon(visited, buffer)
    PROVE  FreshKept
  <1>0. SlotsInv /\ SlotsTyped /\ ScheduleInv
    BY DEF TableInv, SlotsInv
  <1>1. PICK t, i : t = visited /\ i = buffer
    OBVIOUS
  <1>2. /\ t \in ModuleTypes /\ i \in DOMAIN slots[t]
        /\ At(<<t, i>>) = Reserving /\ Abandon(t, i)
    BY <1>0, <1>1, BufferSlot, ZeroIsNoSlot DEF ProducerInv
  <1>3. /\ Refs' = Refs /\ At(<<t, i>>)' = FreeSlot
        /\ \A q \in Refs : q # <<t, i>> => At(q)' = At(q)
    BY <1>0, <1>2, AbandonView
  <1>4. QuietSlot(<<t, i>>)
    BY <1>2, <1>3, QuietFree, SlotFields DEF Live
  <1>5. QuietSlots
    BY <1>3, <1>4 DEF QuietSlots, QuietSlot
  <1>6. UNCHANGED <<lists, cursors, pendingSkips, openPasses, nextPass>>
    BY <1>2 DEF Abandon
  <1>7. QED  BY <1>0, <1>5, <1>6, QuietKept

\* A copy that lands is PRESENT, unless it was released meanwhile.
LEMMA LandedQuiet ==
    ASSUME TableInv, ThreadInv, ProducerInv, pc = "land", Landed(visited, buffer)
    PROVE  FreshKept
  <1>0. SlotsInv /\ SlotsTyped /\ ScheduleInv
    BY DEF TableInv, SlotsInv
  <1>1. PICK t, i : t = visited /\ i = buffer
    OBVIOUS
  <1>2. t \in ModuleTypes /\ i \in DOMAIN slots[t] /\ Landed(t, i)
    BY <1>0, <1>1, LandBuffer
  <1>3. PICK r : r = <<t, i>>
    OBVIOUS
  <1>4. /\ r \in Refs /\ At(r).state = "FILLING" /\ At(r).name # None
        /\ Refs' = Refs
        /\ At(r).release => At(r)' = FreeSlot
        /\ ~At(r).release =>
             /\ At(r)'.state = "PRESENT" /\ At(r)'.name = At(r).name
             /\ At(r)'.pass = At(r).pass
        /\ \A q \in Refs : q # r => At(q)' = At(q)
    BY <1>0, <1>2, <1>3, LandedView
  <1>5. QuietSlot(r)
    <2>1. CASE At(r).release
      <3>1. ~Live(r)
        BY <1>4, <2>1 DEF Live
      <3>2. QED  BY <1>4, <2>1, <3>1, QuietFree
    <2>2. CASE ~At(r).release
      <3>1. Live(r) /\ Live(r)' /\ Key(r)' = Key(r)
        BY <1>4, <2>2 DEF Live, Key
      <3>2. QED  BY <1>4, <2>2, <3>1 DEF QuietSlot
    <2>3. QED  BY <2>1, <2>2
  <1>6. QuietSlots
    BY <1>4, <1>5 DEF QuietSlots, QuietSlot
  <1>7. UNCHANGED <<lists, cursors, pendingSkips, openPasses, nextPass>>
    BY <1>2 DEF Landed
  <1>8. QED  BY <1>0, <1>6, <1>7, QuietKept

\* A retired skip was none of the worker's modules any more.
LEMMA RetireKept ==
    ASSUME TableInv, NEW t \in ModuleTypes, RetireSkip(t)
    PROVE  FreshKept
  <1> DEFINE m == CursorModule(t)
             c == cursors[t].pass
  <1>0. ScheduleInv
    BY DEF TableInv
  <1>1. /\ lists[t] # <<>> /\ c \in Open /\ <<c, m>> \in pendingSkips
        /\ cursors' = [cursors EXCEPT ![t] = Advanced(t)]
        /\ UNCHANGED <<lists, openPasses, nextPass>> /\ UNCHANGED slots
        /\ pendingSkips' = pendingSkips \ {<<c, m>>}
    BY ProductionKinds DEF RetireSkip
  <1>2. QuietSlots
    BY <1>1, QuietSame
  <1>3. Installed' = Installed
    BY <1>1 DEF Installed
  <1>4. \A x \in Installed, p \in Nat :
                /\ Produced(x, p) => Produced(x, p)'
                /\ Produced(x, p)' => Produced(x, p) \/ (x = m /\ p = c)
                /\ x = m /\ p = c => Produced(x, p)'
    BY <1>0, <1>1, CursorAdvances
  <1>5. ASSUME NEW x \in Installed, NEW p \in Nat PROVE Fresh(x, p)' <=> Fresh(x, p)
    <2> HIDE DEF m, c
    <2>1. CASE x = m /\ p = c
      BY <1>1, <1>2, <1>4, <2>1, QuietFresh
    <2>2. CASE ~(x = m /\ p = c)
      <3>1. <<p, x>> \in pendingSkips' <=> <<p, x>> \in pendingSkips
        BY <1>1, <2>2
      <3>2. Produced(x, p)' <=> Produced(x, p)
        BY <1>4, <2>2
      <3>3. QED  BY <1>2, <3>1, <3>2, QuietFresh
    <2>3. QED  BY <2>1, <2>2
  <1>6. \A u \in ModuleTypes : lists[u] # <<>> => cursors'[u].pass >= cursors[u].pass
    <2>1. cursors'[t] = Advanced(t) /\ \A u \in ModuleTypes : u # t => cursors'[u] = cursors[u]
      BY <1>0, <1>1, AdvancedCursors DEF ScheduleInv
    <2>2. QED  BY <1>0, <1>1, <2>1, AdvancedCursor, SMTT(30)
  <1>7. QED  BY <1>1, <1>2, <1>3, <1>5, <1>6, QuietProduced DEF FreshKept

\* A claimed module moves from ahead of the cursor into its slot.
LEMMA ClaimKept ==
    ASSUME TableInv, ThreadInv, ProducerInv, ProducerClaim, ClaimCopy(visited, buffer)
    PROVE  FreshKept
  <1>0. SlotsInv /\ SlotsTyped /\ ScheduleInv /\ NamedBehindCursor
    BY DEF TableInv, SlotsInv
  <1>1. PICK t, i : t = visited /\ i = buffer
    OBVIOUS
  <1>2. PICK m, c, r : m = CursorModule(t) /\ c = cursors[t].pass /\ r = <<t, i>>
    OBVIOUS
  <1>3. t \in ModuleTypes /\ i \in DOMAIN slots[t] /\ ClaimCopy(t, i)
    BY <1>0, <1>1, ClaimBuffer
  <1>4. /\ lists[t] # <<>> /\ c \in Open /\ <<c, m>> \notin pendingSkips
        /\ cursors' = [cursors EXCEPT ![t] = Advanced(t)]
        /\ UNCHANGED <<lists, openPasses, nextPass>> /\ UNCHANGED pendingSkips
    BY <1>2, <1>3 DEF ClaimCopy, NextProduction
  <1>5. /\ r \in Refs /\ At(r).state = "FILLING" /\ At(r).name = None
        /\ Refs' = Refs
        /\ At(r)'.state = "FILLING" /\ At(r)'.name = m /\ At(r)'.pass = c
        /\ At(r)'.release = At(r).release
        /\ \A q \in Refs : q # r => At(q)' = At(q)
        /\ m \in Installed /\ m # None
    BY <1>0, <1>2, <1>3, ClaimView, NoneAssumption DEF ScheduleInv
  <1>6. ~At(r).release
    <2>1. <<next.pass, next.module>> \notin pendingSkips
      BY <1>1, <1>2, <1>4 DEF ProducerClaim, ProducerInv, AtCursor
    <2>2. At(r) = Reserving
      BY <1>1, <1>2, <2>1 DEF ProducerClaim, ProducerInv
    <2>3. QED  BY <2>2, SlotFields
  <1>7. Live(r)' /\ Key(r)' = <<m, c>> /\ ~Live(r)
    BY <1>5, <1>6 DEF Live, Key
  <1>8. /\ ~Produced(m, c)
        /\ \A x \in Installed, p \in Nat :
                /\ Produced(x, p) => Produced(x, p)'
                /\ Produced(x, p)' => Produced(x, p) \/ (x = m /\ p = c)
                /\ x = m /\ p = c => Produced(x, p)'
    BY <1>0, <1>2, <1>3, <1>4, CursorAdvances
  <1>9. ASSUME NEW x \in Installed, NEW p \in Nat PROVE Fresh(x, p)' <=> Fresh(x, p)
    <2>1. CASE x = m /\ p = c
      BY <1>4, <1>5, <1>7, <1>8, <2>1 DEF Fresh
    <2>2. CASE ~(x = m /\ p = c)
      <3>1. Produced(x, p)' <=> Produced(x, p)
        BY <1>8, <2>2
      <3>2. Key(r)' # <<x, p>>
        BY <1>7, <2>2, SMTT(30)
      <3>3. \A q \in Refs : q # r => (Live(q)' <=> Live(q)) /\ Key(q)' = Key(q)
        BY <1>5 DEF Live, Key
      <3>4. \A q \in Refs : (Live(q)' /\ Key(q)' = <<x, p>>) <=> (Live(q) /\ Key(q) = <<x, p>>)
        <4> SUFFICES ASSUME NEW q \in Refs
                     PROVE  (Live(q)' /\ Key(q)' = <<x, p>>) <=> (Live(q) /\ Key(q) = <<x, p>>)
          OBVIOUS
        <4>1. CASE q = r
          <5>1. Key(q)' = Key(r)' /\ (Live(q) <=> Live(r))
            BY <4>1 DEF Key, At
          <5>2. QED  BY <1>7, <3>2, <5>1
        <4>2. QED  BY <3>3, <4>1
      <3>5. QED  BY <1>4, <1>5, <3>1, <3>4 DEF Fresh
    <2>3. QED  BY <2>1, <2>2
  <1>10. \A u \in ModuleTypes : lists[u] # <<>> => cursors'[u].pass >= cursors[u].pass
    <2>1. cursors'[t] = Advanced(t) /\ \A u \in ModuleTypes : u # t => cursors'[u] = cursors[u]
      BY <1>0, <1>3, <1>4, AdvancedCursors DEF ScheduleInv
    <2>2. QED  BY <1>0, <1>3, <1>4, <2>1, AdvancedCursor, SMTT(30)
  <1>11. \A q \in Refs : ProducedSlot(q)
    <2>1. ProducedSlot(r)
      BY <1>2, <1>3, <1>4, <1>5 DEF ProducedSlot
    <2>2. \A q \in Refs : q # r => ProducedSlot(q)
      BY <1>5 DEF ProducedSlot
    <2>3. QED  BY <2>1, <2>2
  <1>12. Installed' = Installed
    BY <1>4 DEF Installed
  <1>13. QED  BY <1>4, <1>5, <1>9, <1>10, <1>11, <1>12 DEF FreshKept

\* No step of the producer or the device takes a module from the worker.
LEMMA ProducerKeeps ==
    ASSUME TableInv, ThreadInv, ProducerInv, ReleaseInv, Producer \/ EventCompletes
    PROVE  FreshKept /\ UNCHANGED workerVars /\ UNCHANGED failed
  <1>0. SlotsInv /\ ScheduleInv
    BY DEF TableInv
  <1>1. UNCHANGED workerVars /\ UNCHANGED failed
    BY DEF Producer, EventCompletes, ProducerTop,
       ProducerEndIteration, ProducerWake, ProducerScan, ProducerAcquire, ProducerFetch,
       ProducerFetchCancelled, ProducerClaim, ProducerReleaseLease, ProducerFinish
  <1>2. CASE UNCHANGED tableVars
    <2>1. UNCHANGED slots /\ UNCHANGED <<lists, cursors, pendingSkips, openPasses, nextPass>>
      BY <1>2 DEF tableVars
    <2>2. QuietSlots
      BY <2>1, QuietSame
    <2>3. QED  BY <1>0, <1>1, <2>1, <2>2, QuietKept
  <1>3. CASE ProducerTop \/ ProducerEndIteration \/ ProducerWake \/ ProducerScan
             \/ ProducerFetch \/ ProducerReleaseLease \/ EventCompletes
    BY <1>2, <1>3 DEF EventCompletes, ProducerTop, ProducerEndIteration, ProducerWake,
       ProducerScan, ProducerFetch, ProducerReleaseLease
  <1>4. CASE ProducerAcquire
    BY <1>0, <1>4, AcquireQuiet, QuietKept DEF ProducerAcquire
  <1>5. CASE ProducerFetchCancelled
    BY <1>2, <1>5, AbandonQuiet DEF ProducerFetchCancelled
  <1>6. CASE ProducerClaim
    BY <1>2, <1>6, AbandonQuiet, ClaimKept DEF ProducerClaim, ClaimSkip
  <1>7. CASE ProducerFinish
    <2>1. visited \in ModuleTypes
      BY <1>7, VisitedType DEF ThreadInv, Busy, AtCursor, ProducerFinish
    <2>2. QED  BY <1>7, <2>1, LandedQuiet, RetireKept DEF ProducerFinish
  <1>8. QED  BY <1>1, <1>3, <1>4, <1>5, <1>6, <1>7 DEF Producer

\* skip_modules() and cancel_pass() take the modules ms of pass c.
LEMMA SkipAllFresh ==
    ASSUME SlotsInv, NEW c, NEW ms, NEW pending \in SUBSET ms,
           SkipAll(c, ms, pending),
           \A x \in ms : x \in Installed => Produced(x, c) \/ x \in pending
    PROVE  /\ Installed' = Installed
           /\ \A x \in Installed : \A p : Fresh(x, p)' <=> Fresh(x, p) /\ ~(x \in ms /\ p = c)
           /\ Refs' = Refs /\ \A r \in Refs : At(r)'.state = "LEASED" => At(r)' = At(r)
  <1>1. /\ Refs' = Refs
        /\ \A q \in Refs :
             At(q)' = IF At(q).pass = c /\ At(q).name \in ms /\ At(q).state = "PRESENT"
                      THEN FreeSlot
                      ELSE IF At(q).pass = c /\ At(q).name \in ms /\ At(q).state = "FILLING"
                      THEN [At(q) EXCEPT !.release = TRUE]
                      ELSE At(q)
    BY SkipAllView
  <1>2. /\ UNCHANGED <<lists, cursors>> /\ Installed' = Installed
        /\ pendingSkips' = pendingSkips \union {<<c, m>> : m \in pending}
    BY DEF SkipAll, Installed
  <1>3. \A x, p : Produced(x, p)' <=> Produced(x, p)
    BY <1>2, ProducedKept
  <1>4. ASSUME NEW q \in Refs
        PROVE  \/ /\ At(q).pass = c /\ At(q).name \in ms
                  /\ ~Live(q)' /\ At(q)'.state # "LEASED"
               \/ /\ At(q)' = At(q)
                  /\ ~(At(q).pass = c /\ At(q).name \in ms /\ Live(q))
    <2>1. CASE At(q).pass = c /\ At(q).name \in ms /\ At(q).state = "PRESENT"
      <3>1. At(q)' = FreeSlot
        BY <1>1, <2>1
      <3>2. QED  BY <2>1, <3>1, SlotFields DEF Live
    <2>2. CASE At(q).pass = c /\ At(q).name \in ms /\ At(q).state = "FILLING"
      <3>1. PICK u \in Slot : u = At(q)
        BY SlotTyped DEF SlotsInv
      <3>2. PICK v : v = [u EXCEPT !.release = TRUE]
        OBVIOUS
      <3>3. At(q)' = v
        BY <1>1, <2>2, <3>1, <3>2
      <3>4. v.state = "FILLING" /\ v.release
        BY <2>2, <3>1, <3>2 DEF Slot
      <3>5. QED  BY <2>2, <3>3, <3>4 DEF Live
    <2>3. CASE ~(At(q).pass = c /\ At(q).name \in ms /\ At(q).state \in {"PRESENT", "FILLING"})
      <3>1. At(q)' = At(q)
        BY <1>1, <2>3
      <3>2. QED  BY <2>3, <3>1 DEF Live
    <2>4. QED  BY <2>1, <2>2, <2>3
  <1>5. ASSUME NEW x \in Installed, NEW p
        PROVE  Fresh(x, p)' <=> Fresh(x, p) /\ ~(x \in ms /\ p = c)
    <2>0. \A q \in Refs : /\ Key(q) = <<x, p>> <=> At(q).name = x /\ At(q).pass = p
                          /\ Key(q)' = <<x, p>> <=> At(q)'.name = x /\ At(q)'.pass = p
      BY SMTT(30) DEF Key
    <2>1. CASE x \in ms /\ p = c
      <3>1. Produced(x, p)' \/ <<p, x>> \in pendingSkips'
        BY <1>2, <1>3, <2>1
      <3>2. \A q \in Refs : ~(Live(q)' /\ Key(q)' = <<x, p>>)
        BY <1>4, <2>0, <2>1 DEF Live
      <3>3. QED  BY <1>1, <2>1, <3>1, <3>2 DEF Fresh
    <2>2. CASE ~(x \in ms /\ p = c)
      <3>1. <<p, x>> \in pendingSkips' <=> <<p, x>> \in pendingSkips
        BY <1>2, <2>2, SMTT(30)
      <3>2. ASSUME NEW q \in Refs
            PROVE  (Live(q)' /\ Key(q)' = <<x, p>>) <=> (Live(q) /\ Key(q) = <<x, p>>)
        <4>1. CASE At(q)' = At(q)
          BY <4>1 DEF Live, Key
        <4>2. CASE At(q).pass = c /\ At(q).name \in ms /\ ~Live(q)'
          BY <2>0, <2>2, <4>2
        <4>3. QED  BY <1>4, <4>1, <4>2
      <3>3. QED  BY <1>1, <1>3, <2>2, <3>1, <3>2 DEF Fresh
    <2>3. QED  BY <2>1, <2>2
  <1>6. QED  BY <1>1, <1>2, <1>4, <1>5

-----------------------------------------------------------------------------
(* The worker. *)

\* The passes a good worker holds are passes, and its own ones.
LEMMA HeldTyped ==
    ASSUME TableInv, PassesHeld
    PROVE  /\ current \notin {None, NoPass} => current \in Nat
           /\ carried # None => carried \in Nat /\ carried # NoPass
           /\ Ends => Ending \in Nat /\ Ending # NoPass
           /\ current \notin {None, NoPass} /\ ~Aborting =>
                /\ openPasses # <<>> /\ CurrentPass = current
                /\ carried # current
  <1>1. /\ current \notin {None, NoPass} => current \in Nat
        /\ carried # None => carried \in Nat /\ carried # NoPass
    BY DEF PassesHeld, NoPass
  <1>2. Ends => Ending \in Nat /\ Ending # NoPass
    BY <1>1 DEF PassesHeld, Ending
  <1>3. ASSUME current \notin {None, NoPass}, ~Aborting
        PROVE  openPasses # <<>> /\ CurrentPass = current /\ carried # current
    <2>1. CASE carried = None
      <3>1. openPasses = <<current>>
        BY <1>3, <2>1 DEF PassesHeld, HeldPasses
      <3>2. QED  BY <1>3, <2>1, <3>1, SMTT(30) DEF CurrentPass
    <2>2. CASE carried # None
      <3>1. openPasses = <<current, carried>>
        BY <1>3, <2>2 DEF PassesHeld, HeldPasses
      <3>2. Len(openPasses) = 2 /\ openPasses[1] = current /\ openPasses[2] = carried
            /\ Head(openPasses) = current /\ openPasses # <<>>
        BY <3>1, SMTT(30)
      <3>3. nextPass \in Nat /\ \A i \in 1..2 : openPasses[i] = nextPass - 2 + i - 1
        BY <3>2 DEF TableInv, ScheduleInv, ScheduleTyped, DequeConsecutive
      <3>4. openPasses[1] # openPasses[2]
        BY <3>3, SMTT(30)
      <3>5. QED  BY <3>2, <3>4 DEF CurrentPass
    <2>3. QED  BY <2>1, <2>2
  <1>4. QED  BY <1>1, <1>2, <1>3

\* What is fresh of the passes the worker holds after a step.
LEMMA FreshArgs ==
    ASSUME NEW p
    PROVE  /\ p = current' => FreshSet(current)' = FreshSet(p)'
           /\ p = carried' => FreshSet(carried)' = FreshSet(p)'
           /\ p = Ending' => FreshSet(Ending)' = FreshSet(p)'
  BY DEF FreshSet, Fresh, Produced

\* A step that keeps what is fresh keeps it of every pass.
LEMMA FreshSets ==
    ASSUME FreshKept
    PROVE  /\ \A p \in Nat : FreshSet(p)' = FreshSet(p)
           /\ UNCHANGED openPasses /\ CurrentPass' = CurrentPass
           /\ Refs' = Refs /\ Installed' = Installed
           /\ \A r \in Refs : At(r)'.state = "LEASED" => At(r)' = At(r)
  <1>1. \A p \in Nat : FreshSet(p)' = FreshSet(p)
    BY DEF FreshKept, FreshSet
  <1>2. QED  BY <1>1 DEF FreshKept, ProducedSlot, CurrentPass

\* So a worker that holds the same passes still has the same modules to go.
LEMMA FreshForward ==
    ASSUME TableInv, PassesHeld, ForwardFresh, FreshKept,
           UNCHANGED <<current, carried, owed>>,
           Forward' => Forward,
           wpc' = "get" => want' \in owed,
           carried # None /\ Closing => Closing',
           Ends' => Ends
    PROVE  ForwardFresh'
  <1>1. \A p \in Nat : FreshSet(p)' = FreshSet(p)
    BY FreshSets
  <1>2. Installed' = Installed /\ Ending' = Ending
    BY FreshSets DEF Ending
  <1>3. current \notin {None, NoPass} => FreshSet(current)' = FreshSet(current)
    BY <1>1, HeldTyped, FreshArgs
  <1>4. carried # None => FreshSet(carried)' = FreshSet(carried)
    BY <1>1, HeldTyped, FreshArgs
  <1>5. Ends => FreshSet(Ending)' = FreshSet(Ending)
    BY <1>1, <1>2, HeldTyped, FreshArgs
  <1>6. Forward => current # None
    BY DEF PassesHeld
  <1>7. QED  BY <1>2, <1>3, <1>4, <1>5, <1>6 DEF ForwardFresh

\* Leases stay where they were.
LEMMA LeasesStay ==
    ASSUME LeasesHeld, FreshKept,
           (wpc \in {"fwd", "get", "abort"} \/ Aborting) /\ openPasses # <<>> =>
             (wpc \in {"fwd", "get", "abort"} \/ Aborting)'
    PROVE  LeasesHeld'
  BY FreshSets DEF LeasesHeld

\* A drained pass stays drained.
LEMMA DrainedStays ==
    ASSUME TableInv, TableInv', PassesHeld, PassDrained, FreshKept, UNCHANGED Ending,
           wpc' \in {"check", "end"} => wpc \in {"check", "end"}
    PROVE  PassDrained'
  <1> SUFFICES ASSUME wpc \in {"check", "end"}, NEW p, p = Ending
               PROVE  /\ ProducerFinished(p)'
                      /\ \A r \in Refs' : At(r)'.name # None => At(r)'.pass # p
    BY DEF PassDrained, ProducerFinished
  <1>1. p \in Nat
    BY HeldTyped DEF Ends
  <1>2. \A t \in ModuleTypes : lists[t] # <<>> =>
             cursors[t].pass \in Nat /\ cursors[t].pass > p
    BY AdvancedCursor DEF PassDrained, ProducerFinished, TableInv
  <1>3. ProducerFinished(p)'
    <2> SUFFICES ASSUME NEW t \in ModuleTypes, lists[t] # <<>> PROVE cursors'[t].pass > p
      BY DEF ProducerFinished, FreshKept
    <2>1. cursors'[t].pass >= cursors[t].pass
      BY DEF FreshKept
    <2>2. cursors'[t].pass \in Nat
      BY DEF TableInv, ScheduleInv, ScheduleTyped
    <2>3. QED  BY <1>1, <1>2, <2>1, <2>2, SMTT(30)
  <1>4. ASSUME NEW r \in Refs, At(r)'.name # None PROVE At(r)'.pass # p
    <2>1. CASE At(r).name # None /\ At(r)'.pass = At(r).pass
      BY <2>1 DEF PassDrained
    <2>2. ASSUME NEW t \in ModuleTypes, lists[t] # <<>>, At(r)'.pass = cursors[t].pass
          PROVE  At(r)'.pass # p
      BY <1>1, <1>2, <2>2, SMTT(30)
    <2>3. QED  BY <1>4, <2>1, <2>2 DEF FreshKept, ProducedSlot
  <1>5. QED  BY <1>3, <1>4 DEF FreshKept

\* A step that leaves the table alone.
LEMMA SameKept ==
    ASSUME TableInv, UNCHANGED tableVars
    PROVE  FreshKept
  <1>1. UNCHANGED slots /\ UNCHANGED <<lists, cursors, pendingSkips, openPasses, nextPass>>
    BY DEF tableVars
  <1>2. QuietSlots
    BY <1>1, QuietSame
  <1>3. QED  BY <1>1, <1>2, QuietKept DEF TableInv

\* A step of another thread leaves the worker in order ...
LEMMA WorkerAside ==
    ASSUME TableInv, TableInv', WorkerGood, FreshKept, UNCHANGED workerVars
    PROVE  WorkerGood'
  <1>1. /\ UNCHANGED <<wpc, after, current, carried, owed, want>>
        /\ UNCHANGED openPasses /\ Installed' = Installed /\ UNCHANGED Ending
    BY FreshSets DEF workerVars, Ending
  <1>2. PassesHeld'
    BY <1>1 DEF WorkerGood, PassesHeld, HeldPasses, Aborting, Switching, Forward, Ends
  <1>3. ForwardFresh'
    BY <1>1, FreshForward DEF WorkerGood, ForwardFresh, Forward, Closing, Ends
  <1>4. LeasesHeld'
    BY <1>1, LeasesStay DEF WorkerGood, Aborting
  <1>5. PassDrained'
    BY <1>1, DrainedStays DEF WorkerGood
  <1>6. QED  BY <1>2, <1>3, <1>4, <1>5 DEF WorkerGood

\* ... and so does a helper that gives weights back.
LEMMA FreeKept ==
    ASSUME TableInv, FreeWeights \/ FreeWeightsAsync
    PROVE  FreshKept /\ UNCHANGED workerVars /\ UNCHANGED failed
  <1>1. QuietSlots /\ UNCHANGED <<lists, cursors, pendingSkips, openPasses, nextPass>>
    BY CallsQuiet DEF FreeWeights, FreeWeightsAsync, TableInv, Release, ReleaseAsync
  <1>2. FreshKept
    BY <1>1, QuietKept DEF TableInv
  <1>3. QED  BY <1>2 DEF FreeWeights, FreeWeightsAsync

\* Steps of the worker that only move on: no pass changes, no module is taken.
LEMMA WorkerMoves ==
    ASSUME TableInv, TableInv', ControlInv, WorkerGood, ~failed,
           EnterScope \/ WakeProducer \/ AskWeights \/ LeaveScope \/ SwitchPhase \/ CheckLeases
           \/ StopProducer \/ JoinProducer \/ InstallRefused
    PROVE  WorkerGood'
  <1>0. PassesHeld /\ ForwardFresh /\ LeasesHeld /\ PassDrained
    BY DEF WorkerGood
  <1>1. /\ UNCHANGED tableVars /\ UNCHANGED <<current, carried, owed>>
        /\ \/ wpc = "out" /\ wpc' \in {"in", "close"}
           \/ wpc = "wake" /\ wpc' = after
           \/ wpc = "fwd" /\ wpc' = "get" /\ want' \in owed
           \/ wpc = "in" /\ wpc' = "close"
           \/ wpc = "check" /\ wpc' = "end" /\ after' = after
           \/ wpc = "stop" /\ wpc' = "join" /\ after' = after
           \/ wpc = "join" /\ wpc' \in {"drop", "reset"}
              /\ (wpc' = "drop" <=> after = "abort")
           \/ wpc = "install" /\ wpc' = "out"
    BY DEF EnterScope, WakeProducer, AskWeights, LeaveScope, SwitchPhase, CheckLeases,
       StopProducer, JoinProducer, InstallRefused
  <1>2. FreshKept
    BY <1>1, SameKept
  <1>3. UNCHANGED openPasses /\ Installed' = Installed /\ UNCHANGED Ending
        /\ UNCHANGED HeldPasses
    BY <1>1, <1>2, FreshSets DEF Ending, HeldPasses
  <1>4. PassesHeld'
    BY <1>0, <1>1, <1>3 DEF PassesHeld, ControlInv, Aborting, Switching, Forward, Ends
  <1>5. ForwardFresh'
    <2>1. CASE carried = None
      BY <1>0, <1>1, <1>2, <2>1, FreshForward DEF ControlInv, Forward, Closing, Ends
    <2>2. CASE carried # None
      BY <1>0, <1>1, <1>2, <2>2, FreshForward DEF ControlInv, Forward, Closing, Ends,
         PassesHeld, Switching, Aborting
    <2>3. QED  BY <2>1, <2>2
  <1>6. LeasesHeld'
    BY <1>0, <1>1, <1>2, LeasesStay DEF ControlInv, Aborting, LeasesHeld, FreshKept, ProducedSlot
  <1>7. PassDrained'
    BY <1>0, <1>1, <1>2, <1>3, DrainedStays DEF ControlInv
  <1>8. QED  BY <1>4, <1>5, <1>6, <1>7 DEF WorkerGood

\* Outside a forward and its abort nothing is leased.
LEMMA NoLease ==
    ASSUME LeasesHeld, wpc \notin {"fwd", "get", "abort"}, ~Aborting
    PROVE  \A r \in Refs : At(r).state # "LEASED"
  BY DEF LeasesHeld

\* Nothing is leased after a step that leases nothing.
LEMMA StillNoLease ==
    ASSUME Refs' = Refs, \A r \in Refs : At(r).state # "LEASED",
           \A r \in Refs : At(r)'.state = "LEASED" => At(r)' = At(r)
    PROVE  LeasesHeld'
  BY DEF LeasesHeld

\* end() of a forward that consumed its modules.
LEMMA ForwardEnds ==
    ASSUME TableInv, RingInv, WorkerGood, EndForward
    PROVE  WorkerGood'
  \* end() finds every lease given back.
  <1>LeasesReturned. ASSUME TableInv, RingInv, LeasesHeld, \A m \in Modules : ~LeasedNow(m)
                     PROVE  \A r \in Refs : At(r).state # "LEASED"
    <2> USE <1>LeasesReturned
    <2> SUFFICES ASSUME NEW r \in Refs, At(r).state = "LEASED" PROVE FALSE
      OBVIOUS
    <2>1. SlotsTyped /\ IndexExact
      BY DEF TableInv, SlotsInv
    <2>2. openPasses # <<>> /\ At(r).pass = CurrentPass
      BY DEF LeasesHeld
    <2>3. Active(r) /\ At(r).name \in Modules
      BY <2>1, SlotTyped DEF RingInv, Active
    <2>4. Key(r) \in DOMAIN index /\ index[Key(r)] = r
      BY <2>1, <2>3, IndexActive
    <2>5. LeasedNow(At(r).name)
      BY <2>2, <2>4 DEF LeasedNow, Resident, SlotOf, Key
    <2>6. QED  BY <2>3, <2>5
  <1>0. PassesHeld /\ ForwardFresh /\ LeasesHeld /\ PassDrained
    BY DEF WorkerGood
  <1>1. /\ UNCHANGED tableVars /\ UNCHANGED <<carried, owed>>
        /\ wpc = "fwd" /\ owed = {} /\ \A m \in Modules : ~LeasedNow(m)
        /\ \/ current = NoPass /\ wpc' = "in" /\ current' = None
           \/ current # NoPass /\ wpc' = "drain" /\ after' = "in" /\ UNCHANGED current
    BY DEF EndForward
  <1>2. FreshKept
    BY <1>1, SameKept
  <1>3. /\ UNCHANGED openPasses /\ Installed' = Installed
        /\ current # None /\ ~Aborting /\ ~Aborting'
    BY <1>0, <1>1, <1>2, FreshSets DEF PassesHeld, Forward, Aborting
  <1>4. LeasesHeld'
    BY <1>0, <1>1, <1>2, <1>LeasesReturned, StillNoLease, FreshSets
  <1>5. PassDrained'
    BY <1>1 DEF PassDrained
  <1>6. CASE current = NoPass
    <2>1. carried = None /\ wpc' = "in" /\ current' = None /\ None # NoPass
      BY <1>0, <1>1, <1>6, NoneIsNoPass, SMTT(30) DEF PassesHeld, NoPass
    <2>2. PassesHeld'
      <3>1. HeldPasses = <<>> /\ HeldPasses' = <<>>
        BY <1>1, <1>6, <2>1 DEF HeldPasses
      <3>2. QED  BY <1>0, <1>1, <1>3, <1>6, <2>1, <3>1 DEF PassesHeld, Switching, Forward, Ends
    <2>3. ForwardFresh'
      BY <1>1, <2>1 DEF ForwardFresh, Forward, Ends
    <2>4. QED  BY <1>4, <1>5, <2>2, <2>3 DEF WorkerGood
  <1>7. CASE current # NoPass
    <2>1. wpc' = "drain" /\ after' = "in" /\ UNCHANGED current
      BY <1>1, <1>7
    <2>2. Ending = current /\ Ending' = current /\ UNCHANGED HeldPasses
      BY <1>1, <1>3, <2>1 DEF Ending, HeldPasses
    <2>3. PassesHeld'
      BY <1>0, <1>1, <1>3, <1>7, <2>1, <2>2 DEF PassesHeld, Switching, Forward, Ends
    <2>4. current \in Nat /\ (carried # None => carried \in Nat)
      BY <1>0, <1>3, <1>7, HeldTyped
    <2>5. FreshSet(current)' = {} /\ FreshSet(Ending)' = {}
      BY <1>0, <1>1, <1>2, <1>7, <2>1, <2>2, <2>4, FreshSets, FreshArgs
         DEF ForwardFresh, Forward
    <2>6. carried # None => FreshSet(carried)' = Installed'
      <3>1. carried # None => FreshSet(carried) = Installed
        BY <1>0, <1>1 DEF ForwardFresh, Closing, Ends
      <3>2. carried # None => FreshSet(carried)' = FreshSet(carried)
        BY <1>1, <1>2, <2>4, FreshSets, FreshArgs
      <3>3. QED  BY <1>3, <3>1, <3>2
    <2>7. ForwardFresh'
      BY <1>1, <1>7, <2>1, <2>5, <2>6 DEF ForwardFresh, Forward, Ends
    <2>8. QED  BY <1>4, <1>5, <2>3, <2>7 DEF WorkerGood
  <1>8. QED  BY <1>6, <1>7

\* An exception in a scope's body.
LEMMA WorkerUnwinds ==
    ASSUME TableInv, TableInv', ControlInv, WorkerGood, ~failed, ~closeFailed',
           EngineRaises \/ ForwardRaises
    PROVE  WorkerGood'
  <1>0. PassesHeld /\ ForwardFresh /\ LeasesHeld /\ PassDrained
    BY DEF WorkerGood
  <1>1. /\ UNCHANGED tableVars /\ UNCHANGED <<current, carried>> /\ owed' = {}
        /\ wpc' = "abort"
        /\ wpc \in {"fwd", "get", "close", "drain", "check", "end"}
        /\ ~(wpc \in {"close", "drain", "check", "end"} /\ after # "in")
    BY DEF EngineRaises, ForwardRaises, Unwind, Refused
  <1>2. FreshKept
    BY <1>1, SameKept
  <1>3. UNCHANGED openPasses /\ Installed' = Installed /\ UNCHANGED HeldPasses
        /\ ~Aborting /\ ~Aborting' /\ ~Closing
    BY <1>1, <1>2, FreshSets DEF HeldPasses, Aborting, Closing, Ends, ControlInv
  <1>4. PassesHeld'
    BY <1>0, <1>1, <1>3 DEF PassesHeld, Switching, Forward, Ends
  <1>5. carried # None => FreshSet(carried)' = Installed'
    <2>1. carried # None => FreshSet(carried) = Installed
      BY <1>0, <1>3 DEF ForwardFresh
    <2>2. carried # None => FreshSet(carried)' = FreshSet(carried)
      BY <1>0, <1>1, <1>2, HeldTyped, FreshSets, FreshArgs
    <2>3. QED  BY <1>3, <2>1, <2>2
  <1>6. ForwardFresh'
    BY <1>1, <1>5 DEF ForwardFresh, Forward, Ends
  <1>7. LeasesHeld'
    BY <1>0, <1>1, <1>2, LeasesStay
  <1>8. PassDrained'
    BY <1>1 DEF PassDrained
  <1>9. QED  BY <1>4, <1>6, <1>7, <1>8 DEF WorkerGood

\* _abort() forgets the passes.
LEMMA ScopeAborts ==
    ASSUME TableInv, WorkerGood, AbortScope
    PROVE  WorkerGood'
  <1>0. PassesHeld /\ ForwardFresh /\ LeasesHeld /\ PassDrained
    BY DEF WorkerGood
  <1>1. /\ UNCHANGED tableVars /\ current' = None /\ carried' = None
        /\ wpc = "abort" /\ None # NoPass
        /\ \/ {current, carried} \subseteq {None, NoPass} /\ wpc' = "out"
           \/ wpc' = "stop" /\ after' = "abort"
    BY NoneIsNoPass, SMTT(30) DEF AbortScope, NoPass
  <1>2. FreshKept
    BY <1>1, SameKept
  <1>3. UNCHANGED openPasses /\ ~Aborting
    BY <1>1, <1>2, FreshSets DEF Aborting
  <1>4. wpc' = "out" => openPasses = <<>>
    BY <1>0, <1>1, <1>3 DEF PassesHeld, HeldPasses, NoPass
  <1>5. wpc' = "stop" => Aborting'
    BY <1>1 DEF Aborting
  <1>6. PassesHeld'
    BY <1>1, <1>3, <1>4, <1>5 DEF PassesHeld, HeldPasses, Switching, Forward, Ends
  <1>7. ForwardFresh'
    BY <1>1 DEF ForwardFresh, Forward, Ends
  <1>8. LeasesHeld'
    BY <1>0, <1>1, <1>2, <1>4, <1>5, LeasesStay
  <1>9. PassDrained'
    BY <1>1 DEF PassDrained
  <1>10. QED  BY <1>6, <1>7, <1>8, <1>9 DEF WorkerGood

\* close() goes on when nothing is left to end, and cancels a pass otherwise.
LEMMA PassCloses ==
    ASSUME TableInv, ControlInv, WorkerGood, ClosePass
    PROVE  WorkerGood'
  <1>0. PassesHeld /\ ForwardFresh /\ LeasesHeld /\ PassDrained
    BY DEF WorkerGood
  <1>1. /\ UNCHANGED <<carried, owed, after>> /\ wpc = "close" /\ after \in {"out", "stop"}
        /\ ~Aborting
    BY DEF ClosePass, ControlInv, Aborting
  <1>2. \A r \in Refs : At(r).state # "LEASED"
    BY <1>0, <1>1, NoLease
  <1>3. None # NoPass
    BY NoneIsNoPass, SMTT(30) DEF NoPass
  <1>4. CASE Ending \in {None, NoPass}
    <2>1. wpc' = after /\ current' = None /\ UNCHANGED tableVars
      BY <1>4 DEF ClosePass
    <2>2. carried = None /\ current \in {None, NoPass}
      BY <1>0, <1>4 DEF PassesHeld, Ending, NoPass
    <2>3. FreshKept
      BY <2>1, SameKept
    <2>4. UNCHANGED openPasses /\ Installed' = Installed /\ ~Aborting'
      BY <1>1, <2>1, <2>3, FreshSets DEF Aborting
    <2>5. HeldPasses = <<>> /\ HeldPasses' = <<>>
      BY <1>1, <2>1, <2>2 DEF HeldPasses
    <2>6. PassesHeld'
      BY <1>0, <1>1, <1>3, <2>1, <2>2, <2>4, <2>5 DEF PassesHeld, Switching, Forward, Ends
    <2>7. ForwardFresh'
      BY <1>1, <1>3, <2>1, <2>2 DEF ForwardFresh, Forward, Ends
    <2>8. LeasesHeld'
      BY <1>2, <2>3, StillNoLease, FreshSets
    <2>9. PassDrained'
      BY <1>1, <2>1 DEF PassDrained
    <2>10. QED  BY <2>6, <2>7, <2>8, <2>9 DEF WorkerGood
  <1>5. CASE Ending \notin {None, NoPass}
    <2>1. PICK p : p = Ending
      OBVIOUS
    <2>2. CancelPass(p) /\ wpc' = "drain" /\ UNCHANGED current
      BY <1>5, <2>1 DEF ClosePass
    <2>3. /\ SkipAll(p, Modules, {m \in Installed : ~Produced(m, p)})
          /\ UNCHANGED openPasses /\ Installed \subseteq Modules
      BY <2>2, InstalledTyped DEF CancelPass, SkipAll, TableInv, ScheduleInv
    <2>4. /\ Installed' = Installed
          /\ \A x \in Installed : \A q : Fresh(x, q)' <=> Fresh(x, q) /\ ~(x \in Modules /\ q = p)
          /\ Refs' = Refs /\ \A r \in Refs : At(r)'.state = "LEASED" => At(r)' = At(r)
      <3>1. PICK pending \in SUBSET Modules : pending = {m \in Installed : ~Produced(m, p)}
        BY <2>3
      <3>2. \A x \in Modules : x \in Installed => Produced(x, p) \/ x \in pending
        BY <3>1
      <3>3. SkipAll(p, Modules, pending)
        BY <2>3, <3>1
      <3>4. QED  BY <3>2, <3>3, SkipAllFresh DEF TableInv
    <2>5. Ending' = p /\ UNCHANGED HeldPasses /\ ~Aborting'
      BY <1>1, <2>1, <2>2 DEF Ending, HeldPasses, Aborting
    <2>6. PassesHeld'
      BY <1>0, <1>1, <1>5, <2>1, <2>2, <2>3, <2>4, <2>5
         DEF PassesHeld, Switching, Forward, Ends
    <2>7. FreshSet(Ending)' = {}
      <3>1. FreshSet(p)' = {}
        BY <2>3, <2>4 DEF FreshSet
      <3>2. QED  BY <2>5, <3>1, FreshArgs
    <2>8. ForwardFresh'
      BY <1>0, <1>1, <2>2, <2>7 DEF ForwardFresh, Forward, Ends, Closing
    <2>9. LeasesHeld'
      BY <1>2, <2>4, StillNoLease
    <2>10. PassDrained'
      BY <2>2 DEF PassDrained
    <2>11. QED  BY <2>6, <2>8, <2>9, <2>10 DEF WorkerGood
  <1>6. QED  BY <1>4, <1>5

\* wait_pass_drained(): then the ring holds nothing of the pass.
LEMMA PassDrains ==
    ASSUME TableInv, TableInv', ReleaseInv, RingInv, WorkerGood, DrainPass
    PROVE  WorkerGood'
  <1>0. /\ PassesHeld /\ ForwardFresh /\ LeasesHeld /\ PassDrained
        /\ SlotsInv /\ SlotsTyped /\ NamedBehindCursor /\ ScheduleInv /\ CursorsInside
    BY DEF WorkerGood, TableInv, SlotsInv, ScheduleInv
  <1> DEFINE G == UNION {e.refs : e \in releases}
  <1>1. /\ UNCHANGED <<current, carried, owed, after>> /\ wpc = "drain" /\ wpc' = "check"
        /\ Reclaim(G) /\ Drained(Ending)
    BY DEF DrainPass
  <1>2. G \in SUBSET Refs /\ \A r \in Refs : At(r).state = "PENDING_RELEASE" => r \in G
    BY SMTT(30) DEF ReleaseInv
  <1> HIDE DEF G
  <1>3. QuietSlots /\ UNCHANGED <<lists, cursors, pendingSkips, openPasses, nextPass>>
    <2>1. QuietSlots
      BY <1>0, <1>1, <1>2, CallsQuiet
    <2>2. QED  BY <1>1, <2>1 DEF Reclaim
  <1>4. FreshKept
    BY <1>0, <1>3, QuietKept
  <1>5. /\ Refs' = Refs
        /\ \A q \in Refs : At(q)' = IF q \in G THEN FreeSlot ELSE At(q)
    BY <1>1, ReclaimView DEF Reclaim
  <1>6. /\ UNCHANGED openPasses /\ Installed' = Installed /\ UNCHANGED Ending
        /\ UNCHANGED HeldPasses /\ ~Aborting /\ ~Aborting'
    BY <1>1, <1>4, FreshSets DEF Ending, HeldPasses, Aborting
  <1>7. PassesHeld'
    BY <1>0, <1>1, <1>6 DEF PassesHeld, Switching, Forward, Ends
  <1>8. ForwardFresh'
    BY <1>0, <1>1, <1>4, FreshForward DEF Forward, Closing, Ends
  <1>9. \A r \in Refs : At(r).state # "LEASED"
    BY <1>0, <1>1, <1>6, NoLease
  <1>10. LeasesHeld'
    BY <1>4, <1>9, StillNoLease, FreshSets
  <1>11. PICK p : p = Ending
    OBVIOUS
  <1>12. ASSUME NEW r \in Refs, At(r)'.name # None PROVE At(r)'.pass # p
    <2> SUFFICES ASSUME At(r)'.pass = p PROVE FALSE
      OBVIOUS
    <2>1. r \notin G /\ At(r)' = At(r)
      BY <1>5, <1>12, SlotFields
    <2>2. At(r).name # None /\ At(r).pass = p
      BY <1>12, <2>1
    <2>3. At(r).state = "PRESENT"
      <3>1. At(r).state \in SlotStates
        BY <1>0, SlotTyped DEF Slot
      <3>2. At(r).state # "FREE"
        BY <1>0, <2>2, FreeRefs DEF SlotsInv
      <3>3. At(r).state # "FILLING"
        BY <1>1, <1>11, <2>2 DEF Drained
      <3>4. At(r).state # "PENDING_RELEASE"
        BY <1>2, <2>1
      <3>5. QED  BY <1>9, <3>1, <3>2, <3>3, <3>4 DEF SlotStates
    <2>4. PICK x : x = At(r).name
      OBVIOUS
    <2>5. Fresh(x, p)
      BY <2>2, <2>3, <2>4 DEF Fresh, Live, Key
    <2>6. x \in Installed
      <3>1. r[1] \in ModuleTypes /\ x \in Range(lists[r[1]])
        BY <1>0, <2>2, <2>4, RefPairs DEF NamedBehindCursor
      <3>2. QED  BY <3>1 DEF Installed
    <2>7. FreshSet(p) = {}
      BY <1>0, <1>1, <1>11 DEF ForwardFresh, Ends
    <2>8. QED  BY <2>5, <2>6, <2>7 DEF FreshSet
  <1>13. ProducerFinished(p)'
    BY <1>1, <1>3, <1>11 DEF Drained, ProducerFinished
  <1>14. PassDrained'
    BY <1>5, <1>6, <1>11, <1>12, <1>13 DEF PassDrained, ProducerFinished
  <1>15. QED  BY <1>7, <1>8, <1>10, <1>14 DEF WorkerGood

\* end_pass(): the oldest pass is forgotten.
LEMMA PassFinishes ==
    ASSUME TableInv, ControlInv, WorkerGood, FinishPass
    PROVE  WorkerGood'
  <1>0. PassesHeld /\ ForwardFresh /\ LeasesHeld /\ PassDrained
    BY DEF WorkerGood
  <1>1. /\ UNCHANGED <<owed, after>> /\ wpc = "end" /\ after \in {"in", "out", "stop"}
        /\ wpc' = IF after = "in" THEN "in" ELSE "close"
        /\ \/ current # None /\ current' = None /\ UNCHANGED carried
           \/ current = None /\ carried' = None /\ UNCHANGED current
        /\ openPasses' = Tail(openPasses)
        /\ UNCHANGED <<lists, cursors, pendingSkips>> /\ UNCHANGED slots
        /\ ~Aborting /\ ~Aborting' /\ None # NoPass
    <2>1. None # NoPass
      BY NoneIsNoPass, SMTT(30) DEF NoPass
    <2>2. QED  BY <2>1 DEF FinishPass, EndPass, ControlInv, Ends, Aborting
  <1>2. Installed' = Installed /\ \A m, p : Fresh(m, p)' <=> Fresh(m, p)
    BY <1>1, QuietSame, QuietStep
  <1>3. Ending \notin {None, NoPass} /\ (after = "in" => current # None)
    BY <1>0, <1>1 DEF PassesHeld, Ends
  <1>4. openPasses' = HeldPasses'
    <2>0. openPasses = HeldPasses
      BY <1>0, <1>1 DEF PassesHeld
    <2>1. CASE current # None
      <3>1. current \notin {None, NoPass} /\ current' = None /\ carried' = carried
        BY <1>1, <1>3, <2>1 DEF Ending
      <3>2. CASE carried = None
        <4>1. openPasses = <<current>> /\ HeldPasses' = <<>>
          BY <2>0, <3>1, <3>2 DEF HeldPasses
        <4>2. QED  BY <1>1, <4>1, SMTT(30)
      <3>3. CASE carried # None
        <4>1. openPasses = <<current, carried>> /\ HeldPasses' = <<carried>>
          BY <2>0, <3>1, <3>3 DEF HeldPasses
        <4>2. QED  BY <1>1, <4>1, SMTT(30)
      <3>4. QED  BY <3>2, <3>3
    <2>2. CASE current = None
      <3>1. carried # None /\ current' = None /\ carried' = None
        BY <1>1, <1>3, <2>2 DEF Ending
      <3>2. openPasses = <<carried>> /\ HeldPasses' = <<>>
        BY <2>0, <2>2, <3>1 DEF HeldPasses
      <3>3. QED  BY <1>1, <3>2, SMTT(30)
    <2>3. QED  BY <2>1, <2>2
  <1>5. PassesHeld'
    BY <1>0, <1>1, <1>2, <1>3, <1>4 DEF PassesHeld, Switching, Forward, Ends
  <1>6. ForwardFresh'
    <2>1. ASSUME carried' # None, ~Closing' PROVE FreshSet(carried)' = Installed'
      <3>1. after = "in" /\ carried' = carried /\ carried # None
        BY <1>1, <1>3, <2>1 DEF Closing
      <3>2. FreshSet(carried) = Installed
        BY <1>0, <1>1, <3>1 DEF ForwardFresh, Closing, Ends
      <3>3. PICK p : p = carried
        OBVIOUS
      <3>4. FreshSet(p)' = FreshSet(p)
        BY <1>2 DEF FreshSet
      <3>5. QED  BY <1>2, <3>1, <3>2, <3>3, <3>4, FreshArgs
    <2>2. wpc' \in {"in", "close"} /\ current' = None
      BY <1>1
    <2>3. QED  BY <1>1, <2>1, <2>2 DEF ForwardFresh, Forward, Ends
  <1>7. LeasesHeld'
    BY <1>0, <1>1, NoLease, StillNoLease, SameSlots
  <1>8. PassDrained'
    BY <1>1 DEF PassDrained
  <1>9. QED  BY <1>5, <1>6, <1>7, <1>8 DEF WorkerGood

\* begin_pass(): all of the new pass is fresh, and the others stay as they are.
LEMMA PassBegins ==
    ASSUME TableInv, AccountInv, BeginPass, NEW n, n = nextPass
    PROVE  /\ n \in Nat \ {0} /\ openPasses' = Append(openPasses, n)
           /\ Installed' = Installed /\ FreshSet(n)' = Installed
           /\ \A p : FreshSet(p)' = FreshSet(p)
           /\ Refs' = Refs /\ \A r \in Refs : At(r)' = At(r)
  \* Nothing of the next pass is leased or skipped.
  <1>NextFresh. ASSUME TableInv, AccountInv, NEW m \in Installed
                PROVE  Fresh(m, nextPass)
    <2> USE <1>NextFresh
    <2> DEFINE t == TypeOf(m)
    <2>0. ScheduleInv /\ CursorsInside
      BY DEF TableInv, ScheduleInv
    <2>1. t \in ModuleTypes /\ PositionOf(m) \in DOMAIN lists[t] /\ lists[t][PositionOf(m)] = m
      BY <2>0, Located
    <2>2. lists[t] # <<>> /\ PositionOf(m) \in Nat /\ PositionOf(m) >= 1
      BY <2>0, <2>1, SMTT(30) DEF ScheduleInv, ScheduleTyped
    <2>3. cursors[t].pass \in Open \union {nextPass}
      BY <2>0, <2>1, <2>2 DEF ScheduleInv, PassesConsecutive
    <2>4. /\ Open = (nextPass - Len(openPasses))..(nextPass - 1)
          /\ nextPass \in Nat /\ Len(openPasses) \in Nat /\ cursors[t].pass \in Nat
      BY <2>0, <2>1, OpenInterval, SMTT(30) DEF ScheduleInv, ScheduleTyped
    <2>5. cursors[t].pass = nextPass => cursors[t].position = 1
      BY <2>1, <2>2 DEF AccountInv
    <2>6. ~Produced(m, nextPass)
      <3> HIDE DEF t
      <3>1. Produced(m, nextPass) <=>
                \/ cursors[t].pass > nextPass
                \/ cursors[t].pass = nextPass /\ cursors[t].position > PositionOf(m)
        BY DEF Produced, t
      <3>2. QED  BY <2>2, <2>3, <2>4, <2>5, <3>1, SMTT(30)
    <2>7. <<nextPass, m>> \notin pendingSkips
      <3>1. nextPass \notin Open
        BY <2>4, SMTT(30)
      <3>2. QED  BY <2>0, <3>1 DEF ScheduleInv, SkipsAhead
    <2>8. QED  BY <2>6, <2>7 DEF Fresh
  <1>1. /\ UNCHANGED <<lists, cursors, pendingSkips>> /\ UNCHANGED slots
        /\ openPasses' = Append(openPasses, n)
    BY DEF BeginPass
  <1>2. Installed' = Installed /\ \A m, p : Fresh(m, p)' <=> Fresh(m, p)
    BY <1>1, QuietSame, QuietStep
  <1>3. \A p : FreshSet(p)' = FreshSet(p)
    BY <1>2 DEF FreshSet
  <1>4. FreshSet(n) = Installed
    BY <1>NextFresh DEF FreshSet
  <1>5. n \in Nat \ {0}
    BY SMTT(30) DEF TableInv, ScheduleInv, ScheduleTyped, DequeConsecutive
  <1>6. QED  BY <1>1, <1>2, <1>3, <1>4, <1>5, SameSlots

\* begin(): the forward gets the carried pass, or a new one.
LEMMA WorkerBegins ==
    ASSUME TableInv, AccountInv, WorkerGood, Begin
    PROVE  WorkerGood'
  <1>0. PassesHeld /\ ForwardFresh /\ LeasesHeld /\ PassDrained
    BY DEF WorkerGood
  <1>1. /\ wpc = "in" /\ current = None /\ owed' = Installed
        /\ wpc' \in {"begun", "wake"} /\ ~Aborting /\ ~Aborting' /\ None # NoPass
    <2>1. None # NoPass
      BY NoneIsNoPass, SMTT(30) DEF NoPass
    <2>2. QED  BY <2>1 DEF Begin, Aborting
  <1>2. \A r \in Refs : At(r).state # "LEASED"
    BY <1>0, <1>1, NoLease
  <1>3. PassDrained'
    BY <1>1 DEF PassDrained
  <1>4. CASE carried # None
    <2>1. current' = carried /\ carried' = None /\ wpc' = "begun" /\ UNCHANGED tableVars
      BY <1>4 DEF Begin
    <2>2. FreshKept
      BY <2>1, SameKept
    <2>3. LeasesHeld'
      BY <1>2, <2>2, StillNoLease, FreshSets
    <2>4. carried \in Nat /\ carried # NoPass
      BY <1>0, <1>4, HeldTyped
    <2>5. HeldPasses = <<carried>> /\ HeldPasses' = <<carried>>
      BY <1>1, <1>4, <2>1, <2>4 DEF HeldPasses
    <2>6. PassesHeld'
      BY <1>0, <1>1, <1>4, <2>1, <2>2, <2>4, <2>5, FreshSets
         DEF PassesHeld, Switching, Forward, Ends
    <2>7. FreshSet(current)' = Installed
      <3>1. FreshSet(carried) = Installed
        BY <1>0, <1>1, <1>4 DEF ForwardFresh, Closing, Ends
      <3>2. PICK p : p = carried
        OBVIOUS
      <3>3. FreshSet(p)' = FreshSet(p)
        BY <2>2, <2>4, <3>2, FreshSets
      <3>4. QED  BY <2>1, <3>1, <3>2, <3>3, FreshArgs
    <2>8. ForwardFresh'
      BY <1>1, <2>1, <2>4, <2>7 DEF ForwardFresh, Ends
    <2>9. QED  BY <1>3, <2>3, <2>6, <2>8 DEF WorkerGood
  <1>5. CASE carried = None /\ BeginPass /\ current' = nextPass /\ wpc' = "wake" /\ UNCHANGED carried
    <2>1. PICK n : n = nextPass
      OBVIOUS
    <2>2. /\ n \in Nat \ {0} /\ openPasses' = Append(openPasses, n)
          /\ Installed' = Installed /\ FreshSet(n)' = Installed
          /\ Refs' = Refs /\ \A r \in Refs : At(r)' = At(r)
      BY <1>5, <2>1, PassBegins
    <2>3. LeasesHeld'
      BY <1>2, <2>2, StillNoLease
    <2>4. openPasses = <<>>
      BY <1>0, <1>1, <1>5 DEF PassesHeld, HeldPasses
    <2>5. n # None /\ n # NoPass
      BY <2>2, NoneIsNoPass DEF NoPass
    <2>6. openPasses' = HeldPasses'
      <3>1. HeldPasses' = <<n>>
        BY <1>5, <2>1, <2>5 DEF HeldPasses
      <3>2. QED  BY <2>2, <2>4, <3>1, SMTT(30)
    <2>7. PassesHeld'
      BY <1>1, <1>5, <2>1, <2>2, <2>5, <2>6 DEF PassesHeld, Switching, Forward, Ends
    <2>8. FreshSet(current)' = Installed
      BY <1>5, <2>1, <2>2, FreshArgs
    <2>9. ForwardFresh'
      BY <1>1, <1>5, <2>1, <2>2, <2>5, <2>8 DEF ForwardFresh, Ends
    <2>10. QED  BY <1>3, <2>3, <2>7, <2>9 DEF WorkerGood
  <1>6. CASE carried = None /\ Installed = {} /\ current' = NoPass /\ wpc' = "begun"
             /\ UNCHANGED tableVars /\ UNCHANGED carried
    <2>1. FreshKept
      BY <1>6, SameKept
    <2>2. LeasesHeld'
      BY <1>2, <2>1, StillNoLease, FreshSets
    <2>3. HeldPasses = <<>> /\ HeldPasses' = <<>>
      BY <1>1, <1>6 DEF HeldPasses
    <2>4. PassesHeld'
      BY <1>0, <1>1, <1>6, <2>1, <2>3, FreshSets DEF PassesHeld, Switching, Forward, Ends
    <2>5. ForwardFresh'
      BY <1>1, <1>6 DEF ForwardFresh, Ends
    <2>6. QED  BY <1>3, <2>2, <2>4, <2>5 DEF WorkerGood
  <1>7. QED  BY <1>4, <1>5, <1>6 DEF Begin

\* begin(carry=True): the next pass is armed behind the current one.
LEMMA WorkerCarries ==
    ASSUME TableInv, AccountInv, WorkerGood, Carry
    PROVE  WorkerGood'
  <1>0. PassesHeld /\ ForwardFresh /\ LeasesHeld /\ PassDrained
    BY DEF WorkerGood
  <1>1. /\ wpc = "begun" /\ current # None /\ carried = None /\ UNCHANGED <<current, owed>>
        /\ wpc' \in {"wake", "fwd"} /\ ~Aborting /\ ~Aborting'
    BY <1>0 DEF Carry, PassesHeld, Forward, Aborting
  <1>2. \A r \in Refs : At(r).state # "LEASED"
    BY <1>0, <1>1, NoLease
  <1>3. PassDrained'
    BY <1>1 DEF PassDrained
  <1>4. CASE current # NoPass /\ BeginPass /\ carried' = nextPass /\ wpc' = "wake" /\ after' = "fwd"
    <2>1. PICK n, c : n = nextPass /\ c = current
      OBVIOUS
    <2>2. /\ n \in Nat \ {0} /\ openPasses' = Append(openPasses, n)
          /\ Installed' = Installed /\ FreshSet(n)' = Installed
          /\ FreshSet(c)' = FreshSet(c)
          /\ Refs' = Refs /\ \A r \in Refs : At(r)' = At(r)
      BY <1>4, <2>1, PassBegins
    <2>3. LeasesHeld'
      BY <1>2, <2>2, StillNoLease
    <2>4. openPasses = <<c>>
      BY <1>0, <1>1, <1>4, <2>1 DEF PassesHeld, HeldPasses
    <2>5. n # None /\ n # NoPass
      BY <2>2, NoneIsNoPass DEF NoPass
    <2>6. openPasses' = HeldPasses'
      <3>1. HeldPasses' = <<c, n>>
        BY <1>1, <1>4, <2>1, <2>5 DEF HeldPasses
      <3>2. Append(<<c>>, n) = <<c, n>>
        <4>1. c \in Nat /\ n \in Nat
          BY <1>0, <1>1, <1>4, <2>1, <2>2, HeldTyped
        <4>2. Append(<<c>>, n) = [i \in 1..2 |-> IF i = 1 THEN c ELSE n]
          BY ONLY <4>1, SMTT(30)
        <4>3. <<c, n>> = [i \in 1..2 |-> IF i = 1 THEN c ELSE n]
          BY ONLY <4>1, SMTT(30)
        <4>4. QED  BY <4>2, <4>3
      <3>3. QED  BY <2>2, <2>4, <3>1, <3>2
    <2>7. PassesHeld'
      BY <1>0, <1>1, <1>4, <2>1, <2>2, <2>5, <2>6 DEF PassesHeld, Switching, Forward, Ends
    <2>8. FreshSet(current)' = owed /\ FreshSet(carried)' = Installed
      <3>1. FreshSet(c) = owed
        BY <1>0, <1>1, <1>4, <2>1 DEF ForwardFresh, Forward
      <3>2. QED  BY <1>1, <1>4, <2>1, <2>2, <3>1, FreshArgs
    <2>9. ForwardFresh'
      BY <1>1, <1>4, <2>2, <2>8 DEF ForwardFresh, Ends
    <2>10. QED  BY <1>3, <2>3, <2>7, <2>9 DEF WorkerGood
  <1>5. CASE wpc' = "fwd" /\ UNCHANGED tableVars /\ UNCHANGED carried
    <2>1. FreshKept
      BY <1>5, SameKept
    <2>2. LeasesHeld'
      BY <1>2, <2>1, StillNoLease, FreshSets
    <2>3. UNCHANGED HeldPasses /\ Installed' = Installed /\ UNCHANGED openPasses
      BY <1>1, <1>5, <2>1, FreshSets DEF HeldPasses
    <2>4. PassesHeld'
      BY <1>0, <1>1, <1>5, <2>3 DEF PassesHeld, Switching, Forward, Ends
    <2>5. ForwardFresh'
      BY <1>0, <1>1, <1>5, <2>1, FreshForward DEF Forward, Ends
    <2>6. QED  BY <1>3, <2>2, <2>4, <2>5 DEF WorkerGood
  <1>6. QED  BY <1>4, <1>5 DEF Carry

\* get_weights() and skip_weight_modules().
LEMMA WorkerTakes ==
    ASSUME TableInv, WorkerGood, GetWeights \/ SkipWeights
    PROVE  WorkerGood'
  \* lease() takes its module of the current pass, and no other.
  <1>LeaseFresh. ASSUME TableInv, NEW m, Lease(m), NEW c, c = CurrentPass
                 PROVE  /\ ~Fresh(m, c)' /\ Installed' = Installed
                        /\ \A x, p : x # m \/ p # c => (Fresh(x, p)' <=> Fresh(x, p))
                        /\ Refs' = Refs /\ openPasses # <<>>
                        /\ \A q \in Refs : At(q)'.state = "LEASED" =>
                             At(q)'.pass = c \/ At(q)' = At(q)
    <2> USE <1>LeaseFresh
    <2>0. SlotsInv /\ NamedBehindCursor
      BY DEF TableInv, SlotsInv
    <2>1. PICK r \in Refs :
                 /\ At(r).state = "PRESENT" /\ Active(r) /\ Key(r) = <<m, c>>
                 /\ Refs' = Refs
                 /\ At(r)' = [At(r) EXCEPT !.state = "LEASED"]
                 /\ \A q \in Refs : q # r => At(q)' = At(q)
      BY <2>0, LeaseView
    <2>2. /\ UNCHANGED <<pendingSkips, lists, cursors>> /\ Installed' = Installed
          /\ openPasses # <<>>
      BY DEF Lease, Installed, CheckLease
    <2>3. \A x, p : Produced(x, p)' <=> Produced(x, p)
      BY <2>2, ProducedKept
    <2>4. At(r)'.state = "LEASED" /\ At(r)'.pass = c /\ At(r).name = m /\ At(r).pass = c
      <3>1. PICK u \in Slot : u = At(r)
        BY <2>0, SlotTyped DEF SlotsInv
      <3>2. [u EXCEPT !.state = "LEASED"].state = "LEASED"
            /\ [u EXCEPT !.state = "LEASED"].pass = u.pass
        BY DEF Slot
      <3>3. u.name = m /\ u.pass = c
        BY <2>1, <3>1 DEF Key
      <3>4. QED  BY <2>1, <3>1, <3>2, <3>3
    <2>5. Produced(m, c)
      BY <2>0, <2>1, <2>4 DEF NamedBehindCursor, Active
    <2>6. ASSUME NEW q \in Refs, NEW k
          PROVE  (Live(q)' /\ Key(q)' = k) <=> (Live(q) /\ Key(q) = k /\ k # <<m, c>>)
      <3>1. CASE q = r
        <4>1. At(q)' = At(r)' /\ Key(q) = Key(r)
          BY <3>1 DEF At
        <4>2. ~Live(q)'
          BY <2>4, <4>1 DEF Live
        <4>3. QED  BY <2>1, <4>1, <4>2
      <3>2. CASE q # r
        <4>1. At(q)' = At(q)
          BY <2>1, <3>2
        <4>2. (Live(q)' <=> Live(q)) /\ Key(q)' = Key(q)
          BY <4>1 DEF Live, Key
        <4>3. Live(q) => Active(q)
          BY DEF Live, Active
        <4>4. Live(q) => Key(q) # <<m, c>>
          BY <2>0, <2>1, <3>2, <4>3, KeysDiffer
        <4>5. QED  BY <4>2, <4>4
      <3>3. QED  BY <3>1, <3>2
    <2>7. ~Fresh(m, c)'
      BY <2>1, <2>3, <2>5, <2>6 DEF Fresh
    <2>8. ASSUME NEW x, NEW p, x # m \/ p # c PROVE Fresh(x, p)' <=> Fresh(x, p)
      <3>1. <<x, p>> # <<m, c>>
        BY <2>8, SMTT(30)
      <3>2. QED  BY <2>1, <2>2, <2>3, <2>6, <3>1 DEF Fresh
    <2>9. ASSUME NEW q \in Refs, At(q)'.state = "LEASED"
          PROVE  At(q)'.pass = c \/ At(q)' = At(q)
      BY <2>1, <2>4, <2>9
    <2>10. QED  BY <2>1, <2>2, <2>7, <2>8, <2>9
  \* A call of the forward that takes the modules ms of its pass, and those only.
  <1>ForwardTakes. ASSUME TableInv, PassesHeld, ForwardFresh, wpc \in {"fwd", "get"},
                          NEW ms \in SUBSET owed, ms # {}, NEW c, c = CurrentPass,
                          UNCHANGED <<current, carried>>, owed' = owed \ ms, wpc' = "fwd",
                          UNCHANGED openPasses, Installed' = Installed,
                          \A x \in Installed : \A p : Fresh(x, p)' <=> Fresh(x, p) /\ ~(x \in ms /\ p = c)
                   PROVE  PassesHeld' /\ ForwardFresh'
    <2> USE <1>ForwardTakes
    <2>1. current \notin {None, NoPass} /\ ~Aborting /\ ~Aborting'
      BY DEF PassesHeld, ForwardFresh, Forward, Aborting
    <2>2. c = current /\ carried # c
      BY <2>1, HeldTyped
    <2>3. PassesHeld'
      BY <2>1 DEF PassesHeld, HeldPasses, Switching, Forward, Ends
    <2>4. FreshSet(current)' = owed \ ms
      <3>1. FreshSet(c) = owed
        BY <2>1, <2>2 DEF ForwardFresh, Forward
      <3>2. FreshSet(c)' = FreshSet(c) \ ms
        BY DEF FreshSet
      <3>3. QED  BY <2>2, <3>1, <3>2, FreshArgs
    <2>5. carried # None => FreshSet(carried)' = Installed'
      <3>1. PICK p : p = carried
        OBVIOUS
      <3>2. FreshSet(p)' = FreshSet(p)
        BY <2>2, <3>1 DEF FreshSet
      <3>3. carried # None => FreshSet(p) = Installed
        BY <3>1 DEF ForwardFresh, Closing, Ends
      <3>4. QED  BY <3>1, <3>2, <3>3, FreshArgs
    <2>6. ForwardFresh'
      BY <2>1, <2>4, <2>5 DEF ForwardFresh, Ends
    <2>7. QED  BY <2>3, <2>6
  <1>0. PassesHeld /\ ForwardFresh /\ LeasesHeld /\ PassDrained /\ SlotsInv
    BY DEF WorkerGood, TableInv
  <1>1. PICK c : c = CurrentPass
    OBVIOUS
  <1>2. CASE GetWeights
    <2>1. /\ wpc = "get" /\ Lease(want) /\ owed' = owed \ {want} /\ wpc' = "fwd"
          /\ UNCHANGED <<current, carried>> /\ UNCHANGED openPasses
      BY <1>2 DEF GetWeights, Lease
    <2>2. want \in owed
      BY <1>0, <2>1 DEF ForwardFresh
    <2>3. PICK m : m = want
      OBVIOUS
    <2>4. /\ ~Fresh(m, c)' /\ Installed' = Installed
          /\ \A x, p : x # m \/ p # c => (Fresh(x, p)' <=> Fresh(x, p))
          /\ Refs' = Refs /\ openPasses # <<>>
          /\ \A q \in Refs : At(q)'.state = "LEASED" => At(q)'.pass = c \/ At(q)' = At(q)
      BY <1>1, <2>1, <2>3, <1>LeaseFresh
    <2>5. \A x \in Installed : \A p : Fresh(x, p)' <=> Fresh(x, p) /\ ~(x \in {m} /\ p = c)
      BY <2>4
    <2>6. PassesHeld' /\ ForwardFresh'
      <3>1. {m} \in SUBSET owed /\ {m} # {} /\ owed' = owed \ {m}
        BY <2>1, <2>2, <2>3
      <3>2. QED  BY <1>0, <1>1, <2>1, <2>4, <2>5, <3>1, <1>ForwardTakes
    <2>7. LeasesHeld'
      <3>1. CurrentPass' = c
        BY <1>1, <2>1 DEF CurrentPass
      <3>2. QED  BY <1>0, <1>1, <2>1, <2>4, <3>1 DEF LeasesHeld
    <2>8. PassDrained'
      BY <2>1 DEF PassDrained
    <2>9. QED  BY <2>6, <2>7, <2>8 DEF WorkerGood
  <1>3. CASE SkipWeights
    <2>1. PICK ms \in SUBSET owed : ms # {} /\ SkipModules(ms) /\ owed' = owed \ ms
      BY <1>3 DEF SkipWeights
    <2>2. /\ wpc = "fwd" /\ wpc' = "fwd" /\ UNCHANGED <<current, carried>>
          /\ SkipAll(c, ms, {m \in ms : ~Resident(m)}) /\ UNCHANGED openPasses
      <3>1. SkipAll(c, ms, {m \in ms : ~Resident(m)})
        BY <1>1, <2>1 DEF SkipModules
      <3>2. UNCHANGED openPasses
        BY <3>1 DEF SkipAll
      <3>3. QED  BY <1>3, <3>1, <3>2 DEF SkipWeights
    <2>3. \A x \in ms : Resident(x) => Produced(x, c)
      <3> SUFFICES ASSUME NEW x \in ms, Resident(x) PROVE Produced(x, c)
        OBVIOUS
      <3>1. PICK r \in Refs : Active(r) /\ Key(r) = <<x, c>>
        BY <1>0, <1>1, ResidentSlot
      <3>2. At(r).name = x /\ At(r).pass = c /\ At(r).name # None
        BY <3>1 DEF Key, Active
      <3>3. QED  BY <1>0, <3>2 DEF SlotsInv, NamedBehindCursor
    <2>4. /\ Installed' = Installed
          /\ \A x \in Installed : \A p : Fresh(x, p)' <=> Fresh(x, p) /\ ~(x \in ms /\ p = c)
          /\ Refs' = Refs /\ \A r \in Refs : At(r)'.state = "LEASED" => At(r)' = At(r)
      <3>1. PICK pending \in SUBSET ms : pending = {m \in ms : ~Resident(m)}
        OBVIOUS
      <3>2. \A x \in ms : x \in Installed => Produced(x, c) \/ x \in pending
        BY <2>3, <3>1
      <3>3. SkipAll(c, ms, pending)
        BY <2>2, <3>1
      <3>4. QED  BY <1>0, <3>2, <3>3, SkipAllFresh
    <2>5. PassesHeld' /\ ForwardFresh'
      BY <1>0, <1>1, <2>1, <2>2, <2>4, <1>ForwardTakes
    <2>6. LeasesHeld'
      BY <1>0, <2>2, <2>4 DEF LeasesHeld, CurrentPass
    <2>7. PassDrained'
      BY <2>2 DEF PassDrained
    <2>8. QED  BY <2>5, <2>6, <2>7 DEF WorkerGood
  <1>4. QED  BY <1>2, <1>3

\* A worker without passes, in front of an idle ring.
LEMMA WorkerIdle ==
    ASSUME wpc' \in {"out", "install"}, current' = None, carried' = None, openPasses' = <<>>,
           \A r \in Refs' : At(r)'.state # "LEASED"
    PROVE  WorkerGood'
  <1>1. None # NoPass
    BY NoneIsNoPass, SMTT(30) DEF NoPass
  <1>2. PassesHeld'
    BY <1>1 DEF PassesHeld, HeldPasses, Switching, Forward, Ends
  <1>3. ForwardFresh'
    BY <1>1 DEF ForwardFresh, Forward, Ends
  <1>4. QED  BY <1>2, <1>3 DEF WorkerGood, LeasesHeld, PassDrained

\* abort_weight_passes() makes any worker good again.
LEMMA DropRestores ==
    ASSUME TableInv, ControlInv, DropPasses
    PROVE  WorkerGood'
  <1>1. /\ wpc' = "out" /\ current' = None /\ carried' = None
        /\ AbortPasses(Distributed) /\ openPasses' = <<>>
    BY DEF DropPasses, AbortPasses, ControlInv, Aborting
  <1>2. \A r \in Refs' : At(r)' = FreeSlot
    BY <1>1, AllSlotsFree DEF TableInv, SlotsInv
  <1>3. QED  BY <1>1, <1>2, WorkerIdle, SlotFields

\* So are the reset and the install of a phase.
LEMMA SwitchKeeps ==
    ASSUME TableInv, WorkerGood, ResetRing \/ InstallPhase
    PROVE  WorkerGood'
  <1>0. PassesHeld /\ LeasesHeld /\ SlotsTyped
    BY DEF WorkerGood, TableInv, SlotsInv
  <1>1. /\ wpc \in {"reset", "install"} /\ UNCHANGED <<current, carried>>
        /\ wpc' \in {"out", "install"}
    BY DEF ResetRing, InstallPhase
  <1>2. current = None /\ carried = None /\ ~Aborting
    BY <1>0, <1>1 DEF PassesHeld, Switching, Aborting
  <1>3. openPasses = <<>>
    BY <1>0, <1>2 DEF PassesHeld, HeldPasses
  <1>4. \A r \in Refs : At(r).state # "LEASED"
    BY <1>0, <1>1, <1>2, NoLease
  <1>5. CASE UNCHANGED slots /\ UNCHANGED openPasses
    BY <1>1, <1>2, <1>3, <1>4, <1>5, SameSlots, WorkerIdle
  <1>6. CASE ResetRing
    <2>1. CASE UNCHANGED tableVars
      BY <1>5, <2>1 DEF tableVars
    <2>2. CASE \E layout \in Layouts : ResetTypes(layout)
      <3>1. \A r \in Refs' : At(r)' = FreeSlot
        BY <1>0, <2>2, AllSlotsFree
      <3>2. openPasses' = openPasses
        BY <2>2 DEF ResetTypes
      <3>3. QED  BY <1>1, <1>2, <1>3, <3>1, <3>2, WorkerIdle, SlotFields
    <2>3. QED  BY <1>6, <2>1, <2>2 DEF ResetRing
  <1>7. CASE InstallPhase
    BY <1>5, <1>7 DEF InstallPhase, Install
  <1>8. QED  BY <1>6, <1>7

\* A good worker was good before, unless it has just aborted its passes.
LEMMA GoodBefore ==
    ASSUME ThreadInv, [StreamNext]_streamVars, ~failed', ~closeFailed', ~DropPasses
    PROVE  ~failed /\ ~closeFailed
  <1> SUFFICES (~failed \/ UNCHANGED failed) /\ UNCHANGED closeFailed
    BY SMTT(30)
  <1>1. CASE Producer \/ EventCompletes
    BY <1>1 DEF Producer, EventCompletes, ProducerTop,
       ProducerEndIteration, ProducerWake, ProducerScan, ProducerAcquire, ProducerFetch,
       ProducerFetchCancelled, ProducerClaim, ProducerReleaseLease, ProducerFinish, workerVars
  <1>2. CASE ProducerFail
    BY <1>2 DEF ProducerFail
  <1>3. CASE EnterScope \/ Begin \/ Carry \/ WakeProducer \/ AskWeights \/ GetWeights
    BY <1>3 DEF EnterScope, Begin, Carry, WakeProducer, AskWeights, GetWeights
  <1>4. CASE FreeWeights \/ FreeWeightsAsync \/ SkipWeights \/ EndForward \/ LeaveScope
             \/ SwitchPhase
    BY <1>4 DEF FreeWeights, FreeWeightsAsync, SkipWeights, EndForward, LeaveScope,
       SwitchPhase, workerVars
  <1>5. CASE ClosePass \/ DrainPass \/ CheckLeases \/ FinishPass \/ AbortScope \/ StopProducer
    BY <1>5 DEF ClosePass, DrainPass, CheckLeases, FinishPass, AbortScope, StopProducer
  <1>6. CASE JoinProducer \/ ResetRing \/ InstallPhase \/ InstallRefused
    BY <1>6 DEF JoinProducer, ResetRing, InstallPhase, InstallRefused, ThreadInv
  <1>7. CASE EngineRaises \/ ForwardRaises
    BY <1>7 DEF EngineRaises, ForwardRaises, Unwind
  <1>8. CASE UNCHANGED streamVars
    BY <1>8 DEF streamVars, workerVars
  <1>9. QED
    BY <1>1, <1>2, <1>3, <1>4, <1>5, <1>6, <1>7, <1>8 DEF StreamNext, Worker

\* Every step keeps the worker's part of the invariant.
LEMMA WorkerStep ==
    ASSUME StreamInv, StreamInv', WorkerInv, [StreamNext]_streamVars
    PROVE  WorkerInv'
  <1> SUFFICES ASSUME ~failed', ~closeFailed' PROVE WorkerGood'
    BY DEF WorkerInv
  <1>0. /\ TableInv /\ TableInv' /\ ThreadInv /\ ProducerInv /\ RingInv /\ ReleaseInv
        /\ AccountInv /\ ControlInv
    BY DEF StreamInv
  <1>1. CASE DropPasses
    BY <1>0, <1>1, DropRestores
  <1>2. CASE ~DropPasses
    <2>0. ~failed /\ ~closeFailed /\ WorkerGood
      BY <1>0, <1>2, GoodBefore DEF WorkerInv
    <2>1. CASE Producer \/ EventCompletes
      BY <1>0, <2>0, <2>1, ProducerKeeps, WorkerAside
    <2>2. CASE FreeWeights \/ FreeWeightsAsync
      BY <1>0, <2>0, <2>2, FreeKept, WorkerAside
    <2>3. CASE ProducerFail
      BY <2>3 DEF ProducerFail
    <2>4. CASE EnterScope \/ WakeProducer \/ AskWeights \/ LeaveScope \/ SwitchPhase
               \/ CheckLeases \/ StopProducer \/ JoinProducer \/ InstallRefused
      BY <1>0, <2>0, <2>4, WorkerMoves
    <2>5. CASE EndForward
      BY <1>0, <2>0, <2>5, ForwardEnds
    <2>6. CASE EngineRaises \/ ForwardRaises
      BY <1>0, <2>0, <2>6, WorkerUnwinds
    <2>7. CASE AbortScope \/ ClosePass
      BY <1>0, <2>0, <2>7, ScopeAborts, PassCloses
    <2>8. CASE DrainPass \/ FinishPass
      BY <1>0, <2>0, <2>8, PassDrains, PassFinishes
    <2>9. CASE Begin \/ Carry
      BY <1>0, <2>0, <2>9, WorkerBegins, WorkerCarries
    <2>10. CASE GetWeights \/ SkipWeights
      BY <1>0, <2>0, <2>10, WorkerTakes
    <2>11. CASE ResetRing \/ InstallPhase
      BY <1>0, <2>0, <2>11, SwitchKeeps
    <2>12. CASE UNCHANGED streamVars
      BY <1>0, <2>0, <2>12, SameKept, WorkerAside DEF streamVars
    <2>13. QED
      BY <1>2, <2>1, <2>2, <2>3, <2>4, <2>5, <2>6, <2>7, <2>8, <2>9, <2>10, <2>11, <2>12
         DEF StreamNext, Worker
  <1>3. QED  BY <1>1, <1>2

\* The worker starts without a pass.
LEMMA WorkerStart == StreamInit => WorkerInv
  <1> SUFFICES ASSUME StreamInit PROVE WorkerGood
    BY DEF WorkerInv
  <1>1. /\ wpc = "out" /\ current = None /\ carried = None /\ openPasses = <<>>
        /\ None # NoPass
    <2>1. None # NoPass
      BY NoneIsNoPass, SMTT(30) DEF NoPass
    <2>2. QED  BY <2>1 DEF StreamInit, Init
  <1>2. PassesHeld
    BY <1>1 DEF PassesHeld, HeldPasses, Switching, Forward, Ends
  <1>3. ForwardFresh
    BY <1>1 DEF ForwardFresh, Forward, Ends
  <1>4. \A r \in Refs : At(r).state # "LEASED"
    <2>1. PICK layout \in Layouts : slots = [t \in ModuleTypes |-> FreeSlots(layout[t])]
      BY DEF StreamInit, Init
    <2>2. \A t \in ModuleTypes : layout[t] \in Nat
      BY <2>1, LayoutsAssumption
    <2>3. \A t \in ModuleTypes : \A i \in DOMAIN slots[t] : slots[t][i] = FreeSlot
      BY <2>1, <2>2, FreeRing
    <2>4. QED  BY <2>3, RefPairs, SlotFields DEF At
  <1>5. QED  BY <1>1, <1>2, <1>3, <1>4 DEF WorkerGood, LeasesHeld, PassDrained

\* The worker's part of the invariant holds throughout.
THEOREM WorkerInvariant == StreamSpec => []WorkerInv
  <1>1. StreamInv /\ WorkerInv /\ [StreamNext]_streamVars => StreamInv' /\ WorkerInv'
    BY StreamStep, WorkerStep
  <1>2. StreamInit => StreamInv /\ WorkerInv
    BY StreamStart, WorkerStart
  <1>3. QED  BY <1>1, <1>2, PTL DEF StreamSpec

\* The pass that close() ends is the current one, if there is one to end.
LEMMA EndingCurrent ==
    ASSUME TableInv, PassesHeld, ~Aborting, Ending \notin {None, NoPass}
    PROVE  openPasses # <<>> /\ CurrentPass = Ending /\ Ending \in Open /\ Ending \in Nat
  <1>1. openPasses # <<>> /\ CurrentPass = Ending
    <2>1. CASE current \notin {None, NoPass}
      BY <2>1, HeldTyped DEF Ending
    <2>2. CASE current = NoPass
      <3>1. NoPass # None
        BY NoneIsNoPass, SMTT(30) DEF NoPass
      <3>2. QED  BY <2>2, <3>1 DEF Ending
    <2>3. CASE current = None
      <3>1. Ending = carried /\ carried # None
        BY <2>3 DEF Ending
      <3>2. openPasses = <<carried>>
        BY <2>3, <3>1 DEF PassesHeld, HeldPasses
      <3>3. QED  BY <3>1, <3>2, SMTT(30) DEF CurrentPass
    <2>4. QED  BY <2>1, <2>2, <2>3
  <1>2. QED  BY <1>1, OpenInterval DEF TableInv, ScheduleInv

\* A fresh module can be leased, at once or when the producer has it.
LEMMA FreshServed ==
    ASSUME TableInv, openPasses # <<>>, NEW m \in Installed, Fresh(m, CurrentPass)
    PROVE  CheckLease(m) # "THROW"
  <1>0. SlotsInv /\ IndexExact /\ NamedBehindCursor
    BY DEF TableInv, SlotsInv
  <1>1. PICK c : c = CurrentPass
    OBVIOUS
  <1>2. ASSUME NEW q \in Refs, Live(q)
        PROVE  Active(q)
    BY <1>2 DEF Live, Active
  <1>3. CASE Resident(m)
    <2>1. PICK r \in Refs : r = index[<<m, c>>] /\ Active(r) /\ Key(r) = <<m, c>>
      BY <1>0, <1>1, <1>3, ResidentSlot
    <2>2. SlotOf(m) = At(r)
      BY <1>1, <2>1 DEF SlotOf
    <2>3. Produced(m, c)
      <3>1. At(r).name = m /\ At(r).pass = c
        BY <2>1, SMTT(30) DEF Key
      <3>2. QED  BY <1>0, <2>1, <3>1 DEF NamedBehindCursor, Active
    <2>4. PICK q \in Refs : Live(q) /\ Key(q) = <<m, c>>
      BY <1>1, <2>3 DEF Fresh
    <2>5. Live(r)
      BY <1>0, <1>2, <2>1, <2>4, KeysDiffer
    <2>6. QED  BY <1>3, <2>2, <2>5 DEF CheckLease, Live
  <1>4. CASE ~Resident(m)
    <2>1. ~\E q \in Refs : Live(q) /\ Key(q) = <<m, c>>
      BY <1>0, <1>1, <1>2, <1>4, IndexActive DEF Resident
    <2>2. ~Produced(m, c) /\ <<c, m>> \notin pendingSkips
      BY <1>1, <2>1 DEF Fresh
    <2>3. QED  BY <1>1, <1>4, <2>2 DEF CheckLease
  <1>5. QED  BY <1>3, <1>4

\* A drained pass has no daemon lease: the module in flight is of a later one.
LEMMA DrainedUnleased ==
    ASSUME TableInv, ThreadInv, ProducerInv, PassesHeld, PassDrained, ~failed, wpc = "check"
    PROVE  NoLeaseForPass(Ending)
  <1> SUFFICES ASSUME leases # {}
               PROVE  leases \subseteq {inFlight.module} /\ inFlight.pass > Ending
    BY DEF NoLeaseForPass
  <1>1. pc \in {"claim", "copy", "skip"} /\ leases \subseteq {next.module} /\ inFlight = next
    BY DEF ThreadInv, InFlight, Busy, AtCursor
  <1>2. /\ openPasses # <<>> /\ CurrentPass = Ending /\ Ending \in Nat
        /\ ProducerFinished(Ending)
        /\ \A r \in Refs : At(r).name # None => At(r).pass # Ending
    BY EndingCurrent DEF PassesHeld, Ends, PassDrained, Aborting
  <1>3. visited \in ModuleTypes
    BY <1>1, VisitedType DEF ThreadInv, Busy, AtCursor
  <1>4. CASE pc \in {"claim", "skip"}
    <2>1. lists[visited] # <<>> /\ next.pass = cursors[visited].pass
      BY <1>4 DEF ProducerInv, AtCursor
    <2>2. cursors[visited].pass > Ending
      BY <1>2, <1>3, <2>1 DEF ProducerFinished
    <2>3. QED  BY <1>1, <2>1, <2>2
  <1>5. CASE pc = "copy"
    <2>1. PICK r \in Refs : At(r).name # None /\ At(r).pass = next.pass
      BY <1>5 DEF ProducerInv
    <2>2. next.pass \in Open /\ next.pass # Ending
      BY <1>2, <2>1 DEF TableInv, SlotsInv, NamedBehindCursor
    <2>3. /\ Open = (nextPass - Len(openPasses))..(nextPass - 1)
          /\ CurrentPass = nextPass - Len(openPasses)
      BY <1>2, OpenInterval DEF TableInv, ScheduleInv
    <2>4. nextPass \in Nat /\ Len(openPasses) \in Nat
      BY SMTT(30) DEF TableInv, ScheduleInv, ScheduleTyped
    <2>5. next.pass > Ending
      BY ONLY <1>2, <2>2, <2>3, <2>4, SMTT(30)
    <2>6. QED  BY <1>1, <2>5
  <1>6. QED  BY <1>1, <1>4, <1>5

\* A drained pass can end: its skips were produced with it.
LEMMA DrainedEnds ==
    ASSUME TableInv, PassesHeld, PassDrained, wpc = "end"
    PROVE  CanEnd(Ending)
  <1>1. /\ openPasses # <<>> /\ CurrentPass = Ending
        /\ ProducerFinished(Ending)
        /\ \A r \in Refs : At(r).name # None => At(r).pass # Ending
    BY EndingCurrent DEF PassesHeld, Ends, PassDrained, Aborting
  <1>2. ASSUME NEW skip \in pendingSkips, skip[1] = Ending PROVE FALSE
    <2>1. PICK m \in Installed : m = skip[2] /\ ~Produced(m, Ending)
      BY <1>2 DEF TableInv, ScheduleInv, SkipsAhead
    <2>2. PICK t \in ModuleTypes : t = TypeOf(m) /\ PositionOf(m) \in DOMAIN lists[t]
      BY <2>1, Located DEF TableInv, ScheduleInv
    <2>3. lists[t] # <<>>
      BY <2>2, SMTT(30)
    <2>4. cursors[t].pass > Ending
      BY <1>1, <2>3 DEF ProducerFinished
    <2>5. QED  BY <2>1, <2>2, <2>4 DEF Produced
  <1>3. QED  BY <1>1, <1>2 DEF CanEnd, Held

\* The ring a phase is installed in is empty.
LEMMA InstallEmpty ==
    ASSUME TableInv, ThreadInv, RingInv, PassesHeld, wpc = "install"
    PROVE  openPasses = <<>> /\ Held = {}
  <1>1. openPasses = <<>>
    BY DEF PassesHeld, HeldPasses, Switching, Aborting
  <1>2. Open = {}
    BY <1>1, SMTT(30) DEF Open, Range
  <1>3. pc = "stopped" /\ ~Filling
    BY DEF ThreadInv, Filling
  <1>4. ASSUME NEW r \in Refs PROVE At(r).state = "FREE"
    <2>1. At(r).name = None
      BY <1>2 DEF TableInv, SlotsInv, NamedBehindCursor
    <2>2. PICK u \in Slot : u = At(r)
      BY SlotTyped DEF TableInv, SlotsInv
    <2>3. u.state \in SlotStates
      BY SMTT(30) DEF Slot
    <2>4. QED  BY <1>3, <2>1, <2>2, <2>3 DEF RingInv, SlotStates
  <1>5. QED  BY <1>1, <1>4 DEF Held

\* No call of a worker that lost nothing is refused: the module it asks for can
\* still arrive, the pass it closes is open and unleased, the pass it ends is
\* the current one and drained, and a phase is installed in an empty ring.
THEOREM WorkerServed == StreamSpec => []WorkerNeverRefused
  <1>1. ASSUME StreamInv, WorkerInv PROVE WorkerNeverRefused
    <2> SUFFICES ASSUME ~failed, ~closeFailed
                 PROVE  /\ ~Refused
                        /\ wpc = "install" => openPasses = <<>> /\ Held = {}
      BY DEF WorkerNeverRefused
    <2>0. /\ TableInv /\ ThreadInv /\ ProducerInv /\ RingInv
          /\ PassesHeld /\ ForwardFresh /\ LeasesHeld /\ PassDrained
      BY <1>1 DEF StreamInv, WorkerInv, WorkerGood
    <2>1. CASE wpc = "get"
      <3>1. current # NoPass /\ current # None /\ want \in FreshSet(current) /\ ~Aborting
        BY <2>0, <2>1 DEF ForwardFresh, PassesHeld, Forward, Aborting
      <3>2. openPasses # <<>> /\ CurrentPass = current
        BY <2>0, <3>1, HeldTyped
      <3>3. want \in Installed /\ Fresh(want, CurrentPass)
        BY <3>1, <3>2 DEF FreshSet
      <3>4. CheckLease(want) # "THROW"
        BY <2>0, <3>2, <3>3, FreshServed
      <3>5. QED  BY <2>1, <3>4 DEF Refused
    <2>2. CASE wpc = "close"
      <3>1. ~Aborting /\ \A r \in Refs : At(r).state # "LEASED"
        BY <2>0, <2>2, NoLease DEF Aborting
      <3>2. Ending \in Open \union {None, NoPass}
        BY <2>0, <3>1, EndingCurrent
      <3>3. QED  BY <2>2, <3>1, <3>2 DEF Refused, Held
    <2>3. CASE wpc = "drain"
      <3>1. openPasses # <<>> /\ CurrentPass = Ending
        BY <2>0, <2>3, EndingCurrent DEF PassesHeld, Ends, Aborting
      <3>2. QED  BY <2>3, <3>1 DEF Refused
    <2>4. CASE wpc = "check"
      BY <2>0, <2>4, DrainedUnleased DEF Refused
    <2>5. CASE wpc = "end"
      BY <2>0, <2>5, DrainedEnds DEF Refused
    <2>6. CASE wpc = "fwd"
      BY <2>6 DEF Refused
    <2>7. CASE wpc \notin {"get", "close", "drain", "check", "end", "fwd"}
      BY <2>0, <2>7, InstallEmpty DEF Refused
    <2>8. QED  BY <2>1, <2>2, <2>3, <2>4, <2>5, <2>6, <2>7
  <1>2. QED  BY <1>1, StreamInvariant, WorkerInvariant, PTL

=============================================================================
