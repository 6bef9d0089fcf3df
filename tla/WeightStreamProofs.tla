------------------------ MODULE WeightStreamProofs ------------------------
(***************************************************************************)
(* Proofs about the weight stream, for any lists, rings, pass counts and   *)
(* interleavings of the producer, the worker and the device.               *)
(***************************************************************************)
EXTENDS WeightStreamInvariants, WeightSlotTableProofs, TLAPS

USE ZenonT(60)

-----------------------------------------------------------------------------
(* What the worker's calls do to a slot: none of them touches the slot the *)
(* producer fills, except to mark a named one for release.                 *)

\* A step of the worker or the device makes such a call of the table, or none,
\* and leaves the producer's variables alone.
LEMMA WorkerCallTable ==
    ASSUME WorkerCall
    PROVE  TableCall /\ UNCHANGED <<producerVars, failed, queue>>
  <1>1. UNCHANGED <<producerVars, failed, queue>>
    BY DEF WorkerCall, EnterScope, Begin, Carry, WakeProducer, AskWeights, GetWeights,
       FreeWeights, FreeWeightsAsync, SkipWeights, EndForward, LeaveScope, SwitchPhase,
       ClosePass, DrainPass, CheckLeases, FinishPass, EngineRaises, ForwardRaises, Unwind,
       AbortScope, StopProducer, InstallRefused, EventCompletes
  <1>2. CASE EnterScope \/ WakeProducer \/ AskWeights \/ EndForward \/ LeaveScope
             \/ SwitchPhase \/ CheckLeases \/ EngineRaises \/ ForwardRaises \/ AbortScope
             \/ StopProducer \/ InstallRefused \/ EventCompletes
    BY <1>1, <1>2 DEF TableCall, EnterScope, WakeProducer, AskWeights, EndForward, LeaveScope,
       SwitchPhase, CheckLeases, EngineRaises, ForwardRaises, Unwind, AbortScope,
       StopProducer, InstallRefused, EventCompletes
  <1>3. CASE Begin \/ Carry
    BY <1>1, <1>3 DEF TableCall, Begin, Carry
  <1>4. CASE GetWeights \/ FreeWeights
    BY <1>1, <1>4 DEF TableCall, GetWeights, FreeWeights
  <1>5. CASE FreeWeightsAsync
    BY <1>1, <1>5 DEF TableCall, FreeWeightsAsync
  <1>6. CASE SkipWeights
    <2>1. PICK ms \in (SUBSET owed) \ {{}} : SkipModules(ms)
      BY <1>6 DEF SkipWeights
    <2>2. QED  BY <1>1, <2>1 DEF TableCall
  <1>7. CASE ClosePass \/ FinishPass
    BY <1>1, <1>7 DEF TableCall, ClosePass, FinishPass
  <1>8. CASE DrainPass
    BY <1>1, <1>8 DEF TableCall, DrainPass
  <1>9. QED
    BY <1>2, <1>3, <1>4, <1>5, <1>6, <1>7, <1>8 DEF WorkerCall

\* Each of those operations keeps the table's invariant and the producer's view.
LEMMA TableCallStep ==
    ASSUME TableInv, ReleaseInv, TableCall
    PROVE  /\ TableInv' /\ SlotsBeside
           /\ UNCHANGED <<lists, cursors>> /\ pendingSkips \subseteq pendingSkips'
           /\ nextPass \in Nat /\ nextPass' \in {nextPass, nextPass + 1}
  \* lease(), release(), release_async(), reclaim(), cancel_pass() and
  \* skip_modules() run beside the producer.
  <1>CallsBeside. ASSUME SlotsInv
                  PROVE  /\ \A m : Lease(m) => SlotsBeside
                         /\ \A m : Release(m) => SlotsBeside
                         /\ \A ms : ReleaseAsync(ms) => SlotsBeside
                         /\ \A G \in SUBSET Refs : Reclaim(G) => SlotsBeside
                         /\ \A p, ms, pending : None \notin ms /\ SkipAll(p, ms, pending) => SlotsBeside
    <2> USE <1>CallsBeside
    \* FREE is nobody's: a slot that is not being filled may be freed.
    <2>FreeBeside. ASSUME NEW s, s.state # "FILLING"
                   PROVE  SlotBeside(s, FreeSlot)
      BY <2>FreeBeside DEF SlotBeside, FreeSlot
    <2>0. \A r \in Refs : At(r) \in Slot
      BY SlotTyped DEF SlotsInv
    <2>1. ASSUME NEW m, Lease(m) PROVE SlotsBeside
      <3>1. PICK r \in Refs :
                 /\ At(r).state = "PRESENT"
                 /\ Refs' = Refs
                 /\ At(r)' = [At(r) EXCEPT !.state = "LEASED"]
                 /\ \A q \in Refs : q # r => At(q)' = At(q)
        BY <2>1, LeaseView
      <3>2. SlotBeside(At(r), At(r)')
        BY <2>0, <3>1 DEF SlotBeside, Slot
      <3>3. \A q \in Refs : SlotBeside(At(q), At(q)')
        BY <3>1, <3>2 DEF SlotBeside
      <3>4. QED  BY <3>1, <3>3 DEF SlotsBeside
    <2>2. ASSUME NEW m, Release(m) PROVE SlotsBeside
      <3>1. PICK r \in Refs :
                 /\ At(r).state = "LEASED"
                 /\ Refs' = Refs /\ At(r)' = FreeSlot
                 /\ \A q \in Refs : q # r => At(q)' = At(q)
        BY <2>2, ReleaseView
      <3>2. SlotBeside(At(r), At(r)')
        BY <3>1, <2>FreeBeside
      <3>3. \A q \in Refs : SlotBeside(At(q), At(q)')
        BY <3>1, <3>2 DEF SlotBeside
      <3>4. QED  BY <3>1, <3>3 DEF SlotsBeside
    <2>3. ASSUME NEW ms, ReleaseAsync(ms) PROVE SlotsBeside
      <3>1. /\ \A r \in RefsOf(ms) : r \in Refs /\ At(r).state = "LEASED"
            /\ Refs' = Refs
            /\ \A r \in RefsOf(ms) : At(r)' = [At(r) EXCEPT !.state = "PENDING_RELEASE"]
            /\ \A r \in Refs : r \notin RefsOf(ms) => At(r)' = At(r)
        BY <2>3, ReleaseAsyncView
      <3>2. ASSUME NEW r \in RefsOf(ms) PROVE SlotBeside(At(r), At(r)')
        <4>1. At(r) \in Slot /\ At(r).state = "LEASED"
          BY <2>0, <3>1
        <4>2. At(r)' = [At(r) EXCEPT !.state = "PENDING_RELEASE"]
          BY <3>1
        <4>3. QED  BY <4>1, <4>2 DEF SlotBeside, Slot
      <3>3. \A q \in Refs : SlotBeside(At(q), At(q)')
        BY <3>1, <3>2 DEF SlotBeside
      <3>4. QED  BY <3>1, <3>3 DEF SlotsBeside
    <2>4. ASSUME NEW G \in SUBSET Refs, Reclaim(G) PROVE SlotsBeside
      <3>1. /\ Refs' = Refs
            /\ \A q \in Refs : At(q)' = IF q \in G THEN FreeSlot ELSE At(q)
            /\ \A q \in G : At(q).state # "FILLING"
        BY <2>4, ReclaimView DEF Reclaim
      <3>2. \A q \in Refs : SlotBeside(At(q), At(q)')
        BY <3>1, <2>FreeBeside DEF SlotBeside
      <3>3. QED  BY <3>1, <3>2 DEF SlotsBeside
    <2>5. ASSUME NEW p, NEW ms, NEW pending, None \notin ms, SkipAll(p, ms, pending)
          PROVE  SlotsBeside
      <3>1. /\ Refs' = Refs
            /\ \A q \in Refs :
                  At(q)' = IF At(q).pass = p /\ At(q).name \in ms /\ At(q).state = "PRESENT"
                           THEN FreeSlot
                           ELSE IF At(q).pass = p /\ At(q).name \in ms /\ At(q).state = "FILLING"
                           THEN [At(q) EXCEPT !.release = TRUE]
                           ELSE At(q)
        BY <2>5, SkipAllView
      <3>2. ASSUME NEW q \in Refs PROVE SlotBeside(At(q), At(q)')
        <4>1. CASE At(q)' = At(q)
          BY <4>1 DEF SlotBeside
        <4>2. CASE At(q)' = FreeSlot /\ At(q).state = "PRESENT"
          BY <4>2, <2>FreeBeside
        <4>3. CASE /\ At(q)' = [At(q) EXCEPT !.release = TRUE]
                   /\ At(q).state = "FILLING" /\ At(q).name \in ms
          BY <2>0, <2>5, <4>3 DEF SlotBeside, Slot
        <4>4. QED  BY <3>1, <4>1, <4>2, <4>3
      <3>3. QED  BY <3>1, <3>2 DEF SlotsBeside
    <2>6. QED  BY <2>1, <2>2, <2>3, <2>4, <2>5
  <1>1. nextPass \in Nat /\ SlotsInv
    BY DEF TableInv, ScheduleInv, ScheduleTyped
  <1>2. CASE UNCHANGED tableVars
    <2>1. UNCHANGED <<slots, index, pendingSkips, lists, cursors, openPasses, nextPass,
                      passCounts, scheduleLost>>
      BY <1>2 DEF tableVars
    <2>2. TableInv'
      BY <1>2, TableStep
    <2>3. QED  BY <1>1, <2>1, <2>2, SameSlots
  <1>3. CASE BeginPass
    <2>1. UNCHANGED <<slots, lists, cursors, pendingSkips>> /\ nextPass' = nextPass + 1
      BY <1>3 DEF BeginPass
    <2>2. QED  BY <1>1, <1>3, <2>1, BeginPassStep, SameSlots
  <1>4. ASSUME NEW p, CancelPass(p)
        PROVE  /\ TableInv' /\ SlotsBeside
               /\ UNCHANGED <<lists, cursors, nextPass>> /\ pendingSkips \subseteq pendingSkips'
    <2>1. p \in Open /\ SkipAll(p, Modules, {m \in Installed : ~Produced(m, p)})
      BY <1>4 DEF CancelPass
    <2>2. SlotsBeside
      BY <1>1, <2>1, <1>CallsBeside, NoneAssumption
    <2>3. UNCHANGED <<lists, cursors, nextPass>> /\ pendingSkips \subseteq pendingSkips'
      BY <2>1 DEF SkipAll
    <2>4. QED  BY <1>4, <2>1, <2>2, <2>3, CancelPassStep
  <1>5. ASSUME NEW p, EndPass(p)
        PROVE  /\ TableInv' /\ SlotsBeside
               /\ UNCHANGED <<lists, cursors, nextPass, pendingSkips>>
    <2>1. UNCHANGED <<slots, lists, cursors, nextPass, pendingSkips>>
      BY <1>5 DEF EndPass
    <2>2. QED  BY <1>5, <2>1, EndPassStep, SameSlots
  <1>6. ASSUME NEW m, Lease(m) \/ Release(m)
        PROVE  /\ TableInv' /\ SlotsBeside
               /\ UNCHANGED <<lists, cursors, nextPass, pendingSkips>>
    <2>1. SlotsInv' /\ SlotsBeside
      BY <1>1, <1>6, LeaseStep, ReleaseStep, <1>CallsBeside
    <2>2. UNCHANGED <<pendingSkips, lists, cursors, openPasses, nextPass, passCounts,
                      scheduleLost>>
      BY <1>6 DEF Lease, Release
    <2>3. QED  BY <2>1, <2>2, SlotsOnly
  <1>7. ASSUME NEW ms, SkipModules(ms), ms # {}
        PROVE  /\ TableInv' /\ SlotsBeside
               /\ UNCHANGED <<lists, cursors, nextPass>> /\ pendingSkips \subseteq pendingSkips'
    <2>1. ms \in SUBSET Modules
      BY <1>7, InstalledTyped DEF SkipModules, CheckSkip, TableInv, ScheduleInv
    <2>2. SkipAll(CurrentPass, ms, {m \in ms : ~Resident(m)})
      BY <1>7 DEF SkipModules
    <2>3. SlotsBeside
      BY <1>1, <2>1, <2>2, <1>CallsBeside, NoneAssumption
    <2>4. UNCHANGED <<lists, cursors, nextPass>> /\ pendingSkips \subseteq pendingSkips'
      BY <2>2 DEF SkipAll
    <2>5. QED  BY <1>7, <2>1, <2>3, <2>4, SkipModulesStep
  <1>8. ASSUME NEW ms, ReleaseAsync(ms)
        PROVE  /\ TableInv' /\ SlotsBeside
               /\ UNCHANGED <<lists, cursors, nextPass, pendingSkips>>
    <2>1. SlotsInv' /\ SlotsBeside
      BY <1>1, <1>8, ReleaseAsyncStep, <1>CallsBeside
    <2>2. UNCHANGED <<pendingSkips, lists, cursors, openPasses, nextPass, passCounts,
                      scheduleLost>>
      BY <1>8 DEF ReleaseAsync
    <2>3. QED  BY <2>1, <2>2, SlotsOnly
  <1>9. CASE Reclaim(UNION {e.refs : e \in releases})
    <2> DEFINE G == UNION {e.refs : e \in releases}
    <2>1. G \in SUBSET Refs
      BY SMTT(30) DEF ReleaseInv
    <2>2. SlotsInv' /\ SlotsBeside
      BY <1>1, <1>9, <2>1, ReclaimStep, <1>CallsBeside
    <2>3. UNCHANGED <<pendingSkips, lists, cursors, openPasses, nextPass, passCounts,
                      scheduleLost>>
      BY <1>9 DEF Reclaim
    <2>4. QED  BY <1>1, <2>2, <2>3, SlotsOnly
  <1>10. QED
    BY <1>1, <1>2, <1>3, <1>4, <1>5, <1>6, <1>7, <1>8, <1>9 DEF TableCall

-----------------------------------------------------------------------------
(* The table's invariant along the stream's steps. *)

\* The type at hand is a module type.
LEMMA VisitedType ==
    ASSUME ThreadInv, visit <= Len(TypeOrder)
    PROVE  visited \in ModuleTypes
  BY StreamAssumption, SMTT(30) DEF ThreadInv, visited

\* The slot the producer reserved is one of its ring's.
LEMMA BufferSlot ==
    ASSUME ThreadInv, ProducerInv, pc \in {"fetch", "claim", "copy", "land", "skip"},
           buffer # 0
    PROVE  /\ visited \in ModuleTypes /\ <<visited, buffer>> \in Refs
           /\ buffer \in DOMAIN slots[visited]
           /\ At(<<visited, buffer>>) = slots[visited][buffer]
  <1>1. visited \in ModuleTypes
    BY VisitedType DEF ThreadInv, Busy, AtCursor
  <1>2. <<visited, buffer>> \in Refs
    BY DEF ProducerInv
  <1>3. buffer \in DOMAIN slots[visited]
    BY <1>2, RefPairs
  <1>4. QED  BY <1>1, <1>2, <1>3 DEF At

\* So a claim that copies finds its slot ...
LEMMA ClaimBuffer ==
    ASSUME SlotsTyped, ThreadInv, ProducerInv, ProducerClaim, ClaimCopy(visited, buffer)
    PROVE  visited \in ModuleTypes /\ buffer # 0 /\ buffer \in DOMAIN slots[visited]
  <1>1. <<next.pass, next.module>> \notin pendingSkips
    BY DEF ProducerClaim, ClaimCopy, NextProduction, ProducerInv, AtCursor
  <1>2. <<visited, buffer>> \in Refs
    BY <1>1 DEF ProducerClaim, ProducerInv
  <1>3. buffer # 0
    BY <1>2, ZeroIsNoSlot
  <1>4. QED  BY <1>3, BufferSlot DEF ProducerClaim

\* ... and so does a copy that lands.
LEMMA LandBuffer ==
    ASSUME SlotsTyped, ThreadInv, ProducerInv, pc \in {"copy", "land"}
    PROVE  /\ visited \in ModuleTypes /\ buffer # 0 /\ buffer \in DOMAIN slots[visited]
           /\ <<visited, buffer>> \in Refs
  <1>1. <<visited, buffer>> \in Refs
    BY DEF ProducerInv
  <1>2. QED  BY <1>1, ZeroIsNoSlot, BufferSlot

\* They are slots that wait for an event.
LEMMA DonePending ==
    ASSUME ReleaseInv
    PROVE  DoneRefs \in SUBSET Refs /\ \A r \in DoneRefs : At(r).state = "PENDING_RELEASE"
  BY SMTT(30) DEF ReleaseInv, DoneRefs

\* Every step of the stream keeps it.
LEMMA StreamTable ==
    ASSUME TableInv, ThreadInv, ProducerInv, ReleaseInv, RingInv, [StreamNext]_streamVars
    PROVE  TableInv'
  \* acquireEmptyBuffer() keeps the table's invariant.
  <1>AcquireTable. ASSUME TableInv, ReleaseInv, ThreadInv, ProducerAcquire
                   PROVE  TableInv'
    <2> USE <1>AcquireTable
    <2> DEFINE G == DoneRefs
               ring == Reclaimed(G)
    <2>1. G \in SUBSET Refs /\ \A r \in G : At(r).state = "PENDING_RELEASE"
      BY DonePending
    <2>2. UNCHANGED <<index, pendingSkips, lists, cursors, openPasses, nextPass, passCounts,
                      scheduleLost>>
      BY DEF ProducerAcquire
    <2>3. CASE slots' = ring
      <3>1. Reclaim(G)
        BY <2>1, <2>2, <2>3 DEF Reclaim
      <3>2. SlotsInv'
        BY <2>1, <3>1, ReclaimStep DEF TableInv
      <3>3. QED  BY <2>2, <3>2, SlotsOnly
    <2>4. CASE FreeIn(ring, visited) # {} /\ slots' = AfterReserve(ring, visited)
      <3> DEFINE r == <<visited, Reserved(ring, visited)>>
      <3>1. visited \in ModuleTypes
        BY VisitedType DEF ThreadInv, Busy, AtCursor, ProducerAcquire
      <3>2. /\ r \in Refs
            /\ r \in G \/ At(r).state = "FREE"
            /\ slots' \in [ModuleTypes -> Seq(Slot)]
            /\ Refs' = Refs
            /\ \A q \in Refs : At(q)' = IF q = r THEN Reserving
                                        ELSE IF q \in G THEN FreeSlot ELSE At(q)
        BY <2>1, <2>4, <3>1, AcquireView, SMTT(30) DEF TableInv
      <3> HIDE DEF r, G, ring
      <3>3. ASSUME NEW q \in Refs
            PROVE  /\ At(q)'.state = "FREE" => At(q)'.name = None
                   /\ At(q)'.name # None => At(q)'.name = At(q).name /\ At(q)'.pass = At(q).pass
                   /\ Active(q)' <=> Active(q)
        <4>1. CASE q = r \/ q \in G
          <5>1. ~Active(q)
            BY <2>1, <3>2, <4>1 DEF Active
          <5>2. At(q)' = Reserving \/ At(q)' = FreeSlot
            BY <3>2, <4>1
          <5>3. QED  BY <5>1, <5>2, SMTT(30) DEF Active, Reserving, FreeSlot
        <4>2. CASE q # r /\ q \notin G
          <5>1. At(q)' = At(q)
            BY <3>2, <4>2
          <5>2. QED  BY <5>1, FreeRefs DEF Active, TableInv
        <4>3. QED  BY <4>1, <4>2
      <3>4. SlotsInv'
        BY <2>2, <3>2, <3>3, SlotStepIndexed DEF TableInv
      <3>5. QED  BY <2>2, <3>4, SlotsOnly
    <2>5. QED  BY <2>3, <2>4 DEF ProducerAcquire, DoneRefs
  <1>1. CASE UNCHANGED tableVars
    BY <1>1, TableStep
  <1>2. CASE WorkerCall
    BY <1>2, WorkerCallTable, TableCallStep
  <1>3. CASE ProducerAcquire
    BY <1>3, <1>AcquireTable
  <1>4. ASSUME Abandon(visited, buffer), buffer # 0,
               pc \in {"fetch", "claim", "copy", "land", "skip"}
        PROVE  TableInv'
    <2>1. SlotsInv'
      BY <1>4, BufferSlot, AbandonView DEF TableInv
    <2>2. UNCHANGED <<pendingSkips, lists, cursors, openPasses, nextPass, passCounts,
                      scheduleLost>>
      BY <1>4 DEF Abandon
    <2>3. QED  BY <2>1, <2>2, SlotsOnly
  <1>5. CASE ProducerFetchCancelled
    BY <1>1, <1>4, <1>5 DEF ProducerFetchCancelled
  <1>6. CASE ProducerClaim
    <2>1. visited \in ModuleTypes
      BY <1>6, VisitedType DEF ThreadInv, Busy, AtCursor, ProducerClaim
    <2>2. CASE ClaimSkip(visited, buffer)
      BY <1>1, <1>4, <1>6, <2>2 DEF ProducerClaim, ClaimSkip
    <2>3. CASE ClaimCopy(visited, buffer)
      BY <1>6, <2>3, ClaimBuffer, ClaimCopyStep DEF TableInv, SlotsInv
    <2>4. QED  BY <1>6, <2>2, <2>3 DEF ProducerClaim
  <1>7. CASE ProducerFinish
    <2>1. visited \in ModuleTypes
      BY <1>7, VisitedType DEF ThreadInv, Busy, AtCursor, ProducerFinish
    <2>2. CASE pc = "land" /\ Landed(visited, buffer)
      BY <2>2, LandBuffer, LandedStep DEF TableInv, SlotsInv
    <2>3. CASE RetireSkip(visited)
      BY <2>1, <2>3, RetireSkipStep
    <2>4. QED  BY <1>7, <2>2, <2>3 DEF ProducerFinish
  <1>8. CASE ProducerFail
    BY <1>1, <1>4, <1>8 DEF ProducerFail
  <1>9. CASE DropPasses
    BY <1>9, AbortPassesStep, StreamAssumption DEF DropPasses
  <1>10. CASE ResetRing
    BY <1>1, <1>10, ResetTypesStep DEF ResetRing
  <1>11. CASE InstallPhase
    BY <1>11, InstallStep DEF InstallPhase
  <1>12. CASE ProducerTop \/ ProducerEndIteration \/ ProducerWake \/ ProducerScan
              \/ ProducerFetch \/ ProducerReleaseLease \/ JoinProducer
    BY <1>1, <1>12 DEF ProducerTop, ProducerEndIteration, ProducerWake, ProducerScan,
       ProducerFetch, ProducerReleaseLease, JoinProducer
  <1>13. CASE UNCHANGED streamVars
    BY <1>1, <1>13 DEF streamVars
  <1>14. QED
    BY <1>2, <1>3, <1>5, <1>6, <1>7, <1>8, <1>9, <1>10, <1>11, <1>12, <1>13
       DEF StreamNext, Producer, Worker, WorkerCall

-----------------------------------------------------------------------------
(* Control. *)

\* Every step of the worker continues where the code says.
LEMMA ControlStep ==
    ASSUME ControlInv, [StreamNext]_streamVars
    PROVE  ControlInv'
  <1> USE DEF ControlInv, Ends, Aborting
  <1>1. CASE UNCHANGED workerVars
    BY <1>1 DEF workerVars
  <1>2. CASE Producer \/ ProducerFail \/ EventCompletes \/ UNCHANGED streamVars
    BY <1>1, <1>2 DEF Producer, ProducerFail, EventCompletes, streamVars, ProducerTop,
       ProducerEndIteration, ProducerWake, ProducerScan, ProducerAcquire, ProducerFetch,
       ProducerFetchCancelled, ProducerClaim, ProducerReleaseLease, ProducerFinish
  <1>3. CASE FreeWeights \/ FreeWeightsAsync
    BY <1>1, <1>3 DEF FreeWeights, FreeWeightsAsync
  <1>4. CASE EnterScope
    BY <1>4 DEF EnterScope
  <1>5. CASE Begin
    BY <1>5 DEF Begin
  <1>6. CASE Carry
    BY <1>6 DEF Carry
  <1>7. CASE WakeProducer
    BY <1>7 DEF WakeProducer
  <1>8. CASE AskWeights
    BY <1>8 DEF AskWeights
  <1>9. CASE GetWeights
    BY <1>9 DEF GetWeights
  <1>10. CASE SkipWeights
    BY <1>10 DEF SkipWeights
  <1>11. CASE EndForward
    BY <1>11 DEF EndForward
  <1>12. CASE LeaveScope
    BY <1>12 DEF LeaveScope
  <1>13. CASE SwitchPhase
    BY <1>13 DEF SwitchPhase
  <1>14. CASE ClosePass
    BY <1>14 DEF ClosePass
  <1>15. CASE DrainPass
    BY <1>15 DEF DrainPass
  <1>16. CASE CheckLeases
    BY <1>16 DEF CheckLeases
  <1>17. CASE FinishPass
    BY <1>17 DEF FinishPass
  <1>18. CASE EngineRaises \/ ForwardRaises
    BY <1>18 DEF EngineRaises, ForwardRaises, Unwind
  <1>19. CASE AbortScope
    BY <1>19 DEF AbortScope
  <1>20. CASE StopProducer
    BY <1>20 DEF StopProducer
  <1>21. CASE JoinProducer
    BY <1>21 DEF JoinProducer
  <1>22. CASE DropPasses
    BY <1>22 DEF DropPasses
  <1>23. CASE ResetRing
    BY <1>23 DEF ResetRing
  <1>24. CASE InstallPhase \/ InstallRefused
    BY <1>24 DEF InstallPhase, InstallRefused
  <1>25. QED
    BY <1>2, <1>3, <1>4, <1>5, <1>6, <1>7, <1>8, <1>9, <1>10, <1>11, <1>12, <1>13, <1>14,
       <1>15, <1>16, <1>17, <1>18, <1>19, <1>20, <1>21, <1>22, <1>23, <1>24
       DEF StreamNext, Worker

\* Every step keeps the control of the threads in order.
LEMMA ThreadStep ==
    ASSUME ThreadInv, ControlInv, ProducerInv, [StreamNext]_streamVars
    PROVE  ThreadInv'
  \* Only a joined producer's worker reaches the drop, the reset and the install.
  <1>CallControl. ASSUME ControlInv, WorkerCall, closeFailed \in BOOLEAN
                  PROVE  /\ wpc' \in {"drop", "reset", "install"} => wpc' = wpc
                         /\ closeFailed' \in BOOLEAN
    <2> USE <1>CallControl
    <2>1. CASE UNCHANGED <<wpc, closeFailed>>
      BY <2>1
    <2>2. CASE FreeWeights \/ FreeWeightsAsync \/ EventCompletes
      BY <2>1, <2>2 DEF FreeWeights, FreeWeightsAsync, EventCompletes, workerVars
    <2>3. CASE EnterScope \/ Begin \/ Carry \/ AskWeights \/ GetWeights
      BY <2>3 DEF EnterScope, Begin, Carry, AskWeights, GetWeights
    <2>4. CASE WakeProducer \/ ClosePass
      BY <2>4 DEF WakeProducer, ClosePass, ControlInv
    <2>5. CASE SkipWeights \/ EndForward \/ LeaveScope \/ SwitchPhase \/ DrainPass
      BY <2>5 DEF SkipWeights, EndForward, LeaveScope, SwitchPhase, DrainPass
    <2>6. CASE CheckLeases \/ FinishPass \/ AbortScope \/ StopProducer \/ InstallRefused
      BY <2>6 DEF CheckLeases, FinishPass, AbortScope, StopProducer, InstallRefused
    <2>7. CASE EngineRaises \/ ForwardRaises
      BY <2>7 DEF EngineRaises, ForwardRaises, Unwind
    <2>8. QED  BY <2>2, <2>3, <2>4, <2>5, <2>6, <2>7 DEF WorkerCall
  <1> USE DEF Busy, AtCursor, InFlight
  <1>1. CASE WorkerCall
    <2>1. UNCHANGED <<producerVars, failed, queue>>
      BY <1>1, WorkerCallTable
    <2>2. /\ wpc' \in {"drop", "reset", "install"} => wpc' = wpc
          /\ closeFailed' \in BOOLEAN
      BY <1>1, <1>CallControl DEF ThreadInv
    <2>3. UNCHANGED <<pc, visit, next, inFlight, leases, failed>>
      BY <2>1 DEF producerVars
    <2>4. QED  BY <2>2, <2>3 DEF ThreadInv
  <1>2. CASE ProducerTop
    BY <1>2, SMTT(30) DEF ThreadInv, ProducerTop, workerVars
  <1>3. CASE ProducerEndIteration
    BY <1>3 DEF ThreadInv, ProducerEndIteration, workerVars
  <1>4. CASE ProducerWake
    BY <1>4 DEF ThreadInv, ProducerWake, workerVars
  <1>5. CASE ProducerScan
    <2>1. visit <= Len(TypeOrder) /\ ~failed
      BY <1>5, StreamAssumption, SMTT(30) DEF ProducerScan, IterationOver, ThreadInv
    <2>2. visit' \in Nat \ {0}
      BY <1>5, SMTT(30) DEF ProducerScan, ThreadInv
    <2>3. UNCHANGED <<leases, failed, wpc, closeFailed>> /\ leases = {} /\ pc = "scan"
      BY <1>5, <2>1 DEF ProducerScan, ThreadInv, workerVars
    <2>4. \/ pc' = "scan"
          \/ visit' = visit /\ pc' = "acquire"
          \/ visit' = visit /\ pc' = "fetch" /\ inFlight' = next'
      BY <1>5, <2>3 DEF ProducerScan
    <2>5. QED  BY <2>1, <2>2, <2>3, <2>4 DEF ThreadInv
  <1>6. CASE ProducerAcquire
    <2>1. visit' \in Nat \ {0}
      BY <1>6, SMTT(30) DEF ProducerAcquire, ThreadInv
    <2>2. UNCHANGED <<next, leases, failed, wpc, closeFailed>> /\ pc = "acquire"
      BY <1>6 DEF ProducerAcquire, workerVars
    <2>3. \/ pc' = "scan"
          \/ visit' = visit /\ pc' = "fetch" /\ inFlight' = next
      BY <1>6 DEF ProducerAcquire
    <2>4. QED  BY <2>1, <2>2, <2>3 DEF ThreadInv
  <1>7. CASE ProducerFetch
    BY <1>7 DEF ThreadInv, ProducerFetch, workerVars
  <1>8. CASE ProducerFetchCancelled
    BY <1>8 DEF ThreadInv, ProducerFetchCancelled, workerVars
  <1>9. CASE ProducerClaim
    BY <1>9 DEF ThreadInv, ProducerClaim, workerVars
  <1>10. CASE ProducerReleaseLease
    BY <1>10 DEF ThreadInv, ProducerReleaseLease, workerVars
  <1>11. CASE ProducerFinish
    <2>1. visit' \in Nat \ {0}
      BY <1>11, SMTT(30) DEF ProducerFinish, ThreadInv
    <2>2. QED  BY <1>11, <2>1 DEF ThreadInv, ProducerFinish, workerVars
  <1>12. CASE ProducerFail
    BY <1>12 DEF ThreadInv, ProducerFail, workerVars
  <1>13. CASE JoinProducer
    BY <1>13 DEF ThreadInv, JoinProducer
  <1>14. CASE DropPasses
    BY <1>14 DEF ThreadInv, DropPasses
  <1>15. CASE ResetRing
    BY <1>15 DEF ThreadInv, ResetRing, producerVars
  <1>16. CASE InstallPhase
    BY <1>16 DEF ThreadInv, InstallPhase
  <1>17. CASE UNCHANGED streamVars
    BY <1>17 DEF ThreadInv, streamVars, producerVars, workerVars
  <1>18. QED
    BY <1>1, <1>2, <1>3, <1>4, <1>5, <1>6, <1>7, <1>8, <1>9, <1>10, <1>11, <1>12, <1>13,
       <1>14, <1>15, <1>16, <1>17 DEF StreamNext, Producer, Worker, WorkerCall

-----------------------------------------------------------------------------
(* Releases. *)

\* Slots that are left alone, or wait for no event before and after.
LEMMA PendingSlots ==
    ASSUME Refs' = Refs,
           \A r \in Refs : \/ At(r)' = At(r)
                           \/ /\ At(r).state # "PENDING_RELEASE"
                              /\ At(r)'.state # "PENDING_RELEASE"
    PROVE  PendingKept
  BY DEF PendingKept

\* The releases are the slots that wait for an event, each in one release.
LEMMA ReleasesNext ==
    ASSUME TableInv, ThreadInv, ProducerInv, ReleaseInv, [StreamNext]_streamVars
    PROVE  ReleaseInv'
  \* Where those slots stay the same, so do the releases.
  <1>ReleaseKept. ASSUME ReleaseInv, PendingKept, UNCHANGED releases
                  PROVE  ReleaseInv'
    BY <1>ReleaseKept DEF ReleaseInv, PendingKept
  \* The worker's calls, but free_weights_buffers_async() and the wait for a
  \* drained pass, leave those slots alone.
  <1>CallsPending. ASSUME SlotsInv
                   PROVE  /\ UNCHANGED slots => PendingKept
                          /\ \A m : Lease(m) \/ Release(m) => PendingKept
                          /\ \A p, ms, pending : SkipAll(p, ms, pending) => PendingKept
    <2> USE <1>CallsPending
    <2>0. /\ \A r \in Refs : At(r) \in Slot
          /\ FreeSlot.state = "FREE"
      BY SlotTyped DEF SlotsInv, FreeSlot
    <2>1. ASSUME UNCHANGED slots PROVE PendingKept
      BY <2>1, SameSlots, PendingSlots
    <2>2. ASSUME NEW m, Lease(m) PROVE PendingKept
      <3>1. PICK r \in Refs :
                 /\ At(r).state = "PRESENT"
                 /\ Refs' = Refs
                 /\ At(r)' = [At(r) EXCEPT !.state = "LEASED"]
                 /\ \A q \in Refs : q # r => At(q)' = At(q)
        BY <2>2, LeaseView
      <3>2. At(r)'.state = "LEASED"
        BY <2>0, <3>1, SMTT(30) DEF Slot
      <3>3. QED  BY <3>1, <3>2, PendingSlots
    <2>3. ASSUME NEW m, Release(m) PROVE PendingKept
      <3>1. PICK r \in Refs :
                 /\ At(r).state = "LEASED"
                 /\ Refs' = Refs /\ At(r)' = FreeSlot
                 /\ \A q \in Refs : q # r => At(q)' = At(q)
        BY <2>3, ReleaseView
      <3>2. QED  BY <2>0, <3>1, PendingSlots
    <2>4. ASSUME NEW p, NEW ms, NEW pending, SkipAll(p, ms, pending) PROVE PendingKept
      <3>1. /\ Refs' = Refs
            /\ \A q \in Refs :
                  At(q)' = IF At(q).pass = p /\ At(q).name \in ms /\ At(q).state = "PRESENT"
                           THEN FreeSlot
                           ELSE IF At(q).pass = p /\ At(q).name \in ms /\ At(q).state = "FILLING"
                           THEN [At(q) EXCEPT !.release = TRUE]
                           ELSE At(q)
        BY <2>4, SkipAllView
      <3>2. ASSUME NEW q \in Refs
            PROVE  \/ At(q)' = At(q)
                   \/ /\ At(q).state # "PENDING_RELEASE"
                      /\ At(q)'.state # "PENDING_RELEASE"
        <4>1. CASE At(q)' = [At(q) EXCEPT !.release = TRUE] /\ At(q).state = "FILLING"
          BY <2>0, <4>1, SMTT(30) DEF Slot
        <4>2. QED  BY <2>0, <3>1, <4>1
      <3>3. QED  BY <3>1, <3>2, PendingSlots
    <2>5. QED  BY <2>1, <2>2, <2>3, <2>4
  \* An event that completes, of one of the releases.
  <1>EventRelease. ASSUME ReleaseInv, EventCompletes
                   PROVE  ReleaseInv'
    <2> USE <1>EventRelease
    <2>1. PICK e \in releases : releases' = (releases \ {e}) \union {[refs |-> e.refs, done |-> TRUE]}
      BY DEF EventCompletes
    <2> DEFINE f == [refs |-> e.refs, done |-> TRUE]
    <2>2. e \in [refs : SUBSET Refs, done : BOOLEAN]
      BY DEF ReleaseInv
    <2>3. f \in [refs : SUBSET Refs, done : BOOLEAN] /\ f.refs = e.refs
      <3>1. e.refs \in SUBSET Refs
        BY <2>2
      <3>2. QED  BY <3>1
    <2> HIDE DEF f
    <2>4. Refs' = Refs /\ \A r \in Refs : At(r)' = At(r)
      BY SameSlots DEF EventCompletes, tableVars
    <2>5. releases' \subseteq [refs : SUBSET Refs, done : BOOLEAN]
      BY <2>1, <2>3 DEF ReleaseInv, f
    <2>6. \A r : (\E d \in releases' : r \in d.refs) <=> (\E d \in releases : r \in d.refs)
      BY <2>1, <2>3 DEF f
    <2>7. ASSUME NEW c \in releases', NEW d \in releases', c # d PROVE c.refs \cap d.refs = {}
      BY <2>1, <2>3, <2>7 DEF ReleaseInv, f
    <2>8. QED  BY <2>4, <2>5, <2>6, <2>7 DEF ReleaseInv
  \* free_weights_buffers_async(): the slots of the call form a new release.
  <1>AsyncRelease. ASSUME SlotsInv, ReleaseInv, FreeWeightsAsync
                   PROVE  ReleaseInv'
    <2> USE <1>AsyncRelease
    <2>1. PICK ms \in SUBSET Modules :
              /\ ReleaseAsync(ms)
              /\ releases' = releases \union {[refs |-> RefsOf(ms), done |-> FALSE]}
      BY DEF FreeWeightsAsync
    <2> DEFINE G == RefsOf(ms)
               f == [refs |-> G, done |-> FALSE]
    <2>2. /\ G \subseteq Refs
          /\ \A r \in G : At(r).state = "LEASED"
          /\ Refs' = Refs
          /\ \A r \in G : At(r)' = [At(r) EXCEPT !.state = "PENDING_RELEASE"]
          /\ \A r \in Refs : r \notin G => At(r)' = At(r)
      BY <2>1, ReleaseAsyncView
    <2>3. f \in [refs : SUBSET Refs, done : BOOLEAN] /\ f.refs = G
      BY <2>2, SMTT(30)
    <2> HIDE DEF G
    <2>4. \A r \in G : At(r)'.state = "PENDING_RELEASE"
      <3> SUFFICES ASSUME NEW r \in G PROVE At(r)'.state = "PENDING_RELEASE"
        OBVIOUS
      <3>1. At(r) \in Slot
        BY <2>2, SlotTyped DEF SlotsInv
      <3>2. At(r)' = [At(r) EXCEPT !.state = "PENDING_RELEASE"]
        BY <2>2
      <3>3. QED  BY <3>1, <3>2, SMTT(30) DEF Slot
    <2> HIDE DEF f
    <2>5. releases' = releases \union {f}
      BY <2>1 DEF f, G
    <2>6. releases' \subseteq [refs : SUBSET Refs', done : BOOLEAN]
      BY <2>2, <2>3, <2>5 DEF ReleaseInv
    <2>7. ASSUME NEW r \in Refs
          PROVE  At(r)'.state = "PENDING_RELEASE" <=> \E e \in releases' : r \in e.refs
      <3>1. CASE r \in G
        BY <2>3, <2>4, <2>5, <3>1
      <3>2. CASE r \notin G
        <4>1. At(r)' = At(r)
          BY <2>2, <3>2
        <4>2. (\E e \in releases' : r \in e.refs) <=> (\E e \in releases : r \in e.refs)
          BY <2>3, <2>5, <3>2
        <4>3. QED  BY <4>1, <4>2 DEF ReleaseInv
      <3>3. QED  BY <3>1, <3>2
    <2>8. \A e \in releases : e.refs \cap G = {}
      <3> SUFFICES ASSUME NEW e \in releases, NEW r \in G, r \in e.refs PROVE FALSE
        OBVIOUS
      <3>1. At(r).state = "LEASED" /\ r \in Refs
        BY <2>2
      <3>2. QED  BY <3>1 DEF ReleaseInv
    <2>9. ASSUME NEW c \in releases', NEW d \in releases', c # d PROVE c.refs \cap d.refs = {}
      BY <2>3, <2>5, <2>8, <2>9 DEF ReleaseInv
    <2>10. QED  BY <2>2, <2>6, <2>7, <2>9 DEF ReleaseInv
  \* acquireEmptyBuffer() frees the slots of the completed releases and drops
  \* those releases.
  <1>AcquireRelease. ASSUME SlotsInv, ReleaseInv, ThreadInv, ProducerAcquire
                     PROVE  ReleaseInv'
    <2> USE <1>AcquireRelease
    <2> DEFINE done == {e \in releases : e.done}
               G == DoneRefs
               ring == Reclaimed(G)
    <2>1. releases' = releases \ done /\ G = UNION {e.refs : e \in done}
      BY DEF ProducerAcquire, DoneRefs
    <2>2. G \in SUBSET Refs /\ \A r \in G : At(r).state = "PENDING_RELEASE"
      BY DonePending
    <2>3. /\ Refs' = Refs
          /\ \A r \in Refs : /\ r \in G => At(r)'.state # "PENDING_RELEASE"
                             /\ r \notin G => (At(r)'.state = "PENDING_RELEASE"
                                                <=> At(r).state = "PENDING_RELEASE")
      <3>0. FreeSlot.state = "FREE" /\ Reserving.state = "FILLING"
        BY DEF FreeSlot, Reserving
      <3>1. CASE slots' = ring
        BY <3>0, <3>1, ReclaimView
      <3>2. CASE FreeIn(ring, visited) # {} /\ slots' = AfterReserve(ring, visited)
        <4> DEFINE r == <<visited, Reserved(ring, visited)>>
        <4>0. ring = Reclaimed(G)
          OBVIOUS
        <4> HIDE DEF G, ring
        <4>1. visited \in ModuleTypes
          BY VisitedType DEF ThreadInv, Busy, AtCursor, ProducerAcquire
        <4>2. /\ r \in G \/ At(r).state = "FREE"
              /\ Refs' = Refs
              /\ \A q \in Refs : At(q)' = IF q = r THEN Reserving
                                          ELSE IF q \in G THEN FreeSlot ELSE At(q)
          BY <2>2, <3>2, <4>0, <4>1, AcquireView, SMTT(30)
        <4> HIDE DEF r
        <4>3. QED  BY <3>0, <4>2
      <3>3. QED  BY <3>1, <3>2 DEF ProducerAcquire, DoneRefs
    <2> HIDE DEF G, done
    <2>4. ASSUME NEW r \in Refs
          PROVE  (\E e \in releases' : r \in e.refs)
                   <=> r \notin G /\ \E e \in releases : r \in e.refs
      <3>1. ASSUME NEW e \in releases', r \in e.refs PROVE r \notin G
        <4>1. e \in releases /\ e \notin done
          BY <2>1
        <4> SUFFICES ASSUME NEW d \in done, r \in d.refs PROVE FALSE
          BY <2>1
        <4>2. d \in releases /\ d # e
          BY <4>1 DEF done
        <4>3. QED  BY <3>1, <4>1, <4>2 DEF ReleaseInv
      <3>2. QED  BY <2>1, <3>1
    <2>5. QED  BY <2>1, <2>3, <2>4 DEF ReleaseInv
  <1>0. SlotsInv /\ SlotsTyped /\ FreeSlot.state = "FREE"
    BY SlotFields DEF TableInv, SlotsInv
  <1>1. CASE UNCHANGED <<slots, releases>>
    BY <1>0, <1>1, <1>CallsPending, <1>ReleaseKept
  <1>2. CASE EnterScope \/ Begin \/ Carry \/ WakeProducer \/ AskWeights \/ EndForward
             \/ LeaveScope \/ SwitchPhase \/ CheckLeases \/ FinishPass
    BY <1>1, <1>2 DEF EnterScope, Begin, Carry, WakeProducer, AskWeights, EndForward,
       LeaveScope, SwitchPhase, CheckLeases, FinishPass, tableVars, BeginPass, EndPass
  <1>3. CASE EngineRaises \/ ForwardRaises \/ AbortScope \/ StopProducer \/ InstallRefused
             \/ JoinProducer \/ InstallPhase
    BY <1>1, <1>3 DEF EngineRaises, ForwardRaises, Unwind, AbortScope, StopProducer,
       InstallRefused, JoinProducer, InstallPhase, Install, tableVars
  <1>4. CASE GetWeights \/ FreeWeights \/ SkipWeights \/ ClosePass
    <2>1. UNCHANGED releases
      BY <1>4 DEF GetWeights, FreeWeights, SkipWeights, ClosePass
    <2>2. PendingKept
      BY <1>0, <1>4, <1>CallsPending DEF GetWeights, FreeWeights, SkipWeights, ClosePass,
         SkipModules, CancelPass, tableVars
    <2>3. QED  BY <2>1, <2>2, <1>ReleaseKept
  <1>5. CASE FreeWeightsAsync
    BY <1>0, <1>5, <1>AsyncRelease
  <1>6. CASE DrainPass
    <2> DEFINE G == UNION {e.refs : e \in releases}
    <2>1. Reclaim(G) /\ releases' = {}
      BY <1>6 DEF DrainPass
    <2>2. Refs' = Refs /\ \A q \in Refs : At(q)' = IF q \in G THEN FreeSlot ELSE At(q)
      BY <2>1, ReclaimView DEF Reclaim
    <2>3. \A q \in Refs : q \notin G => At(q).state # "PENDING_RELEASE"
      BY DEF ReleaseInv
    <2> HIDE DEF G
    <2>4. \A q \in Refs : At(q)'.state # "PENDING_RELEASE"
      BY <1>0, <2>2, <2>3
    <2>5. QED  BY <2>1, <2>2, <2>4 DEF ReleaseInv
  <1>7. CASE EventCompletes
    BY <1>7, <1>EventRelease
  <1>8. CASE ProducerAcquire
    BY <1>0, <1>8, <1>AcquireRelease
  <1>9. CASE ProducerTop \/ ProducerEndIteration \/ ProducerWake \/ ProducerScan
             \/ ProducerFetch \/ ProducerReleaseLease \/ UNCHANGED streamVars
    BY <1>1, <1>9 DEF ProducerTop, ProducerEndIteration, ProducerWake, ProducerScan,
       ProducerFetch, ProducerReleaseLease, streamVars, tableVars
  <1>10. ASSUME Abandon(visited, buffer), buffer # 0, UNCHANGED releases,
                pc \in {"fetch", "claim", "copy", "land", "skip"}
         PROVE  ReleaseInv'
    <2>1. visited \in ModuleTypes /\ buffer \in DOMAIN slots[visited]
      BY <1>10, BufferSlot
    <2>2. PICK t, i : t = visited /\ i = buffer
      OBVIOUS
    <2>3. /\ At(<<t, i>>).state = "FILLING" /\ Refs' = Refs /\ At(<<t, i>>)' = FreeSlot
          /\ \A q \in Refs : q # <<t, i>> => At(q)' = At(q)
      BY <1>0, <1>10, <2>1, <2>2, AbandonView
    <2>4. PendingKept
      BY <1>0, <2>3, PendingSlots
    <2>5. QED  BY <1>10, <2>4, <1>ReleaseKept
  <1>11. CASE ProducerFetchCancelled
    BY <1>1, <1>10, <1>11 DEF ProducerFetchCancelled, tableVars
  <1>12. CASE ProducerFail
    BY <1>1, <1>10, <1>12 DEF ProducerFail, tableVars
  <1>13. CASE ProducerClaim /\ ClaimSkip(visited, buffer)
    BY <1>1, <1>10, <1>13 DEF ProducerClaim, ClaimSkip, tableVars
  <1>14. CASE ProducerClaim /\ ClaimCopy(visited, buffer)
    <2>1. visited \in ModuleTypes /\ buffer \in DOMAIN slots[visited]
      BY <1>14, ClaimBuffer DEF TableInv, SlotsInv
    <2>2. PICK t, i : t = visited /\ i = buffer
      OBVIOUS
    <2>3. /\ <<t, i>> \in Refs /\ At(<<t, i>>).state = "FILLING" /\ At(<<t, i>>) \in Slot
          /\ Refs' = Refs
          /\ At(<<t, i>>)'.state = "FILLING"
          /\ \A q \in Refs : q # <<t, i>> => At(q)' = At(q)
      BY <1>0, <1>14, <2>1, <2>2, ClaimView DEF TableInv, ScheduleInv
    <2>4. QED  BY <1>14, <2>3, PendingSlots, <1>ReleaseKept DEF ProducerClaim
  <1>15. CASE ProducerFinish
    <2>1. CASE pc = "land" /\ Landed(visited, buffer)
      <3>1. visited \in ModuleTypes /\ buffer \in DOMAIN slots[visited]
        BY <1>0, <2>1, LandBuffer
      <3>2. PICK t, i : t = visited /\ i = buffer
        OBVIOUS
      <3>3. /\ At(<<t, i>>).state = "FILLING" /\ At(<<t, i>>) \in Slot
            /\ Refs' = Refs
            /\ At(<<t, i>>)' = FreeSlot \/ At(<<t, i>>)'.state = "PRESENT"
            /\ \A q \in Refs : q # <<t, i>> => At(q)' = At(q)
        BY <1>0, <2>1, <3>1, <3>2, LandedView
      <3>4. At(<<t, i>>)'.state # "PENDING_RELEASE"
        BY <3>3, SlotFields
      <3>5. QED  BY <1>15, <3>3, <3>4, PendingSlots, <1>ReleaseKept DEF ProducerFinish
    <2>2. CASE RetireSkip(visited)
      BY <1>1, <1>15, <2>2 DEF ProducerFinish, RetireSkip
    <2>3. QED  BY <1>15, <2>1, <2>2 DEF ProducerFinish
  <1>16. CASE DropPasses
    <2>1. releases' = {} /\ AbortPasses(Distributed)
      BY <1>16 DEF DropPasses
    <2>2. \A r \in Refs' : At(r)' = FreeSlot
      BY <1>0, <2>1, AllSlotsFree
    <2>3. QED  BY <1>0, <2>1, <2>2 DEF ReleaseInv
  <1>17. CASE ResetRing
    <2>1. CASE releases' = {} /\ \E layout \in Layouts : ResetTypes(layout)
      <3>1. \A r \in Refs' : At(r)' = FreeSlot
        BY <1>0, <2>1, AllSlotsFree
      <3>2. QED  BY <1>0, <2>1, <3>1 DEF ReleaseInv
    <2>2. QED  BY <1>1, <1>17, <2>1 DEF ResetRing, tableVars
  <1>18. QED
    BY <1>2, <1>3, <1>4, <1>5, <1>6, <1>7, <1>8, <1>9, <1>11, <1>12, <1>13, <1>14, <1>15,
       <1>16, <1>17 DEF StreamNext, Producer, Worker, ProducerClaim

-----------------------------------------------------------------------------
(* The ring. *)

\* acquireEmptyBuffer(): the ring it leaves.
LEMMA AcquireRing ==
    ASSUME SlotsInv, RingInv, ReleaseInv, ThreadInv, ProducerAcquire
    PROVE  /\ RingInv'
           /\ pc' = "scan" \/ (pc' = "fetch" /\ UNCHANGED visit)
           /\ pc' = "fetch" => /\ <<visited, buffer>>' \in Refs'
                               /\ At(<<visited, buffer>>)' = Reserving
  <1> DEFINE G == DoneRefs
             ring == Reclaimed(G)
  <1>1. /\ FreeSlot.state = "FREE" /\ Reserving.state = "FILLING"
        /\ \A r \in Refs : At(r).state # "FILLING"
    BY SlotFields DEF RingInv, Filling, ProducerAcquire
  <1>2. G \in SUBSET Refs /\ \A r \in G : At(r).state = "PENDING_RELEASE"
    BY DonePending
  <1>3. CASE slots' = ring /\ pc' = "scan"
    <2>1. Refs' = Refs /\ \A q \in Refs : At(q)' = IF q \in G THEN FreeSlot ELSE At(q)
      BY <1>3, ReclaimView
    <2> HIDE DEF G
    <2>2. RingInv'
      BY <1>1, <2>1 DEF RingInv
    <2>3. QED  BY <1>3, <2>2
  <1>4. CASE /\ FreeIn(ring, visited) # {} /\ slots' = AfterReserve(ring, visited)
             /\ buffer' = Reserved(ring, visited) /\ pc' = "fetch" /\ visit' = visit
    <2>0. ring = Reclaimed(G)
      OBVIOUS
    <2> HIDE DEF G, ring
    <2>1. visited \in ModuleTypes
      BY VisitedType DEF ThreadInv, Busy, AtCursor, ProducerAcquire
    <2>2. PICK r : r = <<visited, Reserved(ring, visited)>>
      OBVIOUS
    <2>3. /\ r \in Refs /\ Refs' = Refs
          /\ \A q \in Refs : At(q)' = IF q = r THEN Reserving
                                      ELSE IF q \in G THEN FreeSlot ELSE At(q)
      BY <1>2, <1>4, <2>0, <2>1, <2>2, AcquireView, SMTT(30)
    <2>4. r = <<visited', buffer'>> /\ Filling'
      BY <1>4, <2>2 DEF visited, Filling
    <2>5. RingInv'
      BY <1>1, <2>3, <2>4 DEF RingInv
    <2>6. At(<<visited, buffer>>)' = Reserving
      BY <2>3, <2>4 DEF At
    <2>7. QED  BY <1>4, <2>3, <2>4, <2>5, <2>6
  <1>5. \/ slots' = ring /\ pc' = "scan"
        \/ /\ FreeIn(ring, visited) # {} /\ slots' = AfterReserve(ring, visited)
           /\ buffer' = Reserved(ring, visited) /\ pc' = "fetch" /\ visit' = visit
    BY DEF ProducerAcquire, DoneRefs
  <1>6. QED  BY ONLY <1>3, <1>4, <1>5, ZenonT(60)

\* Only the producer's slot is ever FILLING, and an occupied slot has a name.
LEMMA RingNext ==
    ASSUME TableInv, ThreadInv, ProducerInv, RingInv, ReleaseInv, [StreamNext]_streamVars
    PROVE  RingInv'
  \* A step that leaves the slots alone, and the producer's slot to the producer.
  <1>RingKept. ASSUME RingInv, UNCHANGED slots,
                      \A r \in Refs : At(r).state = "FILLING" => Filling' /\ r = <<visited', buffer'>>
               PROVE  RingInv'
    <2> USE <1>RingKept
    <2>1. Refs' = Refs /\ \A r \in Refs : At(r)' = At(r)
      BY SameSlots
    <2>2. QED  BY <2>1 DEF RingInv
  \* An empty ring.
  <1>RingEmpty. ASSUME \A r \in Refs' : At(r)' = FreeSlot
                PROVE  RingInv'
    BY <1>RingEmpty, SlotFields DEF RingInv
  <1>0. SlotsInv /\ SlotsTyped /\ FreeSlot.state = "FREE"
    BY SlotFields DEF TableInv, SlotsInv
  <1>1. CASE UNCHANGED slots /\ ~Filling
    BY <1>1, <1>RingKept DEF RingInv
  <1>2. CASE UNCHANGED <<slots, visit, buffer>> /\ Filling'
    BY <1>2, <1>RingKept DEF RingInv, visited
  <1>3. CASE WorkerCall
    <2>1. SlotsBeside /\ UNCHANGED <<pc, visit, buffer>>
      BY <1>3, WorkerCallTable, TableCallStep DEF producerVars
    <2>2. ASSUME NEW r \in Refs
          PROVE  /\ At(r)'.state = "FILLING" => At(r).state = "FILLING"
                 /\ At(r)'.state \in {"PRESENT", "LEASED", "PENDING_RELEASE"} => At(r)'.name # None
      <3>1. At(r).state \in SlotStates
        BY <1>0, SlotTyped DEF Slot
      <3>2. SlotBeside(At(r), At(r)')
        BY <2>1 DEF SlotsBeside
      <3>3. QED  BY <3>1, <3>2 DEF SlotBeside, SlotStates, RingInv
    <2>3. QED  BY <2>1, <2>2 DEF RingInv, SlotsBeside, Filling, visited
  <1>4. CASE ProducerTop \/ ProducerEndIteration \/ ProducerWake \/ ProducerScan
    BY <1>1, <1>4 DEF ProducerTop, ProducerEndIteration, ProducerWake, ProducerScan,
       tableVars, Filling
  <1>5. CASE ProducerFetch \/ ProducerReleaseLease
    BY <1>1, <1>2, <1>5 DEF ProducerFetch, ProducerReleaseLease, tableVars, Filling
  <1>6. CASE ProducerAcquire
    BY <1>0, <1>6, AcquireRing
  <1>7. ASSUME UNCHANGED slots, buffer = 0 PROVE RingInv'
    BY <1>0, <1>7, ZeroIsNoSlot, <1>RingKept DEF RingInv
  <1>8. ASSUME Abandon(visited, buffer), buffer # 0,
               pc \in {"fetch", "claim", "copy", "land", "skip"}
        PROVE  RingInv'
    <2>1. visited \in ModuleTypes /\ buffer \in DOMAIN slots[visited]
      BY <1>8, BufferSlot
    <2>2. PICK t, i : t = visited /\ i = buffer
      OBVIOUS
    <2>3. /\ Refs' = Refs /\ At(<<t, i>>)' = FreeSlot
          /\ \A q \in Refs : q # <<t, i>> => At(q)' = At(q)
      BY <1>0, <1>8, <2>1, <2>2, AbandonView
    <2>4. QED  BY <1>0, <2>2, <2>3 DEF RingInv
  <1>9. CASE ProducerFetchCancelled
    BY <1>7, <1>8, <1>9 DEF ProducerFetchCancelled, tableVars
  <1>10. CASE ProducerFail
    <2>1. CASE buffer # 0 /\ slots[visited][buffer].state = "FILLING"
      BY <1>8, <1>10, <2>1 DEF ProducerFail
    <2>2. CASE buffer # 0 /\ slots[visited][buffer].state # "FILLING" /\ UNCHANGED slots
      <3>1. At(<<visited, buffer>>) = slots[visited][buffer]
        BY DEF At
      <3>2. \A r \in Refs : At(r).state # "FILLING"
        BY <2>2, <3>1 DEF RingInv
      <3>3. QED  BY <2>2, <3>2, <1>RingKept
    <2>3. QED  BY <1>7, <1>10, <2>1, <2>2 DEF ProducerFail, tableVars
  <1>11. CASE ProducerClaim /\ ClaimSkip(visited, buffer)
    BY <1>7, <1>8, <1>11 DEF ProducerClaim, ClaimSkip, tableVars
  <1>12. CASE ProducerClaim /\ ClaimCopy(visited, buffer)
    <2>1. visited \in ModuleTypes /\ buffer \in DOMAIN slots[visited]
      BY <1>0, <1>12, ClaimBuffer
    <2>2. PICK t, i : t = visited /\ i = buffer
      OBVIOUS
    <2>3. /\ Refs' = Refs /\ At(<<t, i>>)'.state = "FILLING"
          /\ \A q \in Refs : q # <<t, i>> => At(q)' = At(q)
      BY <1>0, <1>12, <2>1, <2>2, ClaimView DEF TableInv, ScheduleInv
    <2>4. pc' = "copy" /\ visited' = t /\ buffer' = i
      BY <1>12, <2>2 DEF ProducerClaim, ClaimCopy, ClaimSkip, visited
    <2>5. QED  BY <2>2, <2>3, <2>4 DEF RingInv, Filling
  <1>13. CASE ProducerFinish
    <2>1. CASE pc = "land" /\ Landed(visited, buffer)
      <3>1. visited \in ModuleTypes /\ buffer \in DOMAIN slots[visited]
        BY <1>0, <2>1, LandBuffer
      <3>2. PICK t, i : t = visited /\ i = buffer
        OBVIOUS
      <3>3. /\ Refs' = Refs /\ At(<<t, i>>).name # None
            /\ \/ At(<<t, i>>)' = FreeSlot
               \/ At(<<t, i>>)'.state = "PRESENT" /\ At(<<t, i>>)'.name = At(<<t, i>>).name
            /\ \A q \in Refs : q # <<t, i>> => At(q)' = At(q)
        BY <1>0, <2>1, <3>1, <3>2, LandedView
      <3>4. QED  BY <1>0, <3>2, <3>3 DEF RingInv
    <2>2. CASE pc = "retire" /\ RetireSkip(visited)
      BY <1>1, <2>2 DEF RetireSkip, Filling
    <2>3. QED  BY <1>13, <2>1, <2>2 DEF ProducerFinish
  <1>14. CASE JoinProducer \/ InstallPhase
    <2>1. ~Filling
      BY <1>14 DEF JoinProducer, InstallPhase, ThreadInv, Filling
    <2>2. QED  BY <1>1, <1>14, <2>1 DEF JoinProducer, InstallPhase, Install, tableVars
  <1>15. CASE DropPasses
    BY <1>0, <1>15, AllSlotsFree, <1>RingEmpty DEF DropPasses
  <1>16. CASE ResetRing
    <2>1. ~Filling
      BY <1>16 DEF ResetRing, ThreadInv, Filling
    <2>2. QED  BY <1>0, <1>1, <1>16, <2>1, AllSlotsFree, <1>RingEmpty DEF ResetRing, tableVars
  <1>17. CASE UNCHANGED streamVars
    BY <1>17, <1>RingKept DEF streamVars, tableVars, producerVars, RingInv, Filling, visited
  <1>18. QED
    BY <1>3, <1>4, <1>5, <1>6, <1>9, <1>10, <1>11, <1>12, <1>13, <1>14, <1>15, <1>16, <1>17
       DEF StreamNext, Producer, Worker, WorkerCall, ProducerClaim

-----------------------------------------------------------------------------
(* The producer. *)

\* The producer's slot, module and pass stay what it thinks they are.
LEMMA ProducerNext ==
    ASSUME TableInv, TableInv', ThreadInv, ProducerInv, RingInv, ReleaseInv,
           [StreamNext]_streamVars
    PROVE  ProducerInv'
  \* The worker's calls leave the producer what it relies on.
  <1>ProducerBeside. ASSUME TableInv, TableInv', ThreadInv, ProducerInv, ReleaseInv, WorkerCall
                     PROVE  ProducerInv'
    <2> USE <1>ProducerBeside
    \* An armed pass stays armed while the cursor is in it: only a pass every cursor
    \* left is ended.
    <2>PassStaysOpen. ASSUME TableInv, TableInv', NEW t \in ModuleTypes, lists[t] # <<>>,
                             cursors[t].pass \in Open, UNCHANGED <<lists, cursors>>,
                             nextPass' \in {nextPass, nextPass + 1}
                      PROVE  cursors[t].pass \in Open'
      <3> USE <2>PassStaysOpen
      <3>1. cursors[t].pass < nextPass /\ cursors[t].pass \in Nat /\ nextPass \in Nat
        <4>1. ScheduleTyped /\ DequeConsecutive
          BY DEF TableInv, ScheduleInv
        <4>2. Open = (nextPass - Len(openPasses))..(nextPass - 1)
          BY <4>1, OpenInterval
        <4>3. nextPass \in Nat /\ Len(openPasses) \in Nat /\ cursors[t].pass \in Nat
          BY <4>1, SMTT(30) DEF ScheduleTyped
        <4>4. QED  BY <4>2, <4>3, SMTT(30)
      <3>2. cursors[t].pass # nextPass'
        BY <3>1, SMTT(30)
      <3>3. cursors'[t].pass \in Open' \union {nextPass'}
        BY DEF TableInv, ScheduleInv, PassesConsecutive
      <3>4. QED  BY <3>2, <3>3
    <2>1. /\ SlotsBeside /\ UNCHANGED <<pc, visit, buffer, next, lists, cursors>>
          /\ pendingSkips \subseteq pendingSkips'
          /\ nextPass' \in {nextPass, nextPass + 1}
      BY WorkerCallTable, TableCallStep DEF producerVars
    <2>2. UNCHANGED visited
      BY <2>1 DEF visited
    <2>3. ASSUME pc \in AtCursor
          PROVE  /\ lists'[visited] # <<>> /\ next.module = CursorModule(visited)'
                 /\ next.pass = cursors'[visited].pass /\ next.pass \in Open'
      <3>1. visited \in ModuleTypes
        BY <2>3, VisitedType DEF ThreadInv, Busy
      <3>2. /\ lists[visited] # <<>> /\ next.module = CursorModule(visited)
            /\ next.pass = cursors[visited].pass /\ next.pass \in Open
        BY <2>3 DEF ProducerInv
      <3>3. next.pass \in Open'
        BY <2>1, <3>1, <3>2, <2>PassStaysOpen
      <3>4. QED  BY <2>1, <2>2, <3>2, <3>3 DEF CursorModule
    <2>4. PICK r : r = <<visited, buffer>>
      OBVIOUS
    <2>5. Refs' = Refs /\ (r \in Refs => SlotBeside(At(r), At(r)'))
      BY <2>1 DEF SlotsBeside
    <2>6. /\ r \in Refs /\ At(r) = Reserving => At(r)' = Reserving
          /\ r \in Refs /\ At(r).state = "FILLING" =>
               At(r)'.state = "FILLING" /\ At(r)'.name = At(r).name /\ At(r)'.pass = At(r).pass
      BY <2>5, SlotFields DEF SlotBeside
    <2>7. At(r)' = At(<<visited, buffer>>)'
      BY <2>1, <2>2, <2>4 DEF At
    <2>8. QED  BY <2>1, <2>2, <2>3, <2>4, <2>5, <2>6, <2>7 DEF ProducerInv
  \* Claims, too.
  <1>ProducerClaims. ASSUME TableInv, ThreadInv, ProducerInv, ProducerClaim
                     PROVE  ProducerInv'
    <2> USE <1>ProducerClaims
    <2>0. SlotsInv /\ SlotsTyped
      BY DEF TableInv, SlotsInv
    <2>1. /\ UNCHANGED <<visit, buffer, next>> /\ UNCHANGED visited /\ pc = "claim"
          /\ UNCHANGED <<lists, pendingSkips, openPasses>> /\ UNCHANGED Open
      BY DEF ProducerClaim, ClaimCopy, ClaimSkip, Abandon, tableVars, visited, Open
    <2>2. PICK t, i : t = visited /\ i = buffer
      OBVIOUS
    <2>3. /\ lists[t] # <<>> /\ next.module = CursorModule(t)
          /\ next.pass = cursors[t].pass /\ next.pass \in Open
      BY <2>1, <2>2 DEF ProducerInv, AtCursor
    <2>4. CASE ClaimCopy(visited, buffer)
      <3>1. t \in ModuleTypes /\ i \in DOMAIN slots[t]
        BY <2>0, <2>2, <2>4, ClaimBuffer
      <3>2. /\ <<t, i>> \in Refs /\ Refs' = Refs
            /\ At(<<t, i>>)'.state = "FILLING" /\ At(<<t, i>>)'.name = CursorModule(t)
            /\ At(<<t, i>>)'.pass = cursors[t].pass /\ CursorModule(t) # None
        BY <2>0, <2>2, <2>4, <3>1, ClaimView, NoneAssumption DEF TableInv, ScheduleInv
      <3>3. pc' = "copy"
        BY <2>4 DEF ProducerClaim, ClaimCopy, ClaimSkip
      <3>4. At(<<t, i>>)' = At(<<visited, buffer>>)'
        BY <2>1, <2>2 DEF At
      <3>5. QED  BY <2>1, <2>2, <2>3, <3>2, <3>3, <3>4 DEF ProducerInv, AtCursor
    <2>5. CASE ClaimSkip(visited, buffer)
      <3>1. pc' = "skip"
        BY <2>5 DEF ProducerClaim, ClaimCopy, ClaimSkip
      <3>2. /\ <<next.pass, next.module>> \in pendingSkips /\ UNCHANGED cursors
            /\ UNCHANGED CursorModule(t)
        BY <2>1, <2>2, <2>3, <2>5, ProductionKinds DEF ClaimSkip, Abandon, tableVars, CursorModule
      <3>3. buffer = 0 \/ (buffer # 0 /\ <<visited, buffer>> \in Refs')
        <4>1. CASE buffer # 0
          <5>1. t \in ModuleTypes /\ i \in DOMAIN slots[t] /\ <<t, i>> \in Refs
            BY <2>1, <2>2, <4>1, BufferSlot
          <5>2. Abandon(t, i)
            BY <2>2, <2>5, <4>1 DEF ClaimSkip
          <5>3. Refs' = Refs
            BY <2>0, <5>1, <5>2, AbandonView
          <5>4. QED  BY <2>2, <4>1, <5>1, <5>3
        <4>2. QED  BY <4>1
      <3>4. QED  BY <2>1, <2>2, <2>3, <3>1, <3>2, <3>3 DEF ProducerInv, AtCursor, CursorModule
    <2>6. QED  BY <2>4, <2>5 DEF ProducerClaim
  <1>0. SlotsInv /\ SlotsTyped
    BY DEF TableInv, SlotsInv
  <1>1. CASE pc' \notin Busy
    BY <1>1 DEF ProducerInv, Busy, AtCursor
  <1>2. CASE ProducerTop \/ ProducerEndIteration \/ ProducerWake \/ ProducerFetchCancelled
             \/ ProducerFinish \/ ProducerFail \/ JoinProducer \/ DropPasses \/ InstallPhase
    BY <1>1, <1>2 DEF ProducerTop, ProducerEndIteration, ProducerWake, ProducerFetchCancelled,
       ProducerFinish, ProducerFail, JoinProducer, DropPasses, InstallPhase, ThreadInv, Busy,
       AtCursor
  <1>3. CASE ResetRing
    BY <1>1, <1>3 DEF ResetRing, producerVars, ThreadInv, Busy, AtCursor
  <1>4. CASE WorkerCall
    BY <1>4, <1>ProducerBeside
  <1>5. CASE ProducerScan
    <2>1. /\ UNCHANGED <<slots, lists, cursors, openPasses, pendingSkips>>
          /\ UNCHANGED Open
      BY <1>5 DEF ProducerScan, tableVars, Open
    <2>2. CASE pc' = pc
      BY <1>1, <1>5, <2>2 DEF ProducerScan, Busy, AtCursor
    <2>3. CASE pc' # pc
      <3>0. /\ NextProduction(visited) \in {"COPY", "SKIP"} /\ visit' = visit
            /\ next' = [module |-> CursorModule(visited), pass |-> cursors[visited].pass]
            /\ IF NextProduction(visited) = "COPY" THEN pc' = "acquire"
               ELSE pc' = "fetch" /\ buffer' = 0
        BY <1>5, <2>3 DEF ProducerScan
      <3>1. /\ NextProduction(visited) \in {"COPY", "SKIP"} /\ visit' = visit
            /\ next'.module = CursorModule(visited) /\ next'.pass = cursors[visited].pass
            /\ \/ pc' = "acquire"
               \/ pc' = "fetch" /\ buffer' = 0 /\ NextProduction(visited) = "SKIP"
        BY <3>0
      <3>2. visited' = visited /\ CursorModule(visited)' = CursorModule(visited)
        BY <2>1, <3>1 DEF visited, CursorModule
      <3>3. QED  BY <2>1, <3>1, <3>2, ProductionKinds DEF ProducerInv, AtCursor
    <2>4. QED  BY <2>2, <2>3
  <1>6. CASE ProducerAcquire
    <2>1. /\ UNCHANGED <<lists, cursors, openPasses, pendingSkips, next>> /\ pc = "acquire"
          /\ UNCHANGED Open
      BY <1>6 DEF ProducerAcquire, Open
    <2>2. /\ pc' = "scan" \/ (pc' = "fetch" /\ UNCHANGED visit)
          /\ pc' = "fetch" => /\ <<visited, buffer>>' \in Refs'
                              /\ At(<<visited, buffer>>)' = Reserving
      BY <1>0, <1>6, AcquireRing
    <2>3. CASE pc' = "scan"
      BY <1>1, <2>3 DEF Busy, AtCursor
    <2>4. CASE pc' = "fetch" /\ UNCHANGED visit
      <3>1. visited' = visited /\ CursorModule(visited)' = CursorModule(visited)
        BY <2>1, <2>4 DEF visited, CursorModule
      <3>2. QED  BY <2>1, <2>2, <2>4, <3>1 DEF ProducerInv, AtCursor
    <2>5. QED  BY <2>2, <2>3, <2>4
  <1>7. CASE ProducerClaim
    BY <1>7, <1>ProducerClaims
  <1>8. CASE ProducerFetch \/ ProducerReleaseLease \/ UNCHANGED streamVars
    <2>1. /\ UNCHANGED <<slots, lists, cursors, openPasses, pendingSkips, next, visit, buffer>>
      BY <1>8 DEF ProducerFetch, ProducerReleaseLease, streamVars, tableVars, producerVars
    <2>2. /\ visited' = visited /\ CursorModule(visited)' = CursorModule(visited)
          /\ Open' = Open /\ Refs' = Refs
          /\ At(<<visited, buffer>>)' = At(<<visited, buffer>>)
      BY <2>1 DEF visited, CursorModule, Open, Refs, At
    <2>3. \/ pc' = pc \/ (pc = "fetch" /\ pc' = "claim") \/ (pc = "copy" /\ pc' = "land")
          \/ (pc = "skip" /\ pc' = "retire")
      BY <1>8 DEF ProducerFetch, ProducerReleaseLease, streamVars, producerVars
    <2>4. QED  BY <2>1, <2>2, <2>3 DEF ProducerInv, AtCursor
  <1>9. QED
    BY <1>2, <1>3, <1>4, <1>5, <1>6, <1>7, <1>8 DEF StreamNext, Producer, Worker, WorkerCall

-----------------------------------------------------------------------------
(* The queues. *)

\* A list is its own rotation to its first position.
LEMMA Unrotated ==
    ASSUME NEW l \in Seq(Modules)
    PROVE  RotatedTo(l, l, 1)
  <1>1. Len(l) \in Nat
    BY SMTT(30)
  <1>2. ASSUME NEW i \in 1..Len(l)
        PROVE  l[i] = l[IF 1 + i - 1 <= Len(l) THEN 1 + i - 1 ELSE 1 + i - 1 - Len(l)]
    <2>1. 1 + i - 1 = i /\ i <= Len(l)
      BY <1>1, SMTT(30)
    <2>2. QED  BY <2>1
  <1>3. QED  BY <1>2 DEF RotatedTo

\* The head of a rotation to k is the element k.
LEMMA RotationHead ==
    ASSUME NEW l \in Seq(Modules), NEW k \in 1..Len(l), NEW q, RotatedTo(q, l, k)
    PROVE  q # <<>> /\ Head(q) = l[k]
  <1>1. /\ q \in Seq(Modules) /\ Len(q) = Len(l) /\ Len(l) \in Nat /\ Len(l) >= 1
        /\ q[1] = l[IF k + 1 - 1 <= Len(q) THEN k + 1 - 1 ELSE k + 1 - 1 - Len(q)]
    BY SMTT(30) DEF RotatedTo
  <1>2. q[1] = l[k]
    BY <1>1, SMTT(30)
  <1>3. QED  BY <1>1, <1>2, SMTT(30)

\* The queues stay at the cursors.
LEMMA QueueNext ==
    ASSUME TableInv, ThreadInv, ProducerInv, ReleaseInv, QueueInv, [StreamNext]_streamVars
    PROVE  QueueInv'
  \* The queue's position stays with the cursor while no skip is at hand.
  <1>QueueKept. ASSUME QueueInv, UNCHANGED <<queue, lists, cursors, failed>>,
                       \/ pc \notin {"skip", "retire"} /\ pc' \notin {"skip", "retire"}
                       \/ pc \in {"skip", "retire"} /\ pc' \in {"skip", "retire"} /\ UNCHANGED visit
                PROVE  QueueInv'
    <2> USE <1>QueueKept
    <2>1. \A t : Advanced(t)' = Advanced(t)
      BY DEF Advanced
    <2>2. \A t : QueuePosition(t)' = QueuePosition(t)
      BY <2>1 DEF QueuePosition, visited
    <2>3. QED  BY <2>2 DEF QueueInv
  \* A claim moves the head of the type's queue to its tail.
  <1>QueueClaimed. ASSUME TableInv, ThreadInv, ProducerInv, QueueInv, ProducerClaim
                   PROVE  QueueInv'
    <2> USE <1>QueueClaimed
    \* Moving the head to the tail rotates the list by one more.
    <2>RotateOnce. ASSUME NEW l \in Seq(Modules), NEW k \in 1..Len(l), NEW q, RotatedTo(q, l, k)
                   PROVE  RotatedTo(Rotate(q), l, IF k >= Len(l) THEN 1 ELSE k + 1)
      <3> USE <2>RotateOnce
      <3> DEFINE n == Len(l)
                 j == IF k >= n THEN 1 ELSE k + 1
                 r == Rotate(q)
      <3>1. /\ q \in Seq(Modules) /\ Len(q) = n /\ n \in Nat /\ n >= 1 /\ k \in 1..n
            /\ \A i \in 1..n : q[i] = l[IF k + i - 1 <= n THEN k + i - 1 ELSE k + i - 1 - n]
        BY SMTT(30) DEF RotatedTo
      <3>2. /\ r \in Seq(Modules) /\ Len(r) = n
            /\ \A i \in 1..n : r[i] = IF i = n THEN q[1] ELSE q[i + 1]
        <4>1. /\ Tail(q) \in Seq(Modules) /\ Len(Tail(q)) = n - 1 /\ Head(q) = q[1]
              /\ Head(q) \in Modules
              /\ \A i \in 1..(n - 1) : Tail(q)[i] = q[i + 1]
          BY <3>1, SMTT(30)
        <4>2. PICK u \in Seq(Modules), h \in Modules : u = Tail(q) /\ h = Head(q)
          BY <4>1
        <4>3. /\ Append(u, h) \in Seq(Modules) /\ Len(Append(u, h)) = Len(u) + 1
              /\ \A i \in 1..Len(u) : Append(u, h)[i] = u[i]
              /\ Append(u, h)[Len(u) + 1] = h
          BY SMTT(30)
        <4>4. Len(u) = n - 1 /\ Len(u) + 1 = n
          BY <3>1, <4>1, <4>2, SMTT(30)
        <4>5. r = Append(u, h)
          BY <4>2 DEF Rotate
        <4> HIDE DEF r, n
        <4>6. ASSUME NEW i \in 1..n PROVE r[i] = IF i = n THEN q[1] ELSE q[i + 1]
          <5>1. CASE i = n
            BY <4>1, <4>2, <4>3, <4>4, <4>5, <5>1
          <5>2. CASE i # n
            <6>1. i \in 1..(n - 1) /\ i \in 1..Len(u)
              BY <3>1, <4>4, <5>2, SMTT(30)
            <6>2. QED  BY <4>1, <4>2, <4>3, <4>5, <5>2, <6>1
          <5>3. QED  BY <5>1, <5>2
        <4>7. QED  BY <4>3, <4>4, <4>5, <4>6
      <3> HIDE DEF r
      <3>3. ASSUME NEW i \in 1..n
            PROVE  r[i] = l[IF j + i - 1 <= n THEN j + i - 1 ELSE j + i - 1 - n]
        <4>1. CASE i = n
          <5>1. r[i] = l[k]
            BY <3>1, <3>2, <4>1, SMTT(30)
          <5>2. (IF j + i - 1 <= n THEN j + i - 1 ELSE j + i - 1 - n) = k
            BY <3>1, <4>1, SMTT(30)
          <5>3. QED  BY <5>1, <5>2
        <4>2. CASE i # n
          <5>1. i + 1 \in 1..n
            BY <3>1, <4>2, SMTT(30)
          <5>2. r[i] = l[IF k + (i + 1) - 1 <= n THEN k + (i + 1) - 1 ELSE k + (i + 1) - 1 - n]
            BY <3>1, <3>2, <4>2, <5>1
          <5>3. (IF j + i - 1 <= n THEN j + i - 1 ELSE j + i - 1 - n)
                  = (IF k + (i + 1) - 1 <= n THEN k + (i + 1) - 1 ELSE k + (i + 1) - 1 - n)
            BY <3>1, <5>1, SMTT(30)
          <5>4. QED  BY <5>2, <5>3
        <4>3. QED  BY <4>1, <4>2
      <3>4. QED  BY <3>2, <3>3 DEF RotatedTo, r
    <2>1. /\ pc = "claim" /\ UNCHANGED <<visit, lists, failed>> /\ UNCHANGED visited
          /\ queue' = [queue EXCEPT ![visited] = Rotate(@)]
          /\ \/ pc' = "copy" /\ cursors' = [cursors EXCEPT ![visited] = Advanced(visited)]
             \/ pc' = "skip" /\ cursors' = cursors
      BY DEF ProducerClaim, ClaimCopy, ClaimSkip, Abandon, tableVars, visited
    <2>2. PICK t : t = visited
      OBVIOUS
    <2>3. t \in ModuleTypes /\ lists[t] # <<>> /\ ~failed
      BY <2>1, <2>2, VisitedType DEF ThreadInv, ProducerInv, Busy, AtCursor
    <2>4. RotatedTo(queue[t], lists[t], cursors[t].position)
      BY <2>1, <2>3 DEF QueueInv, QueuePosition
    <2>5. RotatedTo(Rotate(queue[t]), lists[t], Advanced(t).position)
      BY <2>3, <2>4, AdvancedCursor, <2>RotateOnce DEF TableInv
    <2>6. /\ queue' \in [ModuleTypes -> Seq(Modules)] /\ queue'[t] = Rotate(queue[t])
          /\ \A u \in ModuleTypes : u # t => queue'[u] = queue[u]
      <3>1. Rotate(queue[t]) \in Seq(Modules)
        BY <2>5 DEF RotatedTo
      <3>2. QED  BY <2>1, <2>2, <2>3, <3>1 DEF QueueInv
    <2>7. QueuePosition(t)' = Advanced(t).position
      <3>1. CASE pc' = "copy" /\ cursors' = [cursors EXCEPT ![visited] = Advanced(visited)]
        <4>1. cursors'[t] = Advanced(t)
          BY <2>2, <2>3, <3>1, AdvancedCursors DEF TableInv, ScheduleInv
        <4>2. QED  BY <3>1, <4>1 DEF QueuePosition
      <3>2. CASE pc' = "skip" /\ cursors' = cursors
        <4>1. Advanced(t)' = Advanced(t)
          BY <2>1, <3>2 DEF Advanced
        <4>2. QED  BY <2>1, <2>2, <3>2, <4>1 DEF QueuePosition
      <3>3. QED  BY <2>1, <3>1, <3>2
    <2>8. ASSUME NEW u \in ModuleTypes, u # t PROVE QueuePosition(u)' = QueuePosition(u)
      <3>1. cursors'[u] = cursors[u]
        BY <2>1, <2>2, <2>3, <2>8, AdvancedCursors DEF TableInv, ScheduleInv
      <3>2. QED  BY <2>1, <2>2, <2>8, <3>1 DEF QueuePosition
    <2>9. ASSUME NEW u \in ModuleTypes
          PROVE  RotatedTo(queue'[u], lists'[u], QueuePosition(u)')
      BY <2>1, <2>3, <2>5, <2>6, <2>7, <2>8 DEF QueueInv
    <2>10. QED  BY <2>6, <2>9 DEF QueueInv
  <1>1. CASE WorkerCall
    <2>1. UNCHANGED <<pc, visit, failed, queue, lists, cursors>>
      BY <1>1, WorkerCallTable, TableCallStep DEF producerVars
    <2>2. QED  BY <2>1, <1>QueueKept
  <1>2. CASE ProducerTop \/ ProducerEndIteration \/ ProducerWake \/ ProducerScan
             \/ ProducerAcquire \/ ProducerFetch \/ ProducerReleaseLease \/ JoinProducer
    BY <1>2, <1>QueueKept DEF ProducerTop, ProducerEndIteration, ProducerWake, ProducerScan,
       ProducerAcquire, ProducerFetch, ProducerReleaseLease, JoinProducer, tableVars
  <1>3. CASE ProducerFetchCancelled \/ UNCHANGED streamVars
    BY <1>3, <1>QueueKept DEF ProducerFetchCancelled, Abandon, tableVars, streamVars, producerVars
  <1>4. CASE ProducerFail
    BY <1>4 DEF ProducerFail, QueueInv
  <1>5. CASE ProducerClaim
    BY <1>5, <1>QueueClaimed
  <1>6. CASE ProducerFinish
    <2>1. CASE pc = "land" /\ Landed(visited, buffer)
      BY <1>6, <2>1, <1>QueueKept DEF ProducerFinish, Landed
    <2>2. CASE pc = "retire" /\ RetireSkip(visited)
      <3>1. /\ UNCHANGED <<queue, lists, failed>> /\ pc' = "scan"
            /\ cursors' = [cursors EXCEPT ![visited] = Advanced(visited)]
        BY <1>6, <2>2 DEF ProducerFinish, RetireSkip
      <3>2. PICK t : t = visited
        OBVIOUS
      <3>3. t \in ModuleTypes
        BY <2>2, <3>2, VisitedType DEF ThreadInv, Busy, AtCursor
      <3>4. cursors'[t] = Advanced(t) /\ \A u \in ModuleTypes : u # t => cursors'[u] = cursors[u]
        BY <3>1, <3>2, <3>3, AdvancedCursors DEF TableInv, ScheduleInv
      <3>5. ASSUME NEW u \in ModuleTypes PROVE QueuePosition(u)' = QueuePosition(u)
        <4>1. QueuePosition(u)' = cursors'[u].position
          BY <3>1 DEF QueuePosition
        <4>2. QueuePosition(t) = Advanced(t).position
              /\ (u # t => QueuePosition(u) = cursors[u].position)
          BY <2>2, <3>2 DEF QueuePosition
        <4>3. QED  BY <3>4, <4>1, <4>2
      <3>6. QED  BY <3>1, <3>5 DEF QueueInv
    <2>3. QED  BY <1>6, <2>1, <2>2 DEF ProducerFinish
  <1>7. CASE DropPasses \/ InstallPhase
    <2>1. /\ queue' = lists' /\ lists' \in [ModuleTypes -> Seq(Modules)]
          /\ \E n : cursors' = [t \in ModuleTypes |-> [pass |-> n, position |-> 1]]
      <3>1. CASE DropPasses
        BY <3>1 DEF DropPasses, AbortPasses, TableInv, ScheduleInv, ScheduleTyped
      <3>2. CASE InstallPhase
        <4>1. PICK tasks \in Tasks : Install(tasks) /\ queue' = tasks
          BY <3>2 DEF InstallPhase
        <4>2. tasks \in [ModuleTypes -> Seq(Modules)]
          BY TasksAssumption
        <4>3. QED  BY <4>1, <4>2 DEF Install
      <3>3. QED  BY <1>7, <3>1, <3>2
    <2>2. pc' \notin {"skip", "retire"}
      BY <1>7 DEF DropPasses, InstallPhase, ThreadInv
    <2>3. \A t \in ModuleTypes : cursors'[t].position = 1
      <3>1. PICK n : cursors' = [t \in ModuleTypes |-> [pass |-> n, position |-> 1]]
        BY <2>1
      <3>2. ASSUME NEW t \in ModuleTypes PROVE cursors'[t].position = 1
        <4>1. cursors'[t] = [pass |-> n, position |-> 1]
          BY ONLY <3>1, t \in ModuleTypes, ZenonT(60)
        <4>2. QED  BY ONLY <4>1, SMTT(30)
      <3>3. QED  BY <3>2
    <2>4. \A t \in ModuleTypes : QueuePosition(t)' = 1
      BY <2>2, <2>3 DEF QueuePosition
    <2>5. QED  BY <2>1, <2>4, Unrotated DEF QueueInv
  <1>8. CASE ResetRing
    BY <1>8, <1>QueueKept DEF ResetRing, ResetTypes, tableVars, producerVars
  <1>9. QED
    BY <1>1, <1>2, <1>3, <1>4, <1>5, <1>6, <1>7, <1>8 DEF StreamNext, Producer, Worker, WorkerCall

-----------------------------------------------------------------------------
(* The accounts of the passes. *)

\* Counts and passed modules are numbers.
LEMMA AccountTyped ==
    ASSUME ScheduleInv, NEW t \in ModuleTypes
    PROVE  /\ \A p \in Open : Counted(t, p) \in Nat
           /\ \A p : Passed(t, p) \in Nat /\ Copying(t, p) \in {0, 1}
  <1>1. ASSUME NEW p \in Open PROVE Counted(t, p) \in Nat
    <2>1. passCounts[p][t] \in [copied : Nat, skipped : Nat]
      BY DEF ScheduleInv, ScheduleTyped
    <2>2. QED  BY <2>1, SMTT(30) DEF Counted
  <1>2. ASSUME NEW p PROVE Passed(t, p) \in Nat
    <2>1. CASE lists[t] = <<>>
      BY <2>1, SMTT(30) DEF Passed
    <2>2. CASE lists[t] # <<>>
      <3>1. Len(lists[t]) \in Nat /\ cursors[t].position \in 1..Len(lists[t])
        BY <2>2, AdvancedCursor
      <3>2. QED  BY <3>1, SMTT(30) DEF Passed
    <2>3. QED  BY <2>1, <2>2
  <1>3. QED  BY <1>1, <1>2 DEF Copying

\* A copy in flight is of an open pass.
LEMMA CopyOpen ==
    ASSUME SlotsInv, ThreadInv, ProducerInv, pc \in {"copy", "land"}
    PROVE  /\ visited \in ModuleTypes /\ next.pass \in Open
           /\ slots[visited][buffer].pass = next.pass
           /\ slots[visited][buffer].state = "FILLING"
           /\ slots[visited][buffer].name = next.module
  <1>1. /\ <<visited, buffer>> \in Refs /\ At(<<visited, buffer>>).name # None
        /\ At(<<visited, buffer>>).pass = next.pass
        /\ At(<<visited, buffer>>).name = next.module
        /\ At(<<visited, buffer>>).state = "FILLING"
    BY DEF ProducerInv
  <1>2. next.pass \in Open
    BY <1>1 DEF SlotsInv, NamedBehindCursor
  <1>3. visited \in ModuleTypes /\ buffer # 0
    BY LandBuffer DEF SlotsInv
  <1>4. At(<<visited, buffer>>) = slots[visited][buffer]
    BY <1>3, BufferSlot
  <1>5. QED  BY <1>1, <1>2, <1>3, <1>4

\* The accounts stay balanced.
LEMMA AccountNext ==
    ASSUME TableInv, ThreadInv, ProducerInv, ReleaseInv, AccountInv, [StreamNext]_streamVars
    PROVE  AccountInv'
  \* A cursor that advances passes one module of its pass.
  <1>OnePassed. ASSUME ScheduleInv, NEW t \in ModuleTypes, lists[t] # <<>>, UNCHANGED lists,
                       cursors' = [cursors EXCEPT ![t] = Advanced(t)]
                PROVE  /\ \A p \in Nat : p # cursors[t].pass => Passed(t, p)' = Passed(t, p)
                       /\ \A p \in Nat : p = cursors[t].pass => Passed(t, p)' = Passed(t, p) + 1
                       /\ \A p \in Nat : \A u \in ModuleTypes : u # t => Passed(u, p)' = Passed(u, p)
    <2> USE <1>OnePassed
    <2>1. /\ Len(lists[t]) \in Nat
          /\ cursors[t].pass \in Nat /\ cursors[t].position \in 1..Len(lists[t])
          /\ cursors'[t].position = (IF cursors[t].position >= Len(lists[t]) THEN 1
                                     ELSE cursors[t].position + 1)
          /\ cursors'[t].pass = (IF cursors[t].position >= Len(lists[t])
                                 THEN cursors[t].pass + 1 ELSE cursors[t].pass)
      BY AdvancedCursor, AdvancedCursors DEF ScheduleInv
    <2>2. ASSUME NEW p \in Nat
          PROVE  /\ p # cursors[t].pass => Passed(t, p)' = Passed(t, p)
                 /\ p = cursors[t].pass => Passed(t, p)' = Passed(t, p) + 1
      <3>1. Passed(t, p) = IF cursors[t].pass < p THEN 0
                           ELSE IF cursors[t].pass = p THEN cursors[t].position - 1
                           ELSE Len(lists[t])
        BY DEF Passed
      <3>2. Passed(t, p)' = IF cursors'[t].pass < p THEN 0
                            ELSE IF cursors'[t].pass = p THEN cursors'[t].position - 1
                            ELSE Len(lists[t])
        BY SMTT(30) DEF Passed
      <3>3. QED  BY <2>1, <3>1, <3>2, SMTT(30)
    <2>3. ASSUME NEW p \in Nat, NEW u \in ModuleTypes, u # t PROVE Passed(u, p)' = Passed(u, p)
      <3>1. cursors'[u] = cursors[u]
        BY <2>3, AdvancedCursors DEF ScheduleInv
      <3>2. QED  BY <3>1, SMTT(30) DEF Passed
    <2>4. QED  BY <2>2, <2>3
  \* Counting a module adds one to its type in its pass, and nothing elsewhere.
  <1>OneCounted. ASSUME ScheduleTyped, NEW q \in Open, NEW t \in ModuleTypes,
                        \/ passCounts' = [passCounts EXCEPT ![q][t].copied = @ + 1]
                        \/ passCounts' = [passCounts EXCEPT ![q][t].skipped = @ + 1]
                 PROVE  /\ Counted(t, q)' = Counted(t, q) + 1
                        /\ \A p \in Open, u \in ModuleTypes :
                             p # q \/ u # t => Counted(u, p)' = Counted(u, p)
    <2> USE <1>OneCounted
    <2> DEFINE C == [copied : Nat, skipped : Nat]
               f == passCounts[q]
               c == f[t]
    <2>1. passCounts \in [Open -> [ModuleTypes -> C]] /\ f \in [ModuleTypes -> C] /\ c \in C
      BY DEF ScheduleTyped
    <2>2. PICK d \in C : /\ passCounts' = [passCounts EXCEPT ![q] = [f EXCEPT ![t] = d]]
                         /\ d.copied + d.skipped = c.copied + c.skipped + 1
      <3>1. PICK x \in C : x = c
        BY <2>1
      <3>2. CASE passCounts' = [passCounts EXCEPT ![q][t].copied = @ + 1]
        <4> DEFINE d == [x EXCEPT !.copied = x.copied + 1]
        <4>1. d \in C /\ d.copied + d.skipped = x.copied + x.skipped + 1
          BY SMTT(30)
        <4>2. passCounts' = [passCounts EXCEPT ![q] = [f EXCEPT ![t] = d]]
          BY <3>1, <3>2
        <4>3. QED  BY <3>1, <4>1, <4>2
      <3>3. CASE passCounts' = [passCounts EXCEPT ![q][t].skipped = @ + 1]
        <4> DEFINE d == [x EXCEPT !.skipped = x.skipped + 1]
        <4>1. d \in C /\ d.copied + d.skipped = x.copied + x.skipped + 1
          BY SMTT(30)
        <4>2. passCounts' = [passCounts EXCEPT ![q] = [f EXCEPT ![t] = d]]
          BY <3>1, <3>3
        <4>3. QED  BY <3>1, <4>1, <4>2
      <3>4. QED  BY <3>2, <3>3
    <2> HIDE DEF C
    <2>3. passCounts'[q] = [f EXCEPT ![t] = d] /\ \A p \in Open : p # q => passCounts'[p] = passCounts[p]
      BY <2>1, <2>2
    <2>4. passCounts'[q][t] = d /\ \A u \in ModuleTypes : u # t => passCounts'[q][u] = f[u]
      BY <2>1, <2>3
    <2>5. QED  BY <2>2, <2>3, <2>4 DEF Counted
  \* A step that keeps counts, cursors and copies keeps the accounts.
  <1>AccountKept. ASSUME AccountInv, UNCHANGED <<lists, cursors, openPasses, nextPass, passCounts>>,
                         failed' = failed,
                         \A t, p : Copying(t, p)' = Copying(t, p)
                  PROVE  AccountInv'
    <2> USE <1>AccountKept
    <2>1. \A t, p : Passed(t, p)' = Passed(t, p) /\ Counted(t, p)' = Counted(t, p)
      BY DEF Passed, Counted
    <2>2. Open' = Open
      BY DEF Open
    <2>3. QED  BY <2>1, <2>2 DEF AccountInv
  \* The copy in flight stays what it is.
  <1>CopyingKept. \/ pc \notin {"copy", "land"} /\ pc' \notin {"copy", "land"}
                  \/ /\ pc \in {"copy", "land"} /\ pc' \in {"copy", "land"}
                     /\ UNCHANGED <<visit, next>>
                  => \A t, p : Copying(t, p)' = Copying(t, p)
    BY DEF Copying, visited
  \* begin_pass(): nobody is in the new pass yet.
  <1>AccountBegun. ASSUME TableInv, AccountInv, BeginPass, failed' = failed,
                          \A t, p : Copying(t, p)' = Copying(t, p),
                          pc \in {"copy", "land"} => next.pass \in Open
                   PROVE  AccountInv'
    <2> USE <1>AccountBegun
    <2>1. /\ UNCHANGED <<lists, cursors>> /\ nextPass' = nextPass + 1 /\ nextPass \in Nat
          /\ openPasses \in Seq(Nat) /\ openPasses' = Append(openPasses, nextPass)
          /\ passCounts' = [p \in Open \union {nextPass} |->
                              IF p \in Open THEN passCounts[p] ELSE NoCounts]
      BY DEF BeginPass, TableInv, ScheduleInv, ScheduleTyped
    <2>2. Open' = Open \union {nextPass}
      <3>1. TableInv'
        BY BeginPassStep
      <3>2. /\ Open = (nextPass - Len(openPasses))..(nextPass - 1)
            /\ Open' = (nextPass' - Len(openPasses'))..(nextPass' - 1)
            /\ nextPass > Len(openPasses)
        BY <3>1 DEF TableInv, ScheduleInv, PassesConsecutive, DequeConsecutive
      <3>3. Len(openPasses') = Len(openPasses) + 1 /\ Len(openPasses) \in Nat
        BY <2>1, SMTT(30)
      <3>4. QED  BY <2>1, <3>2, <3>3, SMTT(30)
    <2>3. nextPass \notin Open
      <3>1. Open = (nextPass - Len(openPasses))..(nextPass - 1) /\ Len(openPasses) \in Nat
        BY <2>1, OpenInterval, SMTT(30) DEF TableInv, ScheduleInv
      <3>2. QED  BY <2>1, <3>1, SMTT(30)
    <2>4. ASSUME NEW t \in ModuleTypes, lists[t] # <<>>
          PROVE  cursors[t].pass \in Nat /\ cursors[t].pass <= nextPass
      <3>1. /\ Open = (nextPass - Len(openPasses))..(nextPass - 1) /\ Len(openPasses) \in Nat
            /\ cursors[t].pass \in Nat
        BY <2>1, OpenInterval, SMTT(30) DEF TableInv, ScheduleInv, ScheduleTyped
      <3>2. cursors[t].pass \in Open \union {nextPass}
        BY <2>4 DEF TableInv, ScheduleInv, PassesConsecutive
      <3>3. QED  BY <2>1, <3>1, <3>2, SMTT(30)
    <2>5. \A t \in ModuleTypes : lists[t] # <<>> => cursors[t].pass # nextPass + 1
      BY <2>1, <2>4, SMTT(30)
    <2>6. \A t, p : Passed(t, p)' = Passed(t, p)
      BY <2>1, SMTT(30) DEF Passed
    <2>7. ASSUME ~failed, NEW p \in Open, NEW t \in ModuleTypes
          PROVE  Counted(t, p)' + Copying(t, p)' = Passed(t, p)'
      <3>1. passCounts'[p] = passCounts[p]
        BY <2>1
      <3>2. Counted(t, p)' = Counted(t, p)
        BY <3>1 DEF Counted
      <3>3. Counted(t, p) + Copying(t, p) = Passed(t, p)
        BY <2>7 DEF AccountInv
      <3>4. Copying(t, p)' = Copying(t, p)
        OBVIOUS
      <3>5. QED  BY <2>6, <3>2, <3>3, <3>4
    <2>8. ASSUME NEW t \in ModuleTypes, NEW n, n = nextPass
          PROVE  Counted(t, n)' + Copying(t, n)' = Passed(t, n)'
      <3>1. passCounts'[n] = NoCounts
        BY <2>1, <2>3, <2>8
      <3>2. passCounts'[n][t] = [copied |-> 0, skipped |-> 0]
        BY <3>1, SMTT(30) DEF NoCounts
      <3>3. Counted(t, n)' = 0
        BY <3>2, SMTT(30) DEF Counted
      <3>4. Copying(t, n)' = 0
        BY <2>3, <2>8 DEF Copying
      <3>5. Passed(t, n) = 0
        <4>1. CASE lists[t] = <<>>
          BY <4>1 DEF Passed
        <4>2. CASE lists[t] # <<>>
          <5>1. cursors[t].pass = nextPass => cursors[t].position = 1
            BY <4>2 DEF AccountInv
          <5>2. QED  BY <2>1, <2>4, <2>8, <4>2, <5>1, SMTT(30) DEF Passed
        <4>3. QED  BY <4>1, <4>2
      <3>6. QED  BY <2>6, <3>3, <3>4, <3>5, SMTT(30)
    <2>9. QED  BY <2>1, <2>2, <2>5, <2>6, <2>7, <2>8 DEF AccountInv
  \* Which worker's calls change the open passes.
  <1>TableCallPasses. ASSUME TableCall
                      PROVE  \/ BeginPass \/ (\E p : EndPass(p))
                             \/ UNCHANGED <<openPasses, nextPass, passCounts>>
    BY <1>TableCallPasses DEF TableCall, tableVars, CancelPass, Lease, Release, SkipModules, SkipAll, ReleaseAsync,
       Reclaim
  \* end_pass() forgets the counts of the pass.
  <1>AccountEnded. ASSUME TableInv, AccountInv, NEW q, EndPass(q), failed' = failed,
                          \A t, p : Copying(t, p)' = Copying(t, p)
                   PROVE  AccountInv'
    <2> USE <1>AccountEnded
    <2>1. /\ UNCHANGED <<lists, cursors, nextPass>>
          /\ passCounts' = Restrict(passCounts, DOMAIN passCounts \ {q})
      BY DEF EndPass
    <2>2. DOMAIN passCounts = Open /\ DOMAIN passCounts' = Open'
      BY EndPassStep DEF TableInv, ScheduleInv, ScheduleTyped
    <2>3. \A p \in Open' : p \in Open /\ passCounts'[p] = passCounts[p]
      BY <2>1, <2>2 DEF Restrict
    <2>4. \A t, p : Passed(t, p)' = Passed(t, p)
      BY <2>1, SMTT(30) DEF Passed
    <2>5. \A t : \A p \in Open' : Counted(t, p)' = Counted(t, p)
      BY <2>3 DEF Counted
    <2>6. QED  BY <2>1, <2>3, <2>4, <2>5 DEF AccountInv
  \* An advancing cursor parks at the first module.
  <1>ParkedMoves. ASSUME TableInv, AccountInv, NEW t \in ModuleTypes, lists[t] # <<>>,
                         cursors[t].pass \in Open, UNCHANGED <<lists, nextPass>>,
                         cursors' = [cursors EXCEPT ![t] = Advanced(t)]
                  PROVE  \A u \in ModuleTypes :
                             lists'[u] # <<>> /\ cursors'[u].pass = nextPass' => cursors'[u].position = 1
    <2> USE <1>ParkedMoves
    <2>1. cursors'[t] = Advanced(t) /\ \A u \in ModuleTypes : u # t => cursors'[u] = cursors[u]
      BY AdvancedCursors DEF TableInv, ScheduleInv
    <2>2. cursors[t].pass # nextPass
      <3>1. Open = (nextPass - Len(openPasses))..(nextPass - 1) /\ nextPass \in Nat
            /\ Len(openPasses) \in Nat
        BY OpenInterval, SMTT(30) DEF TableInv, ScheduleInv, ScheduleTyped
      <3>2. QED  BY <3>1, SMTT(30)
    <2>3. Advanced(t).pass = nextPass => Advanced(t).position = 1
      BY <2>2, AdvancedCursor DEF TableInv
    <2>4. QED  BY <2>1, <2>3 DEF AccountInv
  <1>0. SlotsInv /\ ScheduleInv /\ ScheduleTyped /\ Open \subseteq Nat
    BY OpenInterval DEF TableInv, ScheduleInv
  <1>1. CASE WorkerCall
    <2>1. UNCHANGED <<pc, visit, next, failed, lists, cursors>> /\ TableCall
      BY <1>1, WorkerCallTable, TableCallStep DEF producerVars
    <2>2. \A t, p : Copying(t, p)' = Copying(t, p)
      BY <2>1 DEF Copying, visited
    <2>3. CASE BeginPass
      BY <1>0, <2>1, <2>2, <2>3, CopyOpen, <1>AccountBegun
    <2>4. CASE \E p : EndPass(p)
      BY <2>1, <2>2, <2>4, <1>AccountEnded
    <2>5. CASE UNCHANGED <<openPasses, nextPass, passCounts>>
      BY <2>1, <2>2, <2>5, <1>AccountKept
    <2>6. QED  BY <2>1, <2>3, <2>4, <2>5, <1>TableCallPasses
  <1>2. ASSUME UNCHANGED <<lists, cursors, openPasses, nextPass, passCounts, failed>>,
               \/ pc \notin {"copy", "land"} /\ pc' \notin {"copy", "land"}
               \/ /\ pc \in {"copy", "land"} /\ pc' \in {"copy", "land"}
                  /\ UNCHANGED <<visit, next>>
        PROVE  AccountInv'
    BY <1>2, <1>CopyingKept, <1>AccountKept
  <1>3. CASE ProducerTop \/ ProducerEndIteration \/ ProducerWake \/ ProducerScan
             \/ ProducerAcquire \/ ProducerFetch \/ ProducerReleaseLease \/ JoinProducer
    BY <1>2, <1>3 DEF ProducerTop, ProducerEndIteration, ProducerWake, ProducerScan,
       ProducerAcquire, ProducerFetch, ProducerReleaseLease, JoinProducer, tableVars
  <1>4. CASE ProducerFetchCancelled \/ UNCHANGED streamVars
    BY <1>2, <1>4 DEF ProducerFetchCancelled, Abandon, tableVars, streamVars, producerVars
  <1>5. CASE ProducerFail
    BY <1>5 DEF ProducerFail, Abandon, tableVars, AccountInv
  <1>6. CASE ProducerClaim /\ ClaimSkip(visited, buffer)
    BY <1>2, <1>6 DEF ProducerClaim, ClaimSkip, ClaimCopy, Abandon, tableVars
  <1>7. CASE ProducerClaim /\ ClaimCopy(visited, buffer)
    <2>1. /\ pc = "claim" /\ pc' = "copy" /\ UNCHANGED <<visit, next>> /\ UNCHANGED visited
          /\ UNCHANGED <<lists, openPasses, nextPass, passCounts, failed>>
          /\ cursors' = [cursors EXCEPT ![visited] = Advanced(visited)] /\ UNCHANGED Open
      BY <1>7 DEF ProducerClaim, ClaimCopy, ClaimSkip, visited, Open
    <2>2. PICK t, q : t = visited /\ q = next.pass
      OBVIOUS
    <2>3. t \in ModuleTypes /\ lists[t] # <<>> /\ cursors[t].pass = q /\ q \in Open
      BY <2>1, <2>2, VisitedType DEF ThreadInv, ProducerInv, Busy, AtCursor
    <2>4. \A u \in ModuleTypes :
               lists'[u] # <<>> /\ cursors'[u].pass = nextPass' => cursors'[u].position = 1
      BY <2>1, <2>2, <2>3, <1>ParkedMoves
    <2>5. /\ \A p \in Nat : p # q => Passed(t, p)' = Passed(t, p)
          /\ Passed(t, q)' = Passed(t, q) + 1
          /\ \A p \in Nat : \A u \in ModuleTypes : u # t => Passed(u, p)' = Passed(u, p)
      BY <1>0, <2>1, <2>2, <2>3, <1>OnePassed
    <2>6. \A u, p : /\ Copying(u, p) = 0 /\ Counted(u, p)' = Counted(u, p)
                    /\ Copying(u, p)' = IF u = t /\ p = q THEN 1 ELSE 0
      BY <2>1, <2>2 DEF Copying, Counted
    <2>7. ASSUME ~failed, NEW p \in Open, NEW u \in ModuleTypes
          PROVE  Counted(u, p)' + Copying(u, p)' = Passed(u, p)'
      <3>1. /\ Counted(u, p) + Copying(u, p) = Passed(u, p)
            /\ Counted(u, p) \in Nat /\ Passed(u, p) \in Nat
        BY <1>0, <2>7, AccountTyped DEF AccountInv
      <3>2. CASE u = t /\ p = q
        BY <2>5, <2>6, <3>1, <3>2, SMTT(30)
      <3>3. CASE ~(u = t /\ p = q)
        BY <1>0, <2>5, <2>6, <3>1, <3>3
      <3>4. QED  BY <3>2, <3>3
    <2>8. QED  BY <2>1, <2>4, <2>7 DEF AccountInv
  <1>8. CASE ProducerFinish /\ pc = "retire" /\ RetireSkip(visited)
    <2>1. /\ pc' = "scan" /\ UNCHANGED <<lists, openPasses, nextPass, failed>>
          /\ cursors' = [cursors EXCEPT ![visited] = Advanced(visited)] /\ UNCHANGED Open
          /\ passCounts' = [passCounts EXCEPT ![cursors[visited].pass][visited].skipped = @ + 1]
      BY <1>8 DEF ProducerFinish, RetireSkip, Open
    <2>2. PICK t, q : t = visited /\ q = next.pass
      OBVIOUS
    <2>3. t \in ModuleTypes /\ lists[t] # <<>> /\ cursors[t].pass = q /\ q \in Open
      BY <1>8, <2>2, VisitedType DEF ThreadInv, ProducerInv, Busy, AtCursor
    <2>4. \A u \in ModuleTypes :
               lists'[u] # <<>> /\ cursors'[u].pass = nextPass' => cursors'[u].position = 1
      BY <2>1, <2>2, <2>3, <1>ParkedMoves
    <2>5. /\ \A p \in Nat : p # q => Passed(t, p)' = Passed(t, p)
          /\ Passed(t, q)' = Passed(t, q) + 1
          /\ \A p \in Nat : \A u \in ModuleTypes : u # t => Passed(u, p)' = Passed(u, p)
      BY <1>0, <2>1, <2>2, <2>3, <1>OnePassed
    <2>6. /\ Counted(t, q)' = Counted(t, q) + 1
          /\ \A p \in Open, u \in ModuleTypes :
                p # q \/ u # t => Counted(u, p)' = Counted(u, p)
      BY <1>0, <2>1, <2>2, <2>3, <1>OneCounted
    <2>7. \A u, p : Copying(u, p) = 0 /\ Copying(u, p)' = 0
      BY <1>8, <2>1 DEF Copying
    <2>8. ASSUME ~failed, NEW p \in Open, NEW u \in ModuleTypes
          PROVE  Counted(u, p)' + Copying(u, p)' = Passed(u, p)'
      <3>1. /\ Counted(u, p) + Copying(u, p) = Passed(u, p)
            /\ Counted(u, p) \in Nat /\ Passed(u, p) \in Nat
        BY <1>0, <2>8, AccountTyped DEF AccountInv
      <3>2. CASE u = t /\ p = q
        BY <2>5, <2>6, <2>7, <3>1, <3>2, SMTT(30)
      <3>3. CASE ~(u = t /\ p = q)
        BY <1>0, <2>5, <2>6, <2>7, <3>1, <3>3
      <3>4. QED  BY <3>2, <3>3
    <2>9. QED  BY <2>1, <2>4, <2>8 DEF AccountInv
  <1>9. CASE ProducerFinish /\ pc = "land" /\ Landed(visited, buffer)
    <2>1. /\ pc' = "scan" /\ UNCHANGED <<lists, cursors, openPasses, nextPass, failed>>
          /\ UNCHANGED Open
          /\ passCounts' = [passCounts EXCEPT
                              ![slots[visited][buffer].pass][visited].copied = @ + 1]
      BY <1>9 DEF ProducerFinish, Landed, Open
    <2>2. PICK t, q : t = visited /\ q = next.pass
      OBVIOUS
    <2>3. t \in ModuleTypes /\ q \in Open /\ slots[visited][buffer].pass = q
      BY <1>0, <1>9, <2>2, CopyOpen
    <2>4. \A u, p : Passed(u, p)' = Passed(u, p)
      <3>1. lists' = lists /\ cursors' = cursors
        BY <2>1
      <3>2. QED  BY ONLY <3>1, SMTT(30) DEF Passed
    <2>5. /\ Counted(t, q)' = Counted(t, q) + 1
          /\ \A p \in Open, u \in ModuleTypes :
                p # q \/ u # t => Counted(u, p)' = Counted(u, p)
      BY <1>0, <2>1, <2>2, <2>3, <1>OneCounted
    <2>6. \A u, p : /\ Copying(u, p) = (IF u = t /\ p = q THEN 1 ELSE 0)
                    /\ Copying(u, p)' = 0
      BY <1>9, <2>1, <2>2 DEF Copying
    <2>7. ASSUME ~failed, NEW p \in Open, NEW u \in ModuleTypes
          PROVE  Counted(u, p)' + Copying(u, p)' = Passed(u, p)'
      <3>1. /\ Counted(u, p) + Copying(u, p) = Passed(u, p)
            /\ Counted(u, p) \in Nat /\ Passed(u, p) \in Nat
        BY <1>0, <2>7, AccountTyped DEF AccountInv
      <3>2. CASE u = t /\ p = q
        BY <2>4, <2>5, <2>6, <3>1, <3>2, SMTT(30)
      <3>3. CASE ~(u = t /\ p = q)
        BY <2>4, <2>5, <2>6, <3>1, <3>3
      <3>4. QED  BY <3>2, <3>3
    <2>8. QED  BY <2>1, <2>7 DEF AccountInv
  <1>10. CASE DropPasses \/ InstallPhase
    <2>1. /\ Open' = {} /\ \A t \in ModuleTypes : cursors'[t].position = 1
      <3>1. /\ openPasses' = <<>>
            /\ \E n : cursors' = [t \in ModuleTypes |-> [pass |-> n, position |-> 1]]
        BY <1>10 DEF DropPasses, AbortPasses, InstallPhase, Install
      <3>2. PICK n : cursors' = [t \in ModuleTypes |-> [pass |-> n, position |-> 1]]
        BY <3>1
      <3>3. \A t \in ModuleTypes : cursors'[t].position = 1
        BY ONLY <3>2, SMTT(30)
      <3>4. Open' = {}
        BY <3>1, SMTT(30) DEF Open, Range
      <3>5. QED  BY <3>3, <3>4
    <2>2. QED  BY <2>1 DEF AccountInv
  <1>11. CASE ResetRing
    BY <1>2, <1>11 DEF ResetRing, ResetTypes, tableVars, producerVars, ThreadInv
  <1>12. QED
    BY <1>1, <1>3, <1>4, <1>5, <1>6, <1>7, <1>8, <1>9, <1>10, <1>11
       DEF StreamNext, Producer, Worker, WorkerCall, ProducerClaim, ProducerFinish

-----------------------------------------------------------------------------
(* What the producer and the accounts of a pass can rely on. *)

\* A fresh worker has installed nothing.
LEMMA StreamStart == StreamInit => StreamInv
  <1> SUFFICES ASSUME StreamInit PROVE StreamInv
    OBVIOUS
  <1>1. TableInv
    BY TableInit DEF StreamInit
  <1>2. ThreadInv
    <2>1. visit \in Nat \ {0}
      BY SMTT(30) DEF StreamInit
    <2>2. QED  BY <2>1 DEF StreamInit, ThreadInv, Busy, AtCursor, InFlight
  <1>3. ProducerInv
    BY DEF StreamInit, ProducerInv, AtCursor
  <1>4. \A r \in Refs : At(r) = FreeSlot
    <2>1. PICK layout \in Layouts : slots = [t \in ModuleTypes |-> FreeSlots(layout[t])]
      BY DEF StreamInit, Init
    <2>2. layout \in [ModuleTypes -> Nat]
      BY LayoutsAssumption
    <2>3. ASSUME NEW r \in Refs PROVE At(r) = FreeSlot
      <3>1. r[1] \in ModuleTypes /\ r[2] \in DOMAIN slots[r[1]]
        BY RefPairs
      <3>2. slots[r[1]] = FreeSlots(layout[r[1]]) /\ layout[r[1]] \in Nat
        BY <2>1, <2>2, <3>1
      <3>3. r[2] \in 1..layout[r[1]] /\ FreeSlots(layout[r[1]])[r[2]] = FreeSlot
        BY <3>1, <3>2, FreeRing
      <3>4. QED  BY <3>2, <3>3 DEF At
    <2>4. QED  BY <2>3
  <1>5. RingInv
    BY <1>4, SlotFields DEF RingInv
  <1>6. ReleaseInv
    BY <1>4, SlotFields DEF ReleaseInv, StreamInit
  <1>7. lists = [t \in ModuleTypes |-> <<>>] /\ openPasses = <<>> /\ queue = lists
    BY DEF StreamInit, Init
  <1>8. \A t \in ModuleTypes : cursors[t].position = 1
    <2>1. cursors = [t \in ModuleTypes |-> [pass |-> 1, position |-> 1]]
      BY DEF StreamInit, Init
    <2>2. QED  BY ONLY <2>1, SMTT(30)
  <1>9. QueueInv
    <2>1. lists \in [ModuleTypes -> Seq(Modules)]
      BY <1>1 DEF TableInv, ScheduleInv, ScheduleTyped
    <2>2. \A t \in ModuleTypes : QueuePosition(t) = 1
      BY <1>8 DEF QueuePosition, StreamInit
    <2>3. QED  BY <1>7, <2>1, <2>2, Unrotated DEF QueueInv
  <1>10. AccountInv
    <2>1. Open = {}
      BY <1>7, SMTT(30) DEF Open, Range
    <2>2. QED  BY <1>8, <2>1 DEF AccountInv
  <1>11. ControlInv
    BY DEF StreamInit, ControlInv, Ends, Aborting
  <1>12. QED
    BY <1>1, <1>2, <1>3, <1>5, <1>6, <1>9, <1>10, <1>11 DEF StreamInv

\* Every step of the threads and of the device keeps the invariant.
LEMMA StreamStep == StreamInv /\ [StreamNext]_streamVars => StreamInv'
  <1> SUFFICES ASSUME StreamInv, [StreamNext]_streamVars PROVE StreamInv'
    OBVIOUS
  <1>1. /\ TableInv /\ ThreadInv /\ ProducerInv /\ RingInv /\ ReleaseInv
        /\ QueueInv /\ AccountInv /\ ControlInv
    BY DEF StreamInv
  <1>2. TableInv'
    BY <1>1, StreamTable
  <1>3. ThreadInv' /\ ControlInv'
    BY <1>1, ThreadStep, ControlStep
  <1>4. ProducerInv'
    BY <1>1, <1>2, ProducerNext
  <1>5. RingInv' /\ ReleaseInv'
    BY <1>1, RingNext, ReleasesNext
  <1>6. QueueInv' /\ AccountInv'
    BY <1>1, QueueNext, AccountNext
  <1>7. QED  BY <1>2, <1>3, <1>4, <1>5, <1>6 DEF StreamInv

\* The inductive invariant of the stream: the slot table and its users agree in
\* every interleaving of the producer, the worker and the device.
THEOREM StreamInvariant == StreamSpec => []StreamInv
  BY StreamStart, StreamStep, PTL DEF StreamSpec

\* The next module the producer fetches heads the type's queue.
LEMMA QueueHead ==
    ASSUME TableInv, QueueInv, ~failed, NEW t \in ModuleTypes, lists[t] # <<>>,
           pc \notin {"skip", "retire"}
    PROVE  Head(queue[t]) = CursorModule(t)
  <1>1. RotatedTo(queue[t], lists[t], cursors[t].position)
    BY DEF QueueInv, QueuePosition
  <1>2. lists[t] \in Seq(Modules) /\ cursors[t].position \in 1..Len(lists[t])
    BY AdvancedCursor DEF TableInv
  <1>3. QED  BY <1>1, <1>2, RotationHead DEF CursorModule

\* HtoD_Worker's calls into the table and the daemon are never refused, whatever
\* the worker skips, cancels, carries and ends between them.
THEOREM ProducerServed == StreamSpec => []ProducerNeverRefused
  \* The module at a cursor is still ahead of it.
  <1>CursorUnproduced. ASSUME TableInv, NEW t \in ModuleTypes, lists[t] # <<>>
                       PROVE  ~Produced(CursorModule(t), cursors[t].pass)
    <2> USE <1>CursorUnproduced
    <2>1. /\ TypeOf(CursorModule(t)) = t /\ PositionOf(CursorModule(t)) = cursors[t].position
      BY Located DEF TableInv, ScheduleInv, CursorsInside, CursorModule
    <2>2. cursors[t].pass \in Nat /\ cursors[t].position \in Nat
      BY DEF TableInv, ScheduleInv, ScheduleTyped
    <2>3. QED  BY <2>1, <2>2, SMTT(30) DEF Produced
  <1>1. StreamInv => ProducerNeverRefused
    <2> SUFFICES ASSUME StreamInv PROVE ProducerNeverRefused
      OBVIOUS
    <2>1. /\ TableInv /\ ThreadInv /\ ProducerInv /\ QueueInv
          /\ SlotsInv /\ SlotsTyped /\ IndexExact /\ NamedBehindCursor
      BY DEF StreamInv, TableInv, SlotsInv
    <2>2. ASSUME pc \in AtCursor
          PROVE  /\ visited \in ModuleTypes /\ ~failed /\ lists[visited] # <<>>
                 /\ next.module = CursorModule(visited)
                 /\ next.pass = cursors[visited].pass /\ next.pass \in Open
      BY <2>1, <2>2, VisitedType DEF ThreadInv, ProducerInv, Busy
    <2>3. ASSUME pc = "fetch"
          PROVE  Head(queue[visited]) = next.module /\ next.module \notin leases
      <3>1. Head(queue[visited]) = next.module
        BY <2>1, <2>2, <2>3, QueueHead DEF AtCursor
      <3>2. leases = {}
        BY <2>1, <2>2, <2>3 DEF ThreadInv, AtCursor
      <3>3. QED  BY <3>1, <3>2
    <2>4. ASSUME pc = "claim"
          PROVE  /\ CursorModule(visited) = next.module
                 /\ NextProduction(visited) \in {"COPY", "SKIP"}
                 /\ NextProduction(visited) = "COPY" =>
                      /\ buffer # 0
                      /\ slots[visited][buffer] = [FreeSlot EXCEPT !.state = "FILLING"]
                      /\ <<next.module, next.pass>> \notin DOMAIN index
      <3>1. /\ visited \in ModuleTypes /\ lists[visited] # <<>>
            /\ next.module = CursorModule(visited)
            /\ next.pass = cursors[visited].pass /\ next.pass \in Open
        BY <2>2, <2>4 DEF AtCursor
      <3>2. NextProduction(visited) \in {"COPY", "SKIP"}
        BY <3>1 DEF NextProduction
      <3>3. ASSUME NextProduction(visited) = "COPY"
            PROVE  buffer # 0 /\ slots[visited][buffer] = Reserving
        <4>1. <<next.pass, next.module>> \notin pendingSkips
          BY <3>1, <3>3 DEF NextProduction
        <4>2. <<visited, buffer>> \in Refs /\ At(<<visited, buffer>>) = Reserving
          BY <2>1, <2>4, <4>1 DEF ProducerInv
        <4>3. buffer # 0
          BY <2>1, <4>2, ZeroIsNoSlot
        <4>4. At(<<visited, buffer>>) = slots[visited][buffer]
          BY <2>1, <2>4, <4>3, BufferSlot
        <4>5. QED  BY <4>2, <4>3, <4>4
      <3>4. <<next.module, next.pass>> \notin DOMAIN index
        <4> SUFFICES ASSUME <<next.module, next.pass>> \in DOMAIN index PROVE FALSE
          OBVIOUS
        <4>1. PICK r \in Refs : Active(r) /\ <<next.module, next.pass>> = Key(r)
          BY <2>1, IndexActive
        <4>2. At(r).name = next.module /\ At(r).pass = next.pass /\ At(r).name # None
          BY <4>1 DEF Active, Key
        <4>3. Produced(next.module, next.pass)
          BY <2>1, <4>2 DEF NamedBehindCursor
        <4>4. QED  BY <2>1, <3>1, <4>3, <1>CursorUnproduced
      <3>5. QED  BY <3>1, <3>2, <3>3, <3>4 DEF Reserving
    <2>5. ASSUME pc \in {"copy", "land"}
          PROVE  /\ slots[visited][buffer].state = "FILLING"
                 /\ slots[visited][buffer].name = next.module
      BY <2>1, <2>5, CopyOpen
    <2>6. ASSUME pc \in {"skip", "retire"}
          PROVE  NextProduction(visited) = "SKIP" /\ CursorModule(visited) = next.module
      <3>1. /\ lists[visited] # <<>> /\ next.module = CursorModule(visited)
            /\ next.pass = cursors[visited].pass /\ next.pass \in Open
        BY <2>2, <2>6 DEF AtCursor
      <3>2. <<next.pass, next.module>> \in pendingSkips
        BY <2>1, <2>6 DEF ProducerInv
      <3>3. QED  BY <3>1, <3>2 DEF NextProduction
    <2>7. QED  BY <2>3, <2>4, <2>5, <2>6 DEF ProducerNeverRefused
  <1>2. QED  BY <1>1, StreamInvariant, PTL

\* Between modules every rotating queue is at its type's cursor.
THEOREM QueuesAtCursors == StreamSpec => []QueueAtCursor
  <1>1. StreamInv => QueueAtCursor
    BY QueueHead DEF StreamInv, QueueAtCursor
  <1>2. QED  BY <1>1, StreamInvariant, PTL

\* end_pass() lets a pass go only when every installed module was copied or
\* skipped in it, once.
THEOREM PassesAccounted == StreamSpec => []PassAccounted
  <1>1. StreamInv => PassAccounted
    <2> SUFFICES ASSUME StreamInv, wpc = "end", ~failed, NEW p, p = Ending, CanEnd(p),
                        NEW t \in ModuleTypes
                 PROVE  passCounts[p][t].copied + passCounts[p][t].skipped = Len(lists[t])
      BY DEF PassAccounted
    <2>1. /\ SlotsInv /\ ScheduleInv /\ ThreadInv /\ ProducerInv /\ AccountInv
      BY DEF StreamInv, TableInv
    <2>2. p \in Open /\ p \in Nat
      BY <2>1, OpenInterval DEF CanEnd, ScheduleInv
    <2>3. Counted(t, p) + Copying(t, p) = Passed(t, p) /\ Counted(t, p) \in Nat
      BY <2>1, <2>2, AccountTyped DEF AccountInv
    <2>4. Copying(t, p) = 0
      <3> SUFFICES ASSUME pc \in {"copy", "land"}, next.pass = p PROVE FALSE
        BY DEF Copying
      <3>1. PICK r \in Refs : At(r).name # None /\ At(r).pass = p /\ At(r).state = "FILLING"
        BY <2>1 DEF ProducerInv
      <3>2. QED  BY <3>1 DEF CanEnd, Held
    <2>5. Passed(t, p) = Len(lists[t])
      <3>1. CASE lists[t] = <<>>
        BY <3>1, SMTT(30) DEF Passed
      <3>2. CASE lists[t] # <<>>
        <4>1. cursors[t].pass > p /\ cursors[t].pass \in Nat
          BY <2>1, <3>2, AdvancedCursor DEF CanEnd, ProducerFinished
        <4>2. QED  BY <2>2, <3>2, <4>1, SMTT(30) DEF Passed
      <3>3. QED  BY <3>1, <3>2
    <2>6. QED  BY <2>3, <2>4, <2>5, SMTT(30) DEF Counted
  <1>2. QED  BY <1>1, StreamInvariant, PTL

=============================================================================
