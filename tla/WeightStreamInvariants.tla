---------------------- MODULE WeightStreamInvariants ----------------------
(***************************************************************************)
(* What makes the invariants of the weight stream inductive: StreamInv, and *)
(* WorkerInv for the worker, with the classes of steps their proofs tell   *)
(* apart.                                                                  *)
(***************************************************************************)
EXTENDS WeightStream, WeightSlotTableInvariants

\* Where the producer is busy with a module, where its type's cursor is still
\* at that module, and where the module is recorded as in flight.
AtCursor == {"acquire", "fetch", "claim", "skip", "retire"}
Busy == AtCursor \union {"copy", "land"}
InFlight == Busy \ {"acquire"}

\* The control state of the threads.  The producer handles a type of its order,
\* and never after a failure; it is joined before the ring is dropped, reset or
\* installed; without a failure it holds at most the lease of its module.
ThreadInv ==
    /\ visit \in Nat \ {0}
    /\ failed \in BOOLEAN /\ closeFailed \in BOOLEAN
    /\ pc \in Busy => visit <= Len(TypeOrder) /\ ~failed
    /\ pc \in InFlight => inFlight = next
    /\ wpc \in {"drop", "reset", "install"} => pc = "stopped"
    /\ wpc \in {"reset", "install"} => ~failed
    /\ leases # {} /\ ~failed =>
         pc \in {"claim", "copy", "skip"} /\ leases \subseteq {next.module}

\* The slot the producer fills.
Filling == pc \in {"fetch", "claim", "copy", "land"}

\* What the producer relies on while the worker leases, skips, cancels, arms
\* and ends passes beside it.
ProducerInv ==
    /\ pc \in AtCursor =>
         /\ lists[visited] # <<>>
         /\ next.module = CursorModule(visited)
         /\ next.pass = cursors[visited].pass
         /\ next.pass \in Open
    /\ pc \in {"skip", "retire"} =>
         /\ <<next.pass, next.module>> \in pendingSkips
         /\ buffer = 0 \/ <<visited, buffer>> \in Refs
    /\ pc \in {"fetch", "claim"} =>
         \/ buffer = 0 /\ <<next.pass, next.module>> \in pendingSkips
         \/ <<visited, buffer>> \in Refs /\ At(<<visited, buffer>>) = Reserving
    /\ pc \in {"copy", "land"} =>
         /\ <<visited, buffer>> \in Refs /\ next.module # None
         /\ At(<<visited, buffer>>).state = "FILLING"
         /\ At(<<visited, buffer>>).name = next.module
         /\ At(<<visited, buffer>>).pass = next.pass

\* Only the producer's slot is FILLING, and an occupied slot has a name.
RingInv ==
    \A r \in Refs :
        /\ At(r).state = "FILLING" => Filling /\ r = <<visited, buffer>>
        /\ At(r).state \in {"PRESENT", "LEASED", "PENDING_RELEASE"} => At(r).name # None

\* The pending releases partition the slots that wait for an event.
ReleaseInv ==
    /\ releases \subseteq [refs : SUBSET Refs, done : BOOLEAN]
    /\ \A r \in Refs :
         At(r).state = "PENDING_RELEASE" <=> \E e \in releases : r \in e.refs
    /\ \A e, f \in releases : e # f => e.refs \cap f.refs = {}

\* The list l, rotated to position k.
RotatedTo(q, l, k) ==
    /\ q \in Seq(Modules)
    /\ Len(q) = Len(l)
    /\ \A i \in 1..Len(q) :
         q[i] = l[IF k + i - 1 <= Len(q) THEN k + i - 1 ELSE k + i - 1 - Len(q)]

\* The queue is rotated to the cursor, or past it when the producer claimed a
\* skip that it has not retired yet.
QueuePosition(t) ==
    IF pc \in {"skip", "retire"} /\ t = visited
    THEN Advanced(t).position ELSE cursors[t].position

\* Without a failure the queues are where the cursors say.
QueueInv ==
    /\ queue \in [ModuleTypes -> Seq(Modules)]
    /\ ~failed => \A t \in ModuleTypes : RotatedTo(queue[t], lists[t], QueuePosition(t))

\* How many modules of type t the producer went past in pass p, and how many of
\* those it is still copying.
Passed(t, p) ==
    IF lists[t] = <<>> \/ cursors[t].pass < p THEN 0
    ELSE IF cursors[t].pass = p THEN cursors[t].position - 1
    ELSE Len(lists[t])
Copying(t, p) ==
    IF pc \in {"copy", "land"} /\ visited = t /\ next.pass = p THEN 1 ELSE 0
Counted(t, p) == passCounts[p][t].copied + passCounts[p][t].skipped

\* A parked cursor is at the first module, and the counts of an open pass are of
\* the modules the producer went past.
AccountInv ==
    /\ \A t \in ModuleTypes :
         lists[t] # <<>> /\ cursors[t].pass = nextPass => cursors[t].position = 1
    /\ ~failed => \A p \in Open, t \in ModuleTypes :
                      Counted(t, p) + Copying(t, p) = Passed(t, p)

-----------------------------------------------------------------------------
(* The worker's part. *)

\* A slot the worker may still lease.
Live(r) ==
    /\ At(r).name # None
    /\ At(r).state = "PRESENT" \/ (At(r).state = "FILLING" /\ ~At(r).release)

\* A module of pass p that is neither leased nor skipped so far.
Fresh(m, p) ==
    \/ \E r \in Refs : Live(r) /\ Key(r) = <<m, p>>
    \/ ~Produced(m, p) /\ <<p, m>> \notin pendingSkips
FreshSet(p) == {m \in Installed : Fresh(m, p)}

\* Where the worker is: it gives the passes up, it switches the phase, it is in
\* a forward, it ends a pass, it closes the passes it holds.
Aborting == wpc = "drop" \/ (wpc \in {"stop", "join"} /\ after = "abort")
Switching == wpc \in {"reset", "install"} \/ (wpc \in {"stop", "join"} /\ after = "stop")
Forward == wpc \in {"begun", "wake", "fwd", "get"}
Ends == wpc \in {"drain", "check", "end"}
Closing == wpc = "close" \/ (Ends /\ after # "in")

\* Where the worker's calls continue.
ControlInv ==
    /\ wpc = "wake" => after \in {"begun", "fwd"}
    /\ wpc = "close" => after \in {"out", "stop"}
    /\ Ends => after \in {"in", "out", "stop"}
    /\ wpc \in {"stop", "join"} => after \in {"abort", "stop"}
    /\ Aborting => current = None /\ carried = None

\* The table, the threads, the ring, the releases, the queues and the counts.
StreamInv ==
    /\ TableInv /\ ThreadInv /\ ProducerInv /\ RingInv /\ ReleaseInv
    /\ QueueInv /\ AccountInv /\ ControlInv

\* The passes the worker holds are the open ones, in order.
HeldPasses ==
    IF current \in {None, NoPass}
    THEN IF carried = None THEN <<>> ELSE <<carried>>
    ELSE IF carried = None THEN <<current>> ELSE <<current, carried>>

\* Until it gives them up, the worker holds the open passes, as its position in
\* the scope says.
PassesHeld ==
    /\ ~Aborting => openPasses = HeldPasses
    /\ current \in {None, NoPass} \union Nat /\ carried \in {None} \union (Nat \ {0})
    /\ current = NoPass => carried = None /\ Installed = {}
    /\ Forward => current # None
    /\ wpc = "begun" \/ (wpc = "wake" /\ after = "begun") => carried = None
    /\ wpc \in {"in", "out"} => current = None
    /\ wpc = "out" \/ Switching => current = None /\ carried = None
    /\ Ends => Ending \notin {None, NoPass}
    /\ Ends /\ after = "in" => current # None

\* What the forward still has to lease or skip is what is fresh of its pass,
\* and nothing of the next one is gone.
ForwardFresh ==
    /\ Forward /\ current # NoPass => FreshSet(current) = owed
    /\ current = NoPass => owed = {}
    /\ wpc = "get" => want \in owed
    /\ carried # None /\ ~Closing => FreshSet(carried) = Installed
    /\ Ends => FreshSet(Ending) = {}

\* Only the forward holds leases, and only of the pass at the head.
LeasesHeld ==
    \A r \in Refs : At(r).state = "LEASED" =>
        /\ wpc \in {"fwd", "get", "abort"} \/ Aborting
        /\ openPasses # <<>> /\ At(r).pass = CurrentPass

\* A drained pass has no slot left and is finished by the producer.
PassDrained ==
    wpc \in {"check", "end"} =>
        /\ ProducerFinished(Ending)
        /\ \A r \in Refs : At(r).name # None => At(r).pass # Ending

\* Nothing is promised of a worker after a failure, or once a close() failed.
WorkerGood == PassesHeld /\ ForwardFresh /\ LeasesHeld /\ PassDrained
WorkerInv == ~failed /\ ~closeFailed => WorkerGood

-----------------------------------------------------------------------------
(* Classes of steps. *)

\* The steps of the worker, and of the device, that leave the producer alone.
WorkerCall ==
    \/ EnterScope \/ Begin \/ Carry \/ WakeProducer \/ AskWeights \/ GetWeights
    \/ FreeWeights \/ FreeWeightsAsync \/ SkipWeights \/ EndForward
    \/ LeaveScope \/ SwitchPhase \/ ClosePass \/ DrainPass \/ CheckLeases
    \/ FinishPass \/ EngineRaises \/ ForwardRaises \/ AbortScope
    \/ StopProducer \/ InstallRefused \/ EventCompletes

\* The table operations a worker step may make.
TableCall ==
    \/ UNCHANGED tableVars \/ BeginPass
    \/ \E p : CancelPass(p) \/ EndPass(p)
    \/ \E m : Lease(m) \/ Release(m)
    \/ \E ms : SkipModules(ms) /\ ms # {}
    \/ \E ms : ReleaseAsync(ms)
    \/ Reclaim(UNION {e.refs : e \in releases})

\* The releases whose event completed.
DoneRefs == UNION {e.refs : e \in {e \in releases : e.done}}

\* The slots that wait for an event stay the same.
PendingKept ==
    /\ Refs' = Refs
    /\ \A r \in Refs : At(r)'.state = "PENDING_RELEASE" <=> At(r).state = "PENDING_RELEASE"

\* A change of a slot that takes no module from the worker and leases none.
QuietSlot(r) ==
    \/ At(r)' = At(r)
    \/ /\ At(r)'.state # "LEASED"
       /\ Live(r)' <=> Live(r)
       /\ At(r)'.name # None => Key(r)' = Key(r)

\* A step that changes slots in no other way.
QuietSlots == Refs' = Refs /\ \A r \in Refs : QuietSlot(r)

\* What the producer and the device may do to a slot: they lease none, and name
\* one only for the pass its type's cursor is in.
ProducedSlot(r) ==
    /\ At(r)'.state = "LEASED" => At(r)' = At(r)
    /\ At(r)'.name # None =>
         \/ At(r).name # None /\ At(r)'.pass = At(r).pass
         \/ \E t \in ModuleTypes : lists[t] # <<>> /\ At(r)'.pass = cursors[t].pass

\* What they keep of the worker's view: the modules it may still lease or skip.
FreshKept ==
    /\ Installed' = Installed
    /\ \A m \in Installed, p \in Nat : Fresh(m, p)' <=> Fresh(m, p)
    /\ Refs' = Refs /\ \A r \in Refs : ProducedSlot(r)
    /\ UNCHANGED <<lists, openPasses, nextPass>>
    /\ \A t \in ModuleTypes : lists[t] # <<>> => cursors'[t].pass >= cursors[t].pass

=============================================================================
