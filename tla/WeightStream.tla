----------------------------- MODULE WeightStream -----------------------------
(***************************************************************************)
(* One rank's weight streaming: the slot table, the producer thread that   *)
(* fills it (HtoD_Engine::HtoD_Worker), and the worker that runs forwards  *)
(* inside weight passes (_WeightPasses and the model code under it).       *)
(*                                                                         *)
(* A step of a thread is what it does between two of its lock operations   *)
(* on shared state.  GPU_Weight_Buffer's methods hold its mutex throughout *)
(* and are one step; its two waits (get_weights, wait_pass_drained) block  *)
(* on their condition.  A worker exception unwinds as Python does: the     *)
(* body of a scope aborts the passes, close() lets it through.             *)
(***************************************************************************)
EXTENDS WeightSlotTable

CONSTANTS
    TypeOrder,    \* basic_config.module_types: the producer's visiting order
    Distributed,  \* modules come from the node daemon under a lease
    MaxFaults     \* bound on failures, stalls and exceptions

ASSUME StreamAssumption == TypeOrder \in Seq(ModuleTypes) /\ Distributed \in BOOLEAN
ASSUME NoneIsNoPass == None \notin Nat

VARIABLES
    pc,         \* where the producer thread is; "stopped": no thread
    visit,      \* position in TypeOrder of the type being handled
    next,       \* [module, pass] the iteration is producing
    buffer,     \* reserved slot index; 0: none (buffer_idx = -1)
    progressed, \* the iteration copied or skipped something
    parked,     \* every type visited so far had nothing armed (weights_parked)
    woken,      \* producer_wake_ moved since the iteration read it
    terminate,  \* terminate_flag_
    failed,     \* producer_failed_ and producer_failure_
    queue,      \* weights_copy_task_queue_: the rotating task lists
    leases,     \* daemon leases of this worker (active_leases_)
    inFlight,   \* module_in_flight_ and pass_in_flight_; None: empty
    releases,   \* pending_releases_: slots behind one event, and its status
    wpc,        \* where the worker is
    after,      \* where a close or a stop continues
    current, carried,  \* the passes _WeightPasses holds; None: not begun
    owed,       \* modules the forward still has to lease or skip
    want,       \* the module get_weights waits for
    closeFailed,\* history: a close() raised and nothing aborted since
    faults

producerVars == <<pc, visit, next, buffer, progressed, parked, leases, inFlight>>
workerVars == <<wpc, after, current, carried, owed, want, closeFailed>>
streamVars == <<tableVars, producerVars, workerVars, woken, terminate, failed,
                queue, releases, faults>>

NoPass == 0   \* begin_weight_pass() with nothing installed
Nothing == [module |-> None, pass |-> 0]

Fault == faults < MaxFaults /\ faults' = faults + 1

-----------------------------------------------------------------------------
(* The producer thread. *)

visited == TypeOrder[visit]

\* Loop head: stop, or note the wake count and start an iteration.
ProducerTop ==
    /\ pc = "top"
    /\ IF terminate
       THEN pc' = "exited" /\ UNCHANGED <<visit, progressed, parked, woken>>
       ELSE /\ pc' = "scan"
            /\ visit' = 1 /\ progressed' = FALSE /\ parked' = TRUE
            /\ woken' = FALSE
    /\ UNCHANGED <<tableVars, workerVars, next, buffer, leases, inFlight,
                   terminate, failed, queue, releases, faults>>

IterationOver == visit > Len(TypeOrder) \/ failed \/ terminate

\* End of an iteration: park when no type has an armed position, else go
\* round (after a short sleep when nothing moved).
ProducerEndIteration ==
    /\ pc = "scan" /\ IterationOver
    /\ pc' = IF ~progressed /\ parked THEN "parked" ELSE "top"
    /\ UNCHANGED <<tableVars, workerVars, visit, next, buffer, progressed,
                   parked, leases, inFlight, woken, terminate, failed, queue,
                   releases, faults>>

ProducerWake ==
    /\ pc = "parked" /\ (terminate \/ woken)
    /\ pc' = "top"
    /\ UNCHANGED <<tableVars, workerVars, visit, next, buffer, progressed,
                   parked, leases, inFlight, woken, terminate, failed, queue,
                   releases, faults>>

\* next_production() of one type.
ProducerScan ==
    /\ pc = "scan" /\ ~IterationOver
    /\ LET kind == NextProduction(visited) IN
       \/ /\ kind \in {"NONE", "PARKED"}
          /\ visit' = visit + 1
          /\ UNCHANGED <<pc, next, buffer, progressed, parked, inFlight>>
       \/ /\ kind \in {"COPY", "SKIP"}
          /\ next' = [module |-> CursorModule(visited),
                      pass |-> cursors[visited].pass]
          /\ parked' = FALSE
          /\ IF kind = "COPY"
             THEN pc' = "acquire" /\ UNCHANGED <<buffer, progressed, inFlight>>
             ELSE /\ pc' = "fetch"
                  /\ buffer' = 0 /\ progressed' = TRUE /\ inFlight' = next'
          /\ UNCHANGED visit
    /\ UNCHANGED <<tableVars, workerVars, leases, woken, terminate, failed,
                   queue, releases, faults>>

\* Faulty variant: releases are left to the drain of the pass.
ProducerAcquireNoReclaim ==
    /\ pc = "acquire"
    /\ IF FreeIn(slots, visited) = {}
       THEN /\ pc' = "scan" /\ visit' = visit + 1
            /\ UNCHANGED <<slots, buffer, progressed, inFlight>>
       ELSE /\ slots' = AfterReserve(slots, visited)
            /\ buffer' = Reserved(slots, visited)
            /\ pc' = "fetch" /\ progressed' = TRUE /\ inFlight' = next
            /\ UNCHANGED visit
    /\ UNCHANGED <<index, pendingSkips, lists, cursors, openPasses, nextPass,
                   passCounts, scheduleLost, workerVars, next, parked, leases,
                   woken, terminate, failed, queue, releases, faults>>

\* acquireEmptyBuffer(): reclaim every release whose event completed, then
\* reserve a slot if one is free.
ProducerAcquire ==
    LET done == {e \in releases : e.done}
        ring == Reclaimed(UNION {e.refs : e \in done})
    IN
    /\ pc = "acquire"
    /\ releases' = releases \ done
    /\ IF FreeIn(ring, visited) = {}
       THEN /\ slots' = ring
            /\ pc' = "scan" /\ visit' = visit + 1
            /\ UNCHANGED <<buffer, progressed, inFlight>>
       ELSE /\ slots' = AfterReserve(ring, visited)
            /\ buffer' = Reserved(ring, visited)
            /\ pc' = "fetch" /\ progressed' = TRUE /\ inFlight' = next
            /\ UNCHANGED visit
    /\ UNCHANGED <<index, pendingSkips, lists, cursors, openPasses, nextPass,
                   passCounts, scheduleLost, workerVars, next, parked, leases,
                   woken, terminate, failed, queue, faults>>

\* get_module_weights_storage(): a daemon module arrives under a lease.
ProducerFetch ==
    /\ pc = "fetch"
    /\ Head(queue[visited]) = next.module
    /\ next.module \notin leases
    /\ leases' = IF Distributed THEN leases \union {next.module} ELSE leases
    /\ pc' = "claim"
    /\ UNCHANGED <<tableVars, workerVars, visit, next, buffer, progressed,
                   parked, inFlight, woken, terminate, failed, queue,
                   releases, faults>>

\* Faulty variant: asks the daemon again whatever the stop flag says.
ProducerFetchRetries == pc = "fetch" /\ Distributed /\ UNCHANGED streamVars
\* Faulty variant: the module is popped before it was fetched.
ProducerFetchCancelledPopping ==
    /\ pc = "fetch" /\ Distributed /\ terminate
    /\ IF buffer = 0 THEN UNCHANGED tableVars ELSE Abandon(visited, buffer)
    /\ inFlight' = Nothing
    /\ pc' = "top"
    /\ queue' = [queue EXCEPT ![visited] = Append(Tail(@), Head(@))]
    /\ UNCHANGED <<workerVars, visit, next, buffer, progressed, parked, leases,
                   woken, terminate, failed, releases, faults>>

\* The daemon has not readied the module and a stop was requested.
ProducerFetchCancelled ==
    /\ pc = "fetch" /\ Distributed /\ terminate
    /\ IF buffer = 0 THEN UNCHANGED tableVars ELSE Abandon(visited, buffer)
    /\ inFlight' = Nothing
    /\ pc' = "top"
    /\ UNCHANGED <<workerVars, visit, next, buffer, progressed, parked, leases,
                   woken, terminate, failed, queue, releases, faults>>

Rotate(s) == Append(Tail(s), Head(s))

\* claim_for_copy(), and the queue's head goes back to its tail.
ProducerClaim ==
    /\ pc = "claim"
    /\ CursorModule(visited) = next.module
    /\ \/ ClaimCopy(visited, buffer) /\ pc' = "copy"
       \/ ClaimSkip(visited, buffer) /\ pc' = "skip"
    /\ queue' = [queue EXCEPT ![visited] = Rotate(@)]
    /\ UNCHANGED <<workerVars, visit, next, buffer, progressed, parked, leases,
                   inFlight, woken, terminate, failed, releases, faults>>

\* The copy is done, or there is none to do: give the daemon lease back.
ProducerReleaseLease ==
    /\ pc \in {"copy", "skip"}
    /\ leases' = leases \ {next.module}
    /\ pc' = IF pc = "copy" THEN "land" ELSE "retire"
    /\ UNCHANGED <<tableVars, workerVars, visit, next, buffer, progressed,
                   parked, inFlight, woken, terminate, failed, queue,
                   releases, faults>>

\* weights_copy_complete() or retire_skip(); the producer is idle again.
ProducerFinish ==
    /\ \/ pc = "land" /\ slots[visited][buffer].name = next.module
                      /\ Landed(visited, buffer)
       \/ pc = "retire" /\ CursorModule(visited) = next.module
                        /\ RetireSkip(visited)
    /\ inFlight' = Nothing
    /\ pc' = "scan" /\ visit' = visit + 1
    /\ UNCHANGED <<workerVars, next, buffer, progressed, parked, leases, woken,
                   terminate, failed, queue, releases, faults>>

\* An exception in the module's production: a fetch or a copy that fails, a
\* lease that cannot be given back (it is then kept).
ProducerFail ==
    /\ pc \in {"fetch", "copy", "skip"}
    /\ Fault
    /\ \/ UNCHANGED leases
       \/ pc = "copy" /\ leases' = leases \ {next.module}
    /\ IF buffer # 0 /\ slots[visited][buffer].state = "FILLING"
       THEN Abandon(visited, buffer) ELSE UNCHANGED tableVars
    /\ failed' = TRUE
    /\ inFlight' = Nothing
    /\ pc' = "top"
    /\ UNCHANGED <<workerVars, visit, next, buffer, progressed, parked, woken,
                   terminate, queue, releases>>

\* The consumer's stream passes the event of an asynchronous release.
EventCompletes ==
    /\ \E e \in releases :
         /\ ~e.done
         /\ releases' = (releases \ {e}) \union {[refs |-> e.refs, done |-> TRUE]}
    /\ UNCHANGED <<tableVars, producerVars, workerVars, woken, terminate,
                   failed, queue, faults>>

Producer ==
    \/ ProducerTop \/ ProducerEndIteration \/ ProducerWake \/ ProducerScan
    \/ ProducerAcquire \/ ProducerFetch \/ ProducerFetchCancelled
    \/ ProducerClaim \/ ProducerReleaseLease \/ ProducerFinish

-----------------------------------------------------------------------------
(* The worker: phases and passes. *)

\* A forward loop opens a scope; the producer of an installed phase runs.
EnterScope ==
    /\ wpc = "out" /\ (pc # "stopped" \/ Installed = {})
    /\ wpc' = "in"
    /\ UNCHANGED <<tableVars, producerVars, after, current, carried, owed,
                   want, closeFailed, woken, terminate, failed, queue,
                   releases, faults>>

\* begin(): take the carried pass, or arm one (0 when nothing is installed).
Begin ==
    /\ wpc = "in" /\ current = None
    /\ \/ /\ carried # None
          /\ current' = carried /\ carried' = None
          /\ wpc' = "begun"
          /\ UNCHANGED <<tableVars, after>>
       \/ /\ carried = None /\ nextPass <= MaxPass
          /\ BeginPass
          /\ current' = nextPass
          /\ wpc' = "wake" /\ after' = "begun"
          /\ UNCHANGED carried
       \/ /\ carried = None /\ Installed = {} /\ ~scheduleLost
          /\ current' = NoPass
          /\ wpc' = "begun"
          /\ UNCHANGED <<tableVars, after, carried>>
    /\ owed' = Installed
    /\ UNCHANGED <<producerVars, want, closeFailed, woken, terminate, failed,
                   queue, releases, faults>>

\* begin(carry=True) also arms the pass of the forward that follows.
Carry ==
    /\ wpc = "begun"
    /\ \/ /\ current # NoPass /\ nextPass <= MaxPass
          /\ BeginPass
          /\ carried' = nextPass
          /\ wpc' = "wake" /\ after' = "fwd"
       \/ wpc' = "fwd" /\ UNCHANGED <<tableVars, carried, after>>
    /\ UNCHANGED <<producerVars, current, owed, want, closeFailed, woken,
                   terminate, failed, queue, releases, faults>>

\* begin_weight_pass() wakes the producer once the pass is armed.
WakeProducer ==
    /\ wpc = "wake"
    /\ woken' = TRUE
    /\ wpc' = after
    /\ UNCHANGED <<tableVars, producerVars, after, current, carried, owed,
                   want, closeFailed, terminate, failed, queue, releases,
                   faults>>

\* The forward leases a type's modules in list order, and asks for another
\* only while it leaves the ring a slot.
MayWant(m) ==
    /\ m \in owed
    /\ \A o \in owed : TypeOf(o) = TypeOf(m) => PositionOf(m) <= PositionOf(o)
    /\ Cardinality({i \in DOMAIN slots[TypeOf(m)] :
                      slots[TypeOf(m)][i].state = "LEASED"})
         < Len(slots[TypeOf(m)])

AskWeights ==
    /\ wpc = "fwd"
    /\ \E m \in owed : MayWant(m) /\ want' = m
    /\ wpc' = "get"
    /\ UNCHANGED <<tableVars, producerVars, after, current, carried, owed,
                   closeFailed, woken, terminate, failed, queue, releases,
                   faults>>

\* get_weights() returns.
GetWeights ==
    /\ wpc = "get" /\ ~failed
    /\ Lease(want)
    /\ owed' = owed \ {want}
    /\ want' = None
    /\ wpc' = "fwd"
    /\ UNCHANGED <<producerVars, after, current, carried, closeFailed, woken,
                   terminate, failed, queue, releases, faults>>

\* free_weights_buffer(): a helper thread may call it while the worker waits.
FreeWeights ==
    /\ wpc \in {"fwd", "get"}
    /\ \E m \in Modules : Release(m)
    /\ UNCHANGED <<producerVars, workerVars, woken, terminate, failed, queue,
                   releases, faults>>

\* free_weights_buffers_async().
FreeWeightsAsync ==
    /\ wpc = "fwd"
    /\ \E ms \in (SUBSET Modules) \ {{}} :
         /\ ReleaseAsync(ms)
         /\ releases' = releases \union {[refs |-> RefsOf(ms), done |-> FALSE]}
    /\ UNCHANGED <<producerVars, workerVars, woken, terminate, failed, queue,
                   faults>>

\* skip_weight_modules(): the routing left these modules without tokens.
SkipWeights ==
    /\ wpc = "fwd" /\ ~failed
    /\ \E ms \in (SUBSET owed) \ {{}} : SkipModules(ms) /\ owed' = owed \ ms
    /\ UNCHANGED <<producerVars, wpc, after, current, carried, want,
                   closeFailed, woken, terminate, failed, queue, releases,
                   faults>>

\* end(): the forward consumed its modules and gave back every lease.
EndForward ==
    /\ wpc = "fwd" /\ owed = {}
    /\ \A m \in Modules : ~LeasedNow(m)
    /\ IF current = NoPass
       THEN wpc' = "in" /\ current' = None /\ UNCHANGED after
       ELSE wpc' = "drain" /\ after' = "in" /\ UNCHANGED current
    /\ UNCHANGED <<tableVars, producerVars, carried, owed, want, closeFailed,
                   woken, terminate, failed, queue, releases, faults>>

LeaveScope ==
    /\ wpc = "in"
    /\ wpc' = "close" /\ after' = "out"
    /\ UNCHANGED <<tableVars, producerVars, current, carried, owed, want,
                   closeFailed, woken, terminate, failed, queue, releases,
                   faults>>

\* A phase switch first closes what is still open.
SwitchPhase ==
    /\ wpc = "out"
    /\ wpc' = "close" /\ after' = "stop"
    /\ UNCHANGED <<tableVars, producerVars, current, carried, owed, want,
                   closeFailed, woken, terminate, failed, queue, releases,
                   faults>>

\* The pass end() or close() is about to end.
Ending == IF current # None THEN current ELSE carried

\* close(): cancel the current, then the carried pass, and end each.
ClosePass ==
    /\ wpc = "close"
    /\ IF Ending \in {None, NoPass}
       THEN wpc' = after /\ current' = None /\ UNCHANGED tableVars
       ELSE CancelPass(Ending) /\ wpc' = "drain" /\ UNCHANGED current
    /\ UNCHANGED <<producerVars, after, carried, owed, want, closeFailed,
                   woken, terminate, failed, queue, releases, faults>>

\* Faulty variant: the last copies may still be in flight.
DrainedWhileFilling(p) == ProducerFinished(p)

Drained(p) ==
    /\ ProducerFinished(p)
    /\ \A r \in Refs :
         At(r).name # None /\ At(r).pass = p => At(r).state # "FILLING"

\* wait_pass_drained(), which then waits for every release event.
DrainPass ==
    /\ wpc = "drain" /\ ~failed
    /\ openPasses # <<>> /\ CurrentPass = Ending
    /\ Drained(Ending)
    /\ \A e \in releases : e.done
    /\ Reclaim(UNION {e.refs : e \in releases})
    /\ releases' = {}
    /\ wpc' = "check"
    /\ UNCHANGED <<producerVars, after, current, carried, owed, want,
                   closeFailed, woken, terminate, failed, queue, faults>>

NoLeaseForPass(p) ==
    \A m \in leases : m = inFlight.module /\ inFlight.pass > p

\* require_no_daemon_lease_for_pass().
CheckLeases ==
    /\ wpc = "check" /\ NoLeaseForPass(Ending)
    /\ wpc' = "end"
    /\ UNCHANGED <<tableVars, producerVars, after, current, carried, owed,
                   want, closeFailed, woken, terminate, failed, queue,
                   releases, faults>>

\* end_pass(), and _WeightPasses forgets the pass.
FinishPass ==
    /\ wpc = "end" /\ ~failed
    /\ EndPass(Ending)
    /\ IF current # None
       THEN current' = None /\ UNCHANGED carried
       ELSE carried' = None /\ UNCHANGED current
    /\ wpc' = IF after = "in" THEN "in" ELSE "close"
    /\ UNCHANGED <<producerVars, after, owed, want, closeFailed, woken,
                   terminate, failed, queue, releases, faults>>

-----------------------------------------------------------------------------
(* The worker: exceptions, aborts and installs. *)

\* A call the engine refuses.
Refused ==
    CASE wpc = "get"   -> failed \/ CheckLease(want) = "THROW"
      [] wpc = "fwd"   -> failed /\ owed # {}
      [] wpc = "close" -> Ending \notin Open \union {None, NoPass}
                          \/ \E r \in Held : At(r).pass = Ending
                                             /\ At(r).state = "LEASED"
      [] wpc = "drain" -> failed \/ openPasses = <<>> \/ CurrentPass # Ending
      [] wpc = "check" -> ~NoLeaseForPass(Ending)
      [] wpc = "end"   -> failed \/ ~CanEnd(Ending)
      [] OTHER -> FALSE

\* In a scope's body an exception leads to the abort; out of close() it just
\* propagates.
Unwind ==
    /\ IF wpc \in {"close", "drain", "check", "end"} /\ after # "in"
       THEN wpc' = "out" /\ closeFailed' = TRUE
       ELSE wpc' = "abort" /\ UNCHANGED closeFailed
    /\ want' = None
    /\ owed' = {}
    /\ UNCHANGED <<tableVars, producerVars, after, current, carried, woken,
                   terminate, failed, queue, releases>>

EngineRaises == Refused /\ Unwind /\ UNCHANGED faults

\* A stalled wait, or an exception of the forward itself.
ForwardRaises == wpc \in {"fwd", "get", "drain"} /\ Fault /\ Unwind

\* _abort(): forget the passes; with one open, stop the producer.
AbortScope ==
    /\ wpc = "abort"
    /\ current' = None /\ carried' = None
    /\ IF {current, carried} \subseteq {None, NoPass}
       THEN wpc' = "out" /\ UNCHANGED after
       ELSE wpc' = "stop" /\ after' = "abort"
    /\ UNCHANGED <<tableVars, producerVars, owed, want, closeFailed, woken,
                   terminate, failed, queue, releases, faults>>

\* stop_h2d_worker(): raise the flag, wake the producer ...
StopProducer ==
    /\ wpc = "stop"
    /\ terminate' = TRUE /\ woken' = TRUE
    /\ wpc' = "join"
    /\ UNCHANGED <<tableVars, producerVars, after, current, carried, owed,
                   want, closeFailed, failed, queue, releases, faults>>

\* ... and join it.  A producer failure is raised, after the join.
JoinProducer ==
    /\ wpc = "join" /\ pc \in {"exited", "stopped"}
    /\ pc' = "stopped"
    /\ wpc' = CASE after = "abort" -> "drop"
                [] after # "abort" /\ failed -> "out"
                [] OTHER -> "reset"
    /\ UNCHANGED <<tableVars, visit, next, buffer, progressed, parked, leases,
                   inFlight, after, current, carried, owed, want, closeFailed,
                   woken, terminate, failed, queue, releases, faults>>

\* abort_weight_passes(), with the device idle.  A lease whose release fails
\* stays.
DropPasses ==
    /\ wpc = "drop"
    /\ \/ leases' = {} /\ UNCHANGED faults
       \/ leases # {} /\ Fault /\ UNCHANGED leases
    /\ releases' = {}
    /\ AbortPasses(Distributed)
    /\ queue' = lists
    /\ inFlight' = Nothing
    /\ closeFailed' = FALSE
    /\ wpc' = "out"
    /\ UNCHANGED <<pc, visit, next, buffer, progressed, parked, after, current,
                   carried, owed, want, woken, terminate, failed>>

\* reset_prefill_buffer() / reset_decoding_buffer(); a streamed-SP8 re-entry
\* keeps its ring.
ResetRing ==
    /\ wpc = "reset"
    /\ \/ /\ \E layout \in Layouts : ResetTypes(layout)
          /\ releases' = {}
       \/ UNCHANGED <<tableVars, releases>>
    /\ wpc' = "install"
    /\ UNCHANGED <<producerVars, after, current, carried, owed, want,
                   closeFailed, woken, terminate, failed, queue, faults>>

\* set_weight_copy_queue(), and start_h2d_worker() when there is work.
InstallPhase ==
    /\ wpc = "install"
    /\ \E tasks \in Tasks :
         /\ Install(tasks)
         /\ queue' = tasks
         /\ IF \E t \in ModuleTypes : tasks[t] # <<>>
            THEN pc' = "top" /\ terminate' = FALSE
            ELSE UNCHANGED <<pc, terminate>>
    /\ failed' = FALSE
    /\ wpc' = "out"
    /\ UNCHANGED <<visit, next, buffer, progressed, parked, leases, inFlight,
                   after, current, carried, owed, want, closeFailed, woken,
                   releases, faults>>

InstallRefused ==
    /\ wpc = "install"
    /\ scheduleLost \/ openPasses # <<>> \/ Held # {}
    /\ wpc' = "out"
    /\ UNCHANGED <<tableVars, producerVars, after, current, carried, owed,
                   want, closeFailed, woken, terminate, failed, queue,
                   releases, faults>>

Worker ==
    \/ EnterScope \/ Begin \/ Carry \/ WakeProducer \/ AskWeights \/ GetWeights
    \/ FreeWeights \/ FreeWeightsAsync \/ SkipWeights \/ EndForward
    \/ LeaveScope \/ SwitchPhase \/ ClosePass \/ DrainPass \/ CheckLeases
    \/ FinishPass \/ EngineRaises \/ ForwardRaises \/ AbortScope
    \/ StopProducer \/ JoinProducer \/ DropPasses \/ ResetRing \/ InstallPhase \/ InstallRefused

StreamInit ==
    /\ Init
    /\ pc = "stopped" /\ visit = 1 /\ next = Nothing /\ buffer = 0
    /\ progressed = FALSE /\ parked = TRUE
    /\ woken = FALSE /\ terminate = FALSE /\ failed = FALSE
    /\ queue = lists /\ leases = {} /\ inFlight = Nothing
    /\ releases = {}
    /\ wpc = "out" /\ after = "out" /\ current = None /\ carried = None
    /\ owed = {} /\ want = None /\ closeFailed = FALSE
    /\ faults = 0

StreamNext == Producer \/ ProducerFail \/ EventCompletes \/ Worker

StreamSpec == StreamInit /\ [][StreamNext]_streamVars

\* The producer thread runs until it waits for the daemon.
ProducerStep ==
    \/ ProducerTop \/ ProducerEndIteration \/ ProducerWake \/ ProducerScan
    \/ ProducerAcquire \/ ProducerFetchCancelled \/ ProducerClaim
    \/ ProducerReleaseLease \/ ProducerFinish

\* The threads are scheduled and the device executes its queue; the daemon may
\* never hand a module over.
ThreadFairness ==
    /\ WF_streamVars(ProducerStep)
    /\ WF_streamVars(EventCompletes)
    /\ WF_streamVars(GetWeights) /\ WF_streamVars(DrainPass)
    /\ WF_streamVars(JoinProducer) /\ WF_streamVars(EngineRaises)

FairSpec == StreamSpec /\ ThreadFairness
\* The daemon hands over every module asked of it.
DaemonAnswers == WF_streamVars(ProducerFetch)
\* The worker, too, keeps running.
RecoverySpec == FairSpec /\ DaemonAnswers /\ WF_streamVars(Worker)

-----------------------------------------------------------------------------
(* Properties. *)

\* The producer's calls are never refused: the module it fetches heads its
\* queue and is not leased to it already; when it claims, the cursor is still
\* at the module it fetched and a copy finds its reserved slot and no earlier
\* copy; when it lands, the slot is its own; when it retires a skip, the skip
\* is pending.  Skips, cancels and carries run in between.
ProducerNeverRefused ==
    /\ pc = "fetch" =>
         Head(queue[visited]) = next.module /\ next.module \notin leases
    /\ pc = "claim" =>
         /\ CursorModule(visited) = next.module
         /\ NextProduction(visited) \in {"COPY", "SKIP"}
         /\ NextProduction(visited) = "COPY" =>
              /\ buffer # 0
              /\ slots[visited][buffer] = [FreeSlot EXCEPT !.state = "FILLING"]
              /\ <<next.module, next.pass>> \notin DOMAIN index
    /\ pc \in {"copy", "land"} =>
         /\ slots[visited][buffer].state = "FILLING"
         /\ slots[visited][buffer].name = next.module
    /\ pc \in {"skip", "retire"} =>
         /\ NextProduction(visited) = "SKIP"
         /\ CursorModule(visited) = next.module

\* A worker whose closes succeeded is never refused by the engine: the module
\* it waits for is neither skipped nor consumed, the pass it ends is the oldest
\* one, drained of slots, skips and daemon leases, and the phase it installs
\* finds no open pass and no held slot.
WorkerNeverRefused ==
    ~failed /\ ~closeFailed =>
        ~Refused /\ (wpc = "install" => openPasses = <<>> /\ Held = {})

\* When a pass ends, every installed module was copied or skipped in it, once.
PassAccounted ==
    wpc = "end" /\ ~failed /\ CanEnd(Ending) =>
        \A t \in ModuleTypes :
            passCounts[Ending][t].copied + passCounts[Ending][t].skipped
                = Len(lists[t])

\* Between modules the rotating queue of every type is at its cursor, so the
\* next pass reads the list in the order the daemon serves it.
QueueAtCursor ==
    pc \in {"top", "scan", "parked", "stopped"} /\ ~failed =>
        \A t \in ModuleTypes : lists[t] # <<>> => Head(queue[t]) = CursorModule(t)

\* A worker that waits for a module gets it or an exception, if the daemon
\* answers: no wakeup is lost.
WeightsArrive == DaemonAnswers => (wpc = "get" ~> wpc # "get")

\* A pass whose end was requested drains, or its wait raises, if the daemon
\* answers.
PassesDrain == DaemonAnswers => (wpc = "drain" ~> wpc # "drain")

\* A stop request ends the producer thread even if the daemon never answers.
StopCompletes == wpc = "join" ~> wpc # "join"

\* "The producer restarts with the next phase install": a phase switch that
\* stops the producer goes on to install its lists.
SwitchInstalls == (wpc = "join" /\ after = "stop") ~> wpc = "install"
=============================================================================
