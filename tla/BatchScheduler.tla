---------------------------- MODULE BatchScheduler ----------------------------
(***************************************************************************)
(* How batch requests and agent turns travel from the HTTP handlers to the *)
(* worker cohort and back, and what a failed or restarted cohort does to   *)
(* them:                                                                   *)
(*   src/batchgen/server/batch_scheduler.py (queue, drain, completion pump *)
(*   and listener, finalizer, turns, quiesce and resume),                  *)
(*   src/batchgen/server/intake_pool.py, scheduling_pool.py, storage.py,   *)
(*   http_server.py (create and cancel), and the hooks worker_manager.py   *)
(*   runs when a cohort fails or restarts.                                 *)
(*                                                                         *)
(* Tasks of the event loop are atomic between two awaits, so an action of  *)
(* the loop needs LoopFree. Two other threads run beside it: the pump of   *)
(* the live generation, and the manager's thread, which handles a failed   *)
(* cohort or runs a restart. One pass of the drain is two actions, because *)
(* the manager's thread may quiesce the scheduler in the middle of it.     *)
(*                                                                         *)
(* Abstracted: prompts, results and output files (a result line is the     *)
(* name of its request), priorities (the API submits all entries alike),   *)
(* the published slot capacity (taken as published) and the 24 h timeout   *)
(* (may fire at any time). A drain pass is assumed not to outlast the      *)
(* respawn of a cohort.                                                    *)
(***************************************************************************)
EXTENDS Integers, FiniteSets, Sequences, SequencesExt

CONSTANTS
    Batches,
    RequestsOf,       \* RequestsOf[b]: the requests of batch b, in file order
    Turns,
    Capacity,         \* slots of the SchedulingPool
    IntakeCapacity,   \* max_capacity of the IntakePool
    FaultKinds,       \* the ways a worker, its channel or a completion's handling may fail
    MaxFaults,        \* bound: faults injected
    MaxRestarts       \* bound: restarts requested

None == "none"

ASSUME SchedulerAssumption ==
    /\ None \notin Batches
    /\ \A b \in Batches : RequestsOf[b] \in Seq(ToSet(RequestsOf[b])) /\ Len(RequestsOf[b]) > 0
    /\ \A b, c \in Batches : ToSet(RequestsOf[b]) \intersect ToSet(RequestsOf[c]) # {} => b = c
    /\ Capacity \in Nat \ {0} /\ IntakeCapacity \in Nat \ {0}
    /\ FaultKinds \subseteq {"duplicate", "request_error", "fatal", "died", "channel_error",
                              "write_error", "unroutable"}
    /\ MaxFaults \in Nat /\ MaxRestarts \in Nat

VARIABLES
    status,       \* storage: the status of each batch
    queue,        \* _queue: created batches not yet processed
    tracked,      \* batches with a BatchTracker
    count,        \* tracker.completed_requests
    errored,      \* batches whose tracker.error is set
    counted,      \* _completed_requests
    waiting,      \* batches whose _wait_and_finalize_batch runs
    lines,        \* requests whose result line is written
    unwritten,    \* history: completed requests whose line was not written
    unrouted,     \* history: requests whose completion the listener skipped
    intake,       \* the IntakePool: requests and turns, in order
    active,       \* _active_slots: the holders of a slot
    drained,      \* what a pass of the drain holds between its two actions
    drainUp,      \* the drain task lives
    quiesced,     \* _quiesced
    acked,        \* _quiesce_ack
    pool,         \* WorkerManager._state
    mgr,          \* where the manager's thread is
    restarting,   \* the manager's thread runs a restart, not a failure handler
    reconciled,   \* _reconciled_failure
    failing,      \* the trackers _fail_all_active_batches has still to visit
    checked,      \* the one it found active and is about to fail
    gen,          \* _pump_generation
    pumpUp,       \* the pump of the live generation runs
    responses,    \* the live response queue
    calls,        \* callbacks scheduled on the loop from other threads
    inbox,        \* _completion_inbox
    atWorker,     \* admitted to the live cohort and not completed by it
    workerUp,     \* the cohort runs
    gateClosed,   \* _turn_gate_closed
    turn,         \* each turn's waiter and how it ended
    detached,     \* _detached_turns
    born,         \* history: the generation a batch was registered under
    disrupted,    \* history: the last generation whose cohort failed or was killed
    faults,
    restarts

lineVars == <<lines, unwritten, unrouted>>
batchVars == <<status, queue, tracked, count, errored, counted, waiting, lineVars, born>>
poolVars == <<intake, active>>
drainVars == <<drained, drainUp>>
mgrVars == <<quiesced, acked, pool, mgr, restarting, reconciled, failing, checked, restarts>>
pumpVars == <<gen, pumpUp, responses, calls, inbox>>
workerVars == <<atWorker, workerUp, disrupted>>
turnVars == <<gateClosed, turn, detached>>
vars == <<batchVars, poolVars, drainVars, mgrVars, pumpVars, workerVars, turnVars, faults>>

Requests == UNION {ToSet(RequestsOf[b]) : b \in Batches}
BatchOf(r) == CHOOSE b \in Batches : r \in ToSet(RequestsOf[b])
Total(b) == Len(RequestsOf[b])

LoopFree == drained = <<>>
IsComplete(b) == count[b] >= Total(b)
Pending == {t \in Turns : turn[t] = "pending"}
Without(seq, S) == SelectSeq(seq, LAMBDA i : i \notin S)
FreeSlots == Capacity - Cardinality(active)

\* submit_batch accepts all entries or none.
Fits(n) == Len(intake) + n <= IntakeCapacity

Init ==
    /\ status = [b \in Batches |-> "none"]
    /\ queue = <<>> /\ tracked = {} /\ errored = {} /\ counted = {} /\ waiting = {}
    /\ lines = {} /\ unwritten = {} /\ unrouted = {}
    /\ count = [b \in Batches |-> 0] /\ born = [b \in Batches |-> 0]
    /\ intake = <<>> /\ active = {}
    /\ drained = <<>> /\ drainUp = TRUE
    /\ quiesced = FALSE /\ acked = FALSE
    /\ pool = "serving" /\ mgr = "idle" /\ restarting = FALSE /\ reconciled = FALSE
    /\ failing = {} /\ checked = None
    /\ gen = 1 /\ pumpUp = TRUE /\ responses = <<>> /\ calls = <<>> /\ inbox = <<>>
    /\ atWorker = {} /\ workerUp = TRUE /\ disrupted = 0
    /\ gateClosed = FALSE /\ turn = [t \in Turns |-> "new"] /\ detached = {}
    /\ faults = 0 /\ restarts = 0

Fault(kind) == kind \in FaultKinds /\ faults < MaxFaults /\ faults' = faults + 1

-----------------------------------------------------------------------------
(* Batches                                                                 *)

\* POST /v1/batches: refused unless the pool serves and the intake is below 90%.
CreateBatch(b) ==
    /\ LoopFree
    /\ status[b] = "none" /\ pool = "serving" /\ 10 * Len(intake) <= 9 * IntakeCapacity
    /\ status' = [status EXCEPT ![b] = "validating"]
    /\ queue' = Append(queue, b)
    /\ UNCHANGED <<tracked, count, errored, counted, waiting, lineVars, born, poolVars, drainVars,
                   mgrVars, pumpVars, workerVars, turnVars, faults>>

\* POST /v1/batches/{id}/cancel: only the stored status changes.
CancelBatch(b) ==
    /\ LoopFree
    /\ status[b] \in {"validating", "in_progress"}
    /\ status' = [status EXCEPT ![b] = "cancelled"]
    /\ UNCHANGED <<queue, tracked, count, errored, counted, waiting, lineVars, born, poolVars,
                   drainVars, mgrVars, pumpVars, workerVars, turnVars, faults>>

\* _process_batch of a cancelled batch, or of one whose input is unusable.
SkipBatch ==
    /\ LoopFree /\ queue # <<>>
    /\ LET b == Head(queue)
       IN  status' = [status EXCEPT ![b] = IF @ = "cancelled" THEN @ ELSE "failed"]
    /\ queue' = Tail(queue)
    /\ UNCHANGED <<tracked, count, errored, counted, waiting, lineVars, born, poolVars, drainVars,
                   mgrVars, pumpVars, workerVars, turnVars, faults>>

\* _process_batch_pool_mode: the tracker is registered before the entries are
\* submitted; a batch that does not fit whole is rejected whole, and keeps it.
ProcessBatch ==
    /\ LoopFree /\ queue # <<>>
    /\ LET b == Head(queue)
           fits == Fits(Total(b))
       IN  /\ status[b] # "cancelled"
           /\ status' = [status EXCEPT ![b] = IF fits THEN "in_progress" ELSE "failed"]
           /\ tracked' = tracked \union {b}
           /\ intake' = IF fits THEN intake \o RequestsOf[b] ELSE intake
           /\ waiting' = IF fits THEN waiting \union {b} ELSE waiting
           /\ born' = [born EXCEPT ![b] = gen]
    /\ queue' = Tail(queue)
    /\ UNCHANGED <<count, errored, counted, lineVars, active, drainVars, mgrVars, pumpVars,
                   workerVars, turnVars, faults>>

\* _wait_and_finalize_batch: a complete tracker is finalized even if it was
\* failed too. _finalize_batch_output removes the tracker and its dedup keys.
FinalizeComplete(b) ==
    /\ LoopFree
    /\ b \in waiting /\ b \in tracked /\ IsComplete(b)
    /\ waiting' = waiting \ {b}
    /\ status' = [status EXCEPT ![b] = "completed"]
    /\ tracked' = tracked \ {b}
    /\ counted' = counted \ ToSet(RequestsOf[b])
    /\ UNCHANGED <<queue, count, errored, lineVars, born, poolVars, drainVars, mgrVars, pumpVars,
                   workerVars, turnVars, faults>>

\* A tracker failed meanwhile; it stays.
FinalizeFailed(b) ==
    /\ LoopFree
    /\ b \in waiting /\ ~IsComplete(b) /\ b \in errored
    /\ waiting' = waiting \ {b}
    /\ status' = [status EXCEPT ![b] = "failed"]
    /\ UNCHANGED <<queue, tracked, count, errored, counted, lineVars, born, poolVars, drainVars,
                   mgrVars, pumpVars, workerVars, turnVars, faults>>

\* The batch took longer than _batch_timeout; its tracker and queued entries stay.
FinalizeTimeout(b) ==
    /\ LoopFree
    /\ b \in waiting /\ ~IsComplete(b) /\ b \notin errored
    /\ faults < MaxFaults /\ faults' = faults + 1
    /\ waiting' = waiting \ {b}
    /\ status' = [status EXCEPT ![b] = "failed"]
    /\ UNCHANGED <<queue, tracked, count, errored, counted, lineVars, born, poolVars, drainVars,
                   mgrVars, pumpVars, workerVars, turnVars>>

-----------------------------------------------------------------------------
(* Turns                                                                   *)

\* submit_turn: the gate check and the registration share one loop step.
SubmitTurn(t) ==
    /\ LoopFree
    /\ turn[t] = "new"
    /\ pool = "serving" /\ ~gateClosed
    /\ Fits(1)
    /\ turn' = [turn EXCEPT ![t] = "pending"]
    /\ intake' = Append(intake, t)
    /\ UNCHANGED <<batchVars, active, drainVars, mgrVars, pumpVars, workerVars, gateClosed,
                   detached, faults>>

\* cancel_turn: dequeued if it is still in the intake, detached otherwise.
CancelTurn(t) ==
    /\ LoopFree
    /\ turn[t] = "pending"
    /\ turn' = [turn EXCEPT ![t] = "aborted"]
    /\ intake' = Without(intake, {t})
    /\ detached' = IF t \in ToSet(intake) THEN detached ELSE detached \union {t}
    /\ UNCHANGED <<batchVars, active, drainVars, mgrVars, pumpVars, workerVars, gateClosed, faults>>

\* _close_turn_gate on given entries: all pending turns fail and leave them.
CloseGate(entries) ==
    /\ gateClosed' = TRUE
    /\ turn' = [t \in Turns |-> IF t \in Pending THEN "failed" ELSE turn[t]]
    /\ intake' = Without(entries, Pending)
    /\ detached' = {}

\* _fail_all_active_batches called on the loop: the gate closes inline.
FailAllOnLoop ==
    LET failed == {b \in tracked : ~IsComplete(b) /\ b \notin errored}
    IN  /\ errored' = errored \union failed
        /\ status' = [b \in Batches |-> IF b \in failed THEN "failed" ELSE status[b]]
        /\ CloseGate(Without(intake, UNION {ToSet(RequestsOf[b]) : b \in failed}))
        /\ active' = {}

-----------------------------------------------------------------------------
(* The drain                                                               *)

\* Faulty variant of Stale: entries of failed batches are kept.
StaleUnlessGone(i) ==
    IF i \in Turns THEN turn[i] # "pending" ELSE BatchOf(i) \notin tracked

\* _drop_stale_intake_entries discards these.
Stale(i) ==
    IF i \in Turns THEN turn[i] # "pending"
    ELSE LET b == BatchOf(i) IN b \notin tracked \/ IsComplete(b) \/ b \in errored

\* select_from_intake drains as many entries as there are free slots.
Selected == SubSeq(intake, 1, IF Len(intake) < FreeSlots THEN Len(intake) ELSE FreeSlots)

\* The first half of a pass: select up to the free slots and allocate them.
DrainSelect ==
    /\ drainUp /\ LoopFree /\ ~quiesced
    /\ intake # <<>> /\ FreeSlots > 0
    /\ drained' = SelectSeq(Selected, LAMBDA i : ~Stale(i))
    /\ intake' = SubSeq(intake, Len(Selected) + 1, Len(intake))
    /\ active' = active \union ToSet(drained')
    /\ UNCHANGED <<batchVars, drainUp, mgrVars, pumpVars, workerVars, turnVars, faults>>

\* The second half, not quiesced meanwhile: the admission message is sent.
DrainSend ==
    /\ drained # <<>> /\ ~quiesced
    /\ atWorker' = atWorker \union ToSet(drained)
    /\ drained' = <<>>
    /\ UNCHANGED <<batchVars, poolVars, drainUp, mgrVars, pumpVars, workerUp, disrupted, turnVars,
                   faults>>

\* Quiesced in between: the entries go back to the front of the intake.
DrainRequeue ==
    /\ drained # <<>> /\ quiesced
    /\ ToSet(drained) \subseteq active
    /\ intake' = drained \o intake
    /\ active' = active \ ToSet(drained)
    /\ drained' = <<>>
    /\ UNCHANGED <<batchVars, drainUp, mgrVars, pumpVars, workerVars, turnVars, faults>>

\* The manager's thread has cleared the slots meanwhile: free_slot raises, and
\* the task fails every batch and ends. Its report finds a pool that does not
\* serve.
DrainDies ==
    /\ drained # <<>> /\ quiesced
    /\ ~(ToSet(drained) \subseteq active)
    /\ LET back == drained \o intake
           failed == {b \in tracked : ~IsComplete(b) /\ b \notin errored}
       IN  /\ errored' = errored \union failed
           /\ status' = [b \in Batches |-> IF b \in failed THEN "failed" ELSE status[b]]
           /\ CloseGate(Without(back, UNION {ToSet(RequestsOf[b]) : b \in failed}))
    /\ active' = {}
    /\ drained' = <<>> /\ drainUp' = FALSE
    /\ UNCHANGED <<queue, tracked, count, counted, waiting, lineVars, born, mgrVars, pumpVars,
                   workerVars, faults>>

\* The top of the drain loop answers quiesce().
DrainAck ==
    /\ drainUp /\ LoopFree /\ quiesced /\ ~acked
    /\ acked' = TRUE
    /\ UNCHANGED <<batchVars, poolVars, drainVars, quiesced, pool, mgr, restarting, reconciled,
                   failing, checked, restarts, pumpVars, workerVars, turnVars, faults>>

-----------------------------------------------------------------------------
(* The cohort, as the scheduler sees it                                    *)

Message(type, id) == [type |-> type, id |-> id]

\* An admitted request completes: with its result, with a result sent twice,
\* or with an error of its own.
Work(i) ==
    /\ workerUp /\ i \in atWorker
    /\ atWorker' = atWorker \ {i}
    /\ \/ responses' = Append(responses, Message("done", i)) /\ UNCHANGED faults
       \/ Fault("duplicate") /\ responses' = responses \o <<Message("done", i), Message("done", i)>>
       \/ Fault("request_error") /\ responses' = Append(responses, Message("error", i))
    /\ UNCHANGED <<batchVars, poolVars, drainVars, mgrVars, gen, pumpUp, calls, inbox, workerUp,
                   disrupted, turnVars>>

\* The cohort ends, after reporting a fatal error or silently.
WorkerEnds ==
    /\ workerUp
    /\ \/ Fault("fatal") /\ responses' = Append(responses, Message("fatal", None))
       \/ Fault("died") /\ UNCHANGED responses
    /\ workerUp' = FALSE
    /\ disrupted' = gen
    /\ UNCHANGED <<batchVars, poolVars, drainVars, mgrVars, gen, pumpUp, calls, inbox, atWorker,
                   turnVars>>

-----------------------------------------------------------------------------
(* Completions                                                             *)

Offer(m) == [call |-> "offer", gen |-> gen, m |-> m]
CloseCall == [call |-> "close"]
OpenCall == [call |-> "open"]

\* What ends a pump: `"error" in item` holds of a request's own error too.
Terminal(m) == m.type \in {"fatal", "error", "channel_error"}

\* One turn of _completion_pump: the item is handed to the loop with its
\* generation. An item forwarded after the pump was superseded is dropped by
\* Callback, as one forwarded just before is.
PumpForward ==
    /\ pumpUp /\ responses # <<>>
    /\ calls' = Append(calls, Offer(Head(responses)))
    /\ responses' = Tail(responses)
    /\ pumpUp' = ~Terminal(Head(responses))
    /\ UNCHANGED <<batchVars, poolVars, drainVars, mgrVars, gen, inbox, workerVars, turnVars, faults>>

\* The live channel cannot be read: the pump reports that and ends.
PumpFails ==
    /\ pumpUp /\ Fault("channel_error")
    /\ calls' = Append(calls, Offer(Message("channel_error", None)))
    /\ pumpUp' = FALSE
    /\ disrupted' = gen
    /\ UNCHANGED <<batchVars, poolVars, drainVars, mgrVars, gen, responses, inbox, atWorker,
                   workerUp, turnVars>>

\* The loop runs the next callback: _offer_completion, which accepts an item
\* of the live generation only, _close_turn_gate or _open_turn_gate.
Callback ==
    /\ LoopFree /\ calls # <<>>
    /\ calls' = Tail(calls)
    /\ LET c == Head(calls)
       IN  \/ /\ c.call = "offer"
              /\ inbox' = IF c.gen = gen THEN Append(inbox, [gen |-> c.gen, m |-> c.m]) ELSE inbox
              /\ UNCHANGED <<intake, turnVars>>
           \/ c.call = "close" /\ CloseGate(intake) /\ UNCHANGED inbox
           \/ c.call = "open" /\ gateClosed' = FALSE /\ UNCHANGED <<intake, turn, detached, inbox>>
    /\ UNCHANGED <<batchVars, active, drainVars, mgrVars, gen, pumpUp, responses, workerVars, faults>>

\* _resolve_turn: the waiter gets its result, or a detachment ends.
ResolveTurn(i) ==
    /\ turn' = [t \in Turns |-> IF t = i /\ t \in Pending THEN "answered" ELSE turn[t]]
    /\ detached' = detached \ {i}

\* _write_pool_completion, while the batch has its metadata: a result line. An
\* error of the write is swallowed, and without an incremental directory nothing
\* is written; the request is counted all the same.
WriteLine(i) ==
    IF i \in Requests /\ BatchOf(i) \in tracked
    THEN \/ lines' = lines \union {i} /\ UNCHANGED <<unwritten, faults>>
         \/ Fault("write_error") /\ unwritten' = unwritten \union {i} /\ UNCHANGED lines
    ELSE UNCHANGED <<lines, unwritten, faults>>

\* Faulty variant of MarkCompleted: a completion is counted each time it comes.
MarkCompletedTwice(i) ==
    /\ count' = IF i \in Requests /\ BatchOf(i) \in tracked
                THEN [count EXCEPT ![BatchOf(i)] = @ + 1] ELSE count
    /\ counted' = IF i \in Requests THEN counted \union {i} ELSE counted

\* mark_request_completed counts a request once; its key is recorded in any case.
MarkCompleted(i) ==
    /\ count' = IF i \in Requests \ counted /\ BatchOf(i) \in tracked
                THEN [count EXCEPT ![BatchOf(i)] = @ + 1] ELSE count
    /\ counted' = IF i \in Requests THEN counted \union {i} ELSE counted

\* A completion of the live generation, of a request or of a turn.
RouteCompletion(i) ==
    /\ active' = active \ {i}
    /\ ResolveTurn(i) /\ WriteLine(i) /\ MarkCompleted(i)
    /\ UNCHANGED <<status, queue, tracked, errored, waiting, unrouted, born, intake, mgrVars,
                   workerVars, gateClosed>>

\* Building the result line raises: the listener logs it and goes on. The slot
\* is free already, but the request is never counted.
SkipCompletion(i) ==
    /\ i \in Requests /\ BatchOf(i) \in tracked
    /\ Fault("unroutable")
    /\ active' = active \ {i}
    /\ unrouted' = unrouted \union {i}
    /\ UNCHANGED <<status, queue, tracked, count, errored, counted, waiting, lines, unwritten, born,
                   intake, mgrVars, workerVars, turnVars>>

\* pool_shutdown with an error: the batches fail first, the manager is told
\* they are persisted, and its handler, run here on the loop, takes the pool
\* down unless another thread already owns it.
RouteFatal ==
    /\ FailAllOnLoop
    /\ reconciled' = TRUE
    /\ pool' = IF pool = "serving" THEN "workers_down" ELSE pool
    /\ quiesced' = (quiesced \/ pool = "serving")
    /\ workerUp' = (workerUp /\ pool # "serving")
    /\ UNCHANGED <<queue, tracked, count, counted, waiting, lineVars, born, acked, mgr, restarting,
                   failing, checked, restarts, atWorker, disrupted, faults>>

\* channel_error: the batches fail; the pool keeps serving.
RouteChannelError ==
    /\ FailAllOnLoop
    /\ UNCHANGED <<queue, tracked, count, counted, waiting, lineVars, born, mgrVars, workerVars,
                   faults>>

Route(m) ==
    \/ m.type \in {"done", "error"} /\ (RouteCompletion(m.id) \/ SkipCompletion(m.id))
    \/ m.type = "fatal" /\ RouteFatal
    \/ m.type = "channel_error" /\ RouteChannelError

\* Faulty variant of Listen: the generation of a queued item is not checked.
ListenUnchecked ==
    /\ LoopFree /\ inbox # <<>>
    /\ inbox' = Tail(inbox)
    /\ Route(Head(inbox).m)
    /\ UNCHANGED <<drainVars, gen, pumpUp, responses, calls>>

\* _pool_completion_listener takes one item; one of a superseded generation
\* is dropped before it acts.
Listen ==
    /\ LoopFree /\ inbox # <<>>
    /\ inbox' = Tail(inbox)
    /\ IF Head(inbox).gen = gen
       THEN Route(Head(inbox).m)
       ELSE UNCHANGED <<batchVars, poolVars, mgrVars, workerVars, turnVars, faults>>
    /\ UNCHANGED <<drainVars, gen, pumpUp, responses, calls>>

-----------------------------------------------------------------------------
(* The manager's thread: a failed cohort, or a restart                     *)

schedulerVars == <<batchVars, poolVars, drainVars, turnVars>>

\* _handle_worker_failure from the monitor claims the pool.
MonitorClaims ==
    /\ mgr = "idle" /\ pool = "serving" /\ ~workerUp
    /\ pool' = "workers_down" /\ mgr' = "claimed" /\ restarting' = FALSE
    /\ UNCHANGED <<schedulerVars, quiesced, acked, reconciled, failing, checked, restarts,
                   pumpVars, workerVars, faults>>

\* restart_workers claims it. From workers_down it waits for a handler that
\* still tears down, so it starts when the thread is idle.
RestartEnter ==
    /\ mgr = "idle" /\ restarts < MaxRestarts
    /\ pool' = "restarting" /\ mgr' = "claimed" /\ restarting' = TRUE
    /\ restarts' = restarts + 1
    /\ UNCHANGED <<schedulerVars, quiesced, acked, reconciled, failing, checked, pumpVars,
                   workerVars, faults>>

\* quiesce(): the flag is set, then its acknowledgement is awaited.
Quiesce ==
    /\ mgr = "claimed"
    /\ quiesced' = TRUE /\ mgr' = "quiescing"
    /\ UNCHANGED <<schedulerVars, acked, pool, restarting, reconciled, failing, checked, restarts,
                   pumpVars, workerVars, faults>>

\* The acknowledgement, or its 5 s timeout; then the ranks are reaped and
\* _reconcile starts, unless a fatal was persisted already.
TearDown ==
    /\ mgr = "quiescing"
    /\ \/ (acked \/ ~drainUp) /\ UNCHANGED faults
       \/ ~acked /\ drainUp /\ faults < MaxFaults /\ faults' = faults + 1
    /\ workerUp' = FALSE /\ disrupted' = gen
    /\ IF reconciled
       THEN mgr' = "reconciled" /\ UNCHANGED failing
       ELSE mgr' = "failing" /\ failing' = tracked
    /\ UNCHANGED <<schedulerVars, quiesced, acked, pool, restarting, reconciled, checked, restarts,
                   pumpVars, atWorker>>

\* _fail_all_active_batches on this thread looks at one tracker ...
FailCheck(b) ==
    /\ mgr = "failing" /\ checked = None /\ b \in failing
    /\ IF IsComplete(b) \/ b \in errored
       THEN failing' = failing \ {b} /\ UNCHANGED checked
       ELSE checked' = b /\ UNCHANGED failing
    /\ UNCHANGED <<schedulerVars, quiesced, acked, pool, mgr, restarting, reconciled, restarts,
                   pumpVars, workerVars, faults>>

\* Faulty variant of FailWrite: the entries are removed, the batch is left.
FailWriteEntriesOnly ==
    /\ mgr = "failing" /\ checked # None
    /\ intake' = Without(intake, ToSet(RequestsOf[checked]))
    /\ failing' = failing \ {checked} /\ checked' = None
    /\ UNCHANGED <<batchVars, active, drainVars, turnVars, quiesced, acked, pool, mgr, restarting,
                   reconciled, restarts, pumpVars, workerVars, faults>>

\* ... and fails it: tracker, queued entries, stored status.
FailWrite ==
    /\ mgr = "failing" /\ checked # None
    /\ errored' = errored \union {checked}
    /\ intake' = Without(intake, ToSet(RequestsOf[checked]))
    /\ status' = [status EXCEPT ![checked] = "failed"]
    /\ failing' = failing \ {checked} /\ checked' = None
    /\ UNCHANGED <<queue, tracked, count, counted, waiting, lineVars, born, active, drainVars, turnVars,
                   quiesced, acked, pool, mgr, restarting, reconciled, restarts, pumpVars,
                   workerVars, faults>>

\* Faulty variant of FailRest: the turns are left to the completions.
FailRestKeepsTurns ==
    /\ mgr = "failing" /\ failing = {}
    /\ active' = {}
    /\ reconciled' = TRUE /\ mgr' = "reconciled"
    /\ UNCHANGED <<batchVars, intake, drainVars, turnVars, quiesced, acked, pool, restarting,
                   failing, checked, restarts, pumpVars, workerVars, faults>>

\* Then the turns, by a callback on the loop, and the slots, here.
FailRest ==
    /\ mgr = "failing" /\ failing = {}
    /\ calls' = Append(calls, CloseCall)
    /\ active' = {}
    /\ reconciled' = TRUE /\ mgr' = "reconciled"
    /\ UNCHANGED <<batchVars, intake, drainVars, turnVars, quiesced, acked, pool, restarting,
                   failing, checked, restarts, gen, pumpUp, responses, inbox, workerVars, faults>>

HandlerEnds ==
    /\ mgr = "reconciled" /\ ~restarting
    /\ mgr' = "idle"
    /\ UNCHANGED <<schedulerVars, quiesced, acked, pool, restarting, reconciled, failing, checked,
                   restarts, pumpVars, workerVars, faults>>

\* stop_completion_pump, then the channels are abandoned for a fresh pair.
Retire ==
    /\ mgr = "reconciled" /\ restarting
    /\ gen' = gen + 1 /\ pumpUp' = FALSE
    /\ responses' = <<>> /\ atWorker' = {}
    /\ mgr' = "retired"
    /\ UNCHANGED <<schedulerVars, quiesced, acked, pool, restarting, reconciled, failing, checked,
                   restarts, calls, inbox, workerUp, disrupted, faults>>

\* The next cohort is ready, and worker_generation_ready starts its pump.
SpawnReady ==
    /\ mgr = "retired" /\ LoopFree
    /\ workerUp' = TRUE
    /\ gen' = gen + 1 /\ pumpUp' = TRUE
    /\ mgr' = "spawned"
    /\ UNCHANGED <<schedulerVars, quiesced, acked, pool, restarting, reconciled, failing, checked,
                   restarts, responses, calls, inbox, atWorker, disrupted, faults>>

\* resume(): dispatch goes on, and a callback opens the turn gate.
Resume ==
    /\ mgr = "spawned"
    /\ quiesced' = FALSE /\ acked' = FALSE
    /\ calls' = Append(calls, OpenCall)
    /\ mgr' = "resumed"
    /\ UNCHANGED <<schedulerVars, pool, restarting, reconciled, failing, checked, restarts, gen,
                   pumpUp, responses, inbox, workerVars, faults>>

Serve ==
    /\ mgr = "resumed"
    /\ pool' = "serving" /\ reconciled' = FALSE /\ mgr' = "idle"
    /\ UNCHANGED <<schedulerVars, quiesced, acked, restarting, failing, checked, restarts,
                   pumpVars, workerVars, faults>>

\* A restart fails between two of its steps and leaves the pool down.
RestartFails ==
    /\ restarting /\ mgr \in {"claimed", "quiescing", "reconciled", "retired", "spawned"}
    /\ faults < MaxFaults /\ faults' = faults + 1
    /\ pool' = "workers_down" /\ mgr' = "idle"
    /\ UNCHANGED <<schedulerVars, quiesced, acked, restarting, reconciled, failing, checked,
                   restarts, pumpVars, workerVars>>

-----------------------------------------------------------------------------

LoopStep ==
    \/ SkipBatch \/ ProcessBatch
    \/ \E b \in Batches : FinalizeComplete(b) \/ FinalizeFailed(b)
    \/ DrainSelect \/ DrainSend \/ DrainRequeue \/ DrainDies \/ DrainAck
    \/ Callback \/ Listen

ManagerStep ==
    \/ Quiesce \/ TearDown \/ FailWrite \/ FailRest
    \/ \E b \in Batches : FailCheck(b)
    \/ HandlerEnds \/ Retire \/ SpawnReady \/ Resume \/ Serve

ClientStep ==
    \/ \E b \in Batches : CreateBatch(b) \/ CancelBatch(b)
    \/ \E t \in Turns : SubmitTurn(t) \/ CancelTurn(t)

Next ==
    \/ ClientStep \/ LoopStep \/ ManagerStep
    \/ PumpForward \/ PumpFails
    \/ \E i \in Requests \union Turns : Work(i)
    \/ \E b \in Batches : FinalizeTimeout(b)
    \/ WorkerEnds \/ MonitorClaims \/ RestartEnter \/ RestartFails

Spec == Init /\ [][Next]_vars

\* The loop's ready tasks, the pump, a cohort that runs, the monitor and the
\* manager's thread all go on; clients, operators and faults owe nothing.
Fairness ==
    /\ WF_vars(LoopStep) /\ WF_vars(ManagerStep) /\ WF_vars(MonitorClaims)
    /\ WF_vars(PumpForward) /\ WF_vars(\E i \in Requests \union Turns : Work(i))

FairSpec == Spec /\ Fairness

-----------------------------------------------------------------------------
(* Properties                                                              *)

Routed == lines \union unwritten

\* A batch is reported completed only when the completion of every one of its
\* requests was routed, whatever was delivered twice, failed or restarted
\* meanwhile ("All sequences finished", docs/batch-api.md): its output lacks a
\* request's line only if writing that very line failed or was turned off.
CompletesWhole ==
    \A b \in Batches : status[b] = "completed" => ToSet(RequestsOf[b]) \subseteq Routed

\* No more slots are held than there are, and as long as the pump of a running
\* cohort is up, what the cohort works on holds a slot: no late item of an
\* earlier cohort and no cleanup of one frees a slot of this one. Without the
\* pump nothing is claimed: a channel_error clears the slots of a cohort that
\* goes on working, and the pool, which keeps serving, may then send it more
\* than it has room for.
HoldersKeepSlots ==
    Cardinality(active) <= Capacity /\ (workerUp /\ pumpUp => atWorker \subseteq active)

\* A batch is failed for a worker failure only if a cohort that failed or was
\* killed ran under a generation not older than the batch: a stale fatal never
\* reaches a batch of the next cohort.
FailsWithItsWorkers == \A b \in errored : disrupted >= born[b]

\* A batch failed for a worker failure sends no request to any cohort
\* afterwards, requeued entries included.
FailedSendsNothing ==
    [][\A i \in atWorker' \ atWorker : i \in Requests => BatchOf(i) \notin errored]_vars

\* A turn's waiter is never forgotten: a pending turn is queued or holds a slot,
\* and a detached one holds the slot its completion will free, unless the
\* callback that fails and clears all of them is on its way.
TurnsHeld ==
    \/ CloseCall \in ToSet(calls)
    \/ Pending \subseteq ToSet(intake) \union active /\ detached \subseteq active

Over(b) == status[b] \in {"completed", "failed", "cancelled"}

\* The drain lives, and so does the pump of a cohort that runs.
Delivering == drainUp /\ (workerUp /\ mgr = "idle" => pumpUp)

\* No failure counts as reconciled while the scheduler still dispatches.
ReconciledLast == reconciled => quiesced \/ mgr = "resumed"

\* As long as the drain and the live pump run, a failure is reconciled after
\* the scheduler was quiesced, and a pool that fails is reconciled or comes
\* back, every submitted turn is answered, failed or aborted.
TurnsEnd ==
    [](Delivering /\ ReconciledLast) /\ []<>(pool = "serving" \/ reconciled)
        => \A t \in Turns : turn[t] = "pending" ~> turn[t] # "pending"

\* Under the same conditions, if the pool serves in the end, every created
\* batch is completed, failed or cancelled, unless the listener skipped one of
\* its completions: only the 24 h timeout ends that batch.
BatchesEnd ==
    [](Delivering /\ ReconciledLast) /\ <>[](pool = "serving")
        => \A b \in Batches :
             status[b] = "validating" ~> Over(b) \/ ToSet(RequestsOf[b]) \intersect unrouted # {}

\* While the pool serves, a request that the worker failed on its own gets its
\* error item: "Such a request gets the Batch API's error item" (the docstring
\* of _write_pool_completion).
RequestErrorsReported ==
    [](pool = "serving" /\ workerUp) =>
        \A r \in Requests : Message("error", r) \in ToSet(responses) ~> r \in lines
=============================================================================
