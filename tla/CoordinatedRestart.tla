-------------------------- MODULE CoordinatedRestart --------------------------
(***************************************************************************)
(* The coordinated restart of a worker pool that spans several nodes, and  *)
(* how a node's failure reaches the others:                                *)
(*   src/batchgen/server/restart_coordinator.py (the phase protocol over   *)
(*   a store that node 0 hosts, and the follower thread of every node),    *)
(*   src/batchgen/server/worker_manager.py (restart_workers, the handling  *)
(*   of a failed cohort, and stop).                                        *)
(*                                                                         *)
(* Every node runs four threads: the restart (an HTTP worker thread on     *)
(* node 0, the follower on the others), the monitor, the follower and the  *)
(* main thread, which stops the server. A cohort is the set of ranks that  *)
(* one restart spawned on every node, named by the restart's epoch; the    *)
(* cohort of start-up is epoch 0. The model begins with all nodes serving. *)
(*                                                                         *)
(* Abstracted: reasons, results and status keys, heartbeat arithmetic (a   *)
(* peer counts as lost once it is gone), the clock (a deadline passes at   *)
(* any time), and what quiescing, reconciling and the weight daemon's swap *)
(* do inside one node: each either succeeds or raises.                     *)
(***************************************************************************)
EXTENDS Integers, FiniteSets

CONSTANTS
    Nodes,
    Node0,           \* hosts the store; the only node that requests a restart
    FailFastModes,   \* the settings of --cluster-fail-fast to explore
    MaxEpochs,       \* bound: restarts requested
    MaxFaults        \* bound: failures, kills and stops injected

ASSUME ClusterAssumption ==
    /\ Node0 \in Nodes
    /\ FailFastModes \in SUBSET BOOLEAN
    /\ MaxEpochs \in Nat
    /\ MaxFaults \in Nat

VARIABLES
    failFast,        \* --cluster-fail-fast, the same on every node
    epoch,           \* store: the epoch counter
    requests,        \* store: the epochs whose request is written
    okAcks,          \* store: phase acks "ok", as <<epoch, phase, node>>
    failedAcks,      \* store: phase acks "failed:..."
    down,            \* store: cohort-down keys, as <<generation, node>>
    expired,         \* the epochs whose shared deadline has passed
    state,           \* _state, or "gone" once the process has ended
    generation,      \* _generation
    run,             \* the coordinator's _epoch
    at,              \* where the node's restart thread is
    cohort,          \* the epoch of the unreaped ranks, or NoRanks
    broken,          \* the ranks have exited but are not reaped
    queued,          \* a spawn that timed out is still queued on the event loop
    lock,            \* _teardown_lock
    handler,         \* progress of _handle_worker_failure once it claimed
    reaction,        \* what the follower or the watchdog is handing over
    owed,            \* failed restarts whose failure is not published yet
    stopping,        \* stop() has begun
    doomed,          \* the node is to end by fail-fast
    seenDown,        \* down keys the follower has reported
    seenLost,        \* peers the follower has reported as lost
    gaveUp,          \* history: <<epoch, node>> whose restart failed
    faults           \* faults injected so far

store == <<epoch, requests, okAcks, failedAcks, down>>
manager == <<state, generation, run, at>>
ranks == <<cohort, broken, queued>>
threads == <<lock, handler, reaction, owed, doomed, seenDown, seenLost>>
vars == <<failFast, store, expired, manager, ranks, threads, stopping, gaveUp, faults>>

Phases == {"P0", "P1", "P2"}
NoRanks == -1
NoReaction == -2
AnyCohort == -1     \* a reaction that names no generation: a lost peer or store

\* The phase a restart publishes a failure for, by where its thread is.
PhaseOf(pos) ==
    CASE pos \in {"begin", "publish", "reading", "arming", "P0"} -> "P0"
      [] pos \in {"teardown", "armFailed", "P1"} -> "P1"
      [] OTHER -> "P2"

\* The phases from p on, which stop() fails.
Remaining(p) ==
    CASE p = "P0" -> Phases
      [] p = "P1" -> {"P1", "P2"}
      [] p = "P2" -> {"P2"}

Up(n) == state[n] # "gone"
StoreUp == Up(Node0)
Peers(n) == Nodes \ {n}
AllAcked(e, p) == \A m \in Nodes : <<e, p, m>> \in okAcks
PeerFailed(n, e, p) == \E m \in Peers(n) : <<e, p, m>> \in failedAcks
InRestart(n) == at[n] \notin {"idle", "reading"}
Coordinated(n) == InRestart(n) /\ at[n] \notin {"begin", "publish"}

\* The follower of a node other than node 0 runs its restarts, their failure
\* handling and its reactions inline.
FollowerFree(n) ==
    /\ Up(n) /\ ~stopping[n]
    /\ reaction[n] = NoReaction /\ handler[n] # "quiet"
    /\ n # Node0 => at[n] = "idle" /\ owed[n] = {}

Init ==
    /\ failFast \in FailFastModes
    /\ epoch = 0 /\ requests = {} /\ okAcks = {} /\ failedAcks = {} /\ down = {}
    /\ expired = {}
    /\ state = [n \in Nodes |-> "serving"]
    /\ generation = [n \in Nodes |-> 1]
    /\ run = [n \in Nodes |-> 0]
    /\ at = [n \in Nodes |-> "idle"]
    /\ cohort = [n \in Nodes |-> 0]
    /\ broken = [n \in Nodes |-> FALSE]
    /\ queued = [n \in Nodes |-> FALSE]
    /\ lock = [n \in Nodes |-> "free"]
    /\ handler = [n \in Nodes |-> "none"]
    /\ reaction = [n \in Nodes |-> NoReaction]
    /\ owed = [n \in Nodes |-> {}]
    /\ stopping = [n \in Nodes |-> FALSE]
    /\ doomed = [n \in Nodes |-> FALSE]
    /\ seenDown = [n \in Nodes |-> {}]
    /\ seenLost = [n \in Nodes |-> {}]
    /\ gaveUp = {}
    /\ faults = 0

-----------------------------------------------------------------------------
(* The store                                                               *)

\* _write_ack of "ok" replaces whatever this node wrote before.
AckOk(n, e, p) ==
    /\ okAcks' = okAcks \union {<<e, p, n>>}
    /\ failedAcks' = failedAcks \ {<<e, p, n>>}

\* Faulty variant of FailPhases: the failure is not written.
FailPhasesSilently(n, e, ps) == UNCHANGED <<okAcks, failedAcks>>

\* fail_phase for each phase of ps: never over an "ok", nothing on a dead store.
FailPhases(n, e, ps) ==
    /\ failedAcks' = IF StoreUp
                     THEN failedAcks \union ({<<e, p, n>> : p \in ps} \ okAcks)
                     ELSE failedAcks
    /\ UNCHANGED okAcks

-----------------------------------------------------------------------------
(* restart_workers                                                         *)

\* The claim of the pool, on node 0, by POST /v1/workers/restart. The event loop
\* takes the request after whatever was queued on it before.
RestartEnter ==
    /\ epoch < MaxEpochs /\ ~queued[Node0]
    /\ at[Node0] = "idle" /\ state[Node0] \in {"serving", "workers_down"}
    /\ state' = [state EXCEPT ![Node0] = "restarting"]
    /\ at' = [at EXCEPT ![Node0] = "begin"]
    /\ UNCHANGED <<failFast, store, expired, generation, run, ranks, threads, stopping, gaveUp, faults>>

\* begin_restart: the epoch counter is bumped, and then the request is written.
BeginEpoch ==
    /\ at[Node0] = "begin"
    /\ epoch' = epoch + 1
    /\ run' = [run EXCEPT ![Node0] = epoch + 1]
    /\ at' = [at EXCEPT ![Node0] = "publish"]
    /\ UNCHANGED <<failFast, requests, okAcks, failedAcks, down, expired, state, generation,
                   ranks, threads, stopping, gaveUp, faults>>

PublishRequest ==
    /\ at[Node0] = "publish"
    /\ requests' = requests \union {epoch}
    /\ at' = [at EXCEPT ![Node0] = "arming"]
    /\ UNCHANGED <<failFast, epoch, okAcks, failedAcks, down, expired, state, generation, run,
                   ranks, threads, stopping, gaveUp, faults>>

\* _follow_once on another node sees a new epoch. Assumed: the node's event loop
\* is not blocked from one epoch's spawn timeout into the next epoch.
Follow(n) ==
    /\ n # Node0 /\ FollowerFree(n) /\ StoreUp
    /\ epoch > run[n] /\ ~queued[n]
    /\ run' = [run EXCEPT ![n] = epoch]
    /\ at' = [at EXCEPT ![n] = "reading"]
    /\ UNCHANGED <<failFast, store, expired, state, generation, ranks, threads, stopping, gaveUp, faults>>

\* The request is read and the restart claims this node's pool: only this thread
\* ever sets "restarting" here, so it finds the pool serving or down.
ReadRequest(n) ==
    /\ at[n] = "reading" /\ StoreUp
    /\ run[n] \in requests
    /\ state' = [state EXCEPT ![n] = "restarting"]
    /\ at' = [at EXCEPT ![n] = "arming"]
    /\ UNCHANGED <<failFast, store, expired, generation, run, ranks, threads, stopping, gaveUp, faults>>

\* The request does not appear in time, or the store is lost: the node does not
\* join the epoch, and says so.
RequestUnreadable(n) ==
    /\ at[n] = "reading"
    /\ ~StoreUp \/ (run[n] \notin requests /\ faults < MaxFaults)
    /\ faults' = IF StoreUp THEN faults + 1 ELSE faults
    /\ FailPhases(n, run[n], {"P0"})
    /\ at' = [at EXCEPT ![n] = "idle"]
    /\ UNCHANGED <<failFast, epoch, requests, down, expired, state, generation, run,
                   ranks, threads, stopping, gaveUp>>

\* The except block: the pool is retryable before anything is published. What
\* is owed is the phase to fail, and whether every node was ready.
GiveUp(n) ==
    /\ state' = [state EXCEPT ![n] = "workers_down"]
    /\ at' = [at EXCEPT ![n] = "idle"]
    /\ owed' = [owed EXCEPT ![n] =
                   @ \union {[epoch |-> run[n], phase |-> PhaseOf(at[n]), ready |-> at[n] = "hooks"]}]
    /\ gaveUp' = gaveUp \union {<<run[n], n>>}
    /\ UNCHANGED <<generation, run, handler, reaction, doomed, seenDown, seenLost>>

\* Faulty variant of Arm: the teardown lock is taken from whoever holds it.
ArmUnlocked(n) ==
    /\ at[n] = "arming"
    /\ lock' = [lock EXCEPT ![n] = "restart"]
    /\ IF StoreUp
         THEN AckOk(n, run[n], "P0") /\ at' = [at EXCEPT ![n] = "P0"]
         ELSE at' = [at EXCEPT ![n] = "armFailed"] /\ UNCHANGED <<okAcks, failedAcks>>
    /\ UNCHANGED <<failFast, epoch, requests, down, expired, state, generation, run, ranks,
                   handler, reaction, owed, doomed, seenDown, seenLost, stopping, gaveUp, faults>>

\* Quiesced, this node waits for the teardown lock, opens the weight swap and
\* acks P0 on entering the barrier; an unwritable ack is a failed barrier.
Arm(n) ==
    /\ at[n] = "arming" /\ lock[n] = "free"
    /\ lock' = [lock EXCEPT ![n] = "restart"]
    /\ IF StoreUp
         THEN AckOk(n, run[n], "P0") /\ at' = [at EXCEPT ![n] = "P0"]
         ELSE at' = [at EXCEPT ![n] = "armFailed"] /\ UNCHANGED <<okAcks, failedAcks>>
    /\ UNCHANGED <<failFast, epoch, requests, down, expired, state, generation, run, ranks,
                   handler, reaction, owed, doomed, seenDown, seenLost, stopping, gaveUp, faults>>

\* A shutdown seen on entry, or a hook that raises. A shutdown that begins while
\* the thread waits for the lock is seen only at the next boundary.
ArmFails(n) ==
    /\ at[n] = "arming"
    /\ stopping[n] \/ faults < MaxFaults
    /\ faults' = IF stopping[n] THEN faults ELSE faults + 1
    /\ GiveUp(n)
    /\ UNCHANGED <<failFast, store, expired, ranks, lock, stopping>>

\* Faulty variant of BarrierPasses: the missing acks are not waited for.
BarrierPassesUnwaited(n, p) == at[n] = p /\ StoreUp

\* The wait of barrier: it returns once no ack is missing, whatever the clock
\* says, so a deadline is only seen while one is missing.
BarrierPasses(n, p) == at[n] = p /\ StoreUp /\ AllAcked(run[n], p)

\* Faulty variant of BarrierFails: the deadline of the epoch is not looked at.
BarrierFailsUntimed(n, p) == at[n] = p /\ (~StoreUp \/ PeerFailed(n, run[n], p))

BarrierFails(n, p) ==
    /\ at[n] = p
    /\ \/ ~StoreUp
       \/ PeerFailed(n, run[n], p)
       \/ run[n] \in expired /\ ~AllAcked(run[n], p)

PassArmed(n) ==
    /\ BarrierPasses(n, "P0")
    /\ at' = [at EXCEPT ![n] = "teardown"]
    /\ UNCHANGED <<failFast, store, expired, state, generation, run, ranks, threads, stopping, gaveUp, faults>>

\* The cohort is torn down although its peers are not arming.
FailArmed(n) ==
    /\ BarrierFails(n, "P0")
    /\ at' = [at EXCEPT ![n] = "armFailed"]
    /\ UNCHANGED <<failFast, store, expired, state, generation, run, ranks, threads, stopping, gaveUp, faults>>

\* Teardown, reconcile and fresh channels under the lock, then the P1 ack.
TearDown(n) ==
    /\ at[n] = "teardown" /\ ~stopping[n] /\ StoreUp
    /\ cohort' = [cohort EXCEPT ![n] = NoRanks]
    /\ broken' = [broken EXCEPT ![n] = FALSE]
    /\ lock' = [lock EXCEPT ![n] = "free"]
    /\ AckOk(n, run[n], "P1")
    /\ at' = [at EXCEPT ![n] = "P1"]
    /\ UNCHANGED <<failFast, epoch, requests, down, expired, state, generation, run, queued,
                   handler, reaction, owed, doomed, seenDown, seenLost, stopping, gaveUp, faults>>

\* The ranks are reaped and the restart ends there: its peers are not arming,
\* this node is stopping, or the P1 ack cannot be written.
TearDownAborts(n) ==
    /\ \/ at[n] = "armFailed"
       \/ at[n] = "teardown" /\ (stopping[n] \/ ~StoreUp)
    /\ cohort' = [cohort EXCEPT ![n] = NoRanks]
    /\ broken' = [broken EXCEPT ![n] = FALSE]
    /\ lock' = [lock EXCEPT ![n] = "free"]
    /\ GiveUp(n)
    /\ UNCHANGED <<failFast, store, expired, queued, stopping, faults>>

\* A step of the teardown raises, before or after the ranks are reaped.
TearDownFails(n) ==
    /\ at[n] \in {"teardown", "armFailed"}
    /\ faults < MaxFaults
    /\ faults' = faults + 1
    /\ \/ cohort' = [cohort EXCEPT ![n] = NoRanks] /\ broken' = [broken EXCEPT ![n] = FALSE]
       \/ UNCHANGED <<cohort, broken>>
    /\ lock' = [lock EXCEPT ![n] = "free"]
    /\ GiveUp(n)
    /\ UNCHANGED <<failFast, store, expired, queued, stopping>>

PassTornDown(n) ==
    /\ BarrierPasses(n, "P1")
    /\ at' = [at EXCEPT ![n] = "spawn"]
    /\ UNCHANGED <<failFast, store, expired, state, generation, run, ranks, threads, stopping, gaveUp, faults>>

\* A failed P1 or P2 barrier ends the restart on this node.
FailBarrier(n) ==
    /\ BarrierFails(n, "P1") \/ BarrierFails(n, "P2")
    /\ GiveUp(n)
    /\ UNCHANGED <<failFast, store, expired, ranks, lock, stopping, faults>>

\* The main thread runs _spawn_unless_stopping while the restart waits for it.
Spawn(n) ==
    /\ at[n] = "spawn" /\ ~stopping[n]
    /\ cohort' = [cohort EXCEPT ![n] = run[n]]
    /\ broken' = [broken EXCEPT ![n] = FALSE]
    /\ at' = [at EXCEPT ![n] = "wait"]
    /\ UNCHANGED <<failFast, store, expired, state, generation, run, queued, threads, stopping,
                   gaveUp, faults>>

\* No spawn once stop() has begun; a spawn that raises may leave ranks behind,
\* and one that is not run in time stays queued on the event loop.
SpawnFails(n) ==
    /\ at[n] = "spawn"
    /\ \/ stopping[n] /\ UNCHANGED <<faults, ranks>>
       \/ /\ faults < MaxFaults /\ faults' = faults + 1
          /\ \/ cohort' = [cohort EXCEPT ![n] = run[n]] /\ UNCHANGED queued
             \/ queued' = [queued EXCEPT ![n] = TRUE] /\ UNCHANGED cohort
             \/ UNCHANGED <<cohort, queued>>
          /\ UNCHANGED broken
    /\ GiveUp(n)
    /\ UNCHANGED <<failFast, store, expired, lock, stopping>>

\* The event loop gets to a spawn nobody waits for any more: the ranks appear in
\* a pool whose restart has failed, unless stop() has begun.
LateSpawn(n) ==
    /\ queued[n]
    /\ queued' = [queued EXCEPT ![n] = FALSE]
    /\ cohort' = [cohort EXCEPT ![n] = IF stopping[n] THEN @ ELSE run[n]]
    /\ UNCHANGED <<failFast, store, expired, manager, broken, threads, stopping, gaveUp, faults>>

\* _wait_for_workers_ready: the ranks of all nodes meet in one rendezvous. The
\* init message follows, and the P2 ack on entering the barrier.
Ready(n) ==
    /\ at[n] = "wait" /\ StoreUp
    /\ \A m \in Nodes : cohort[m] = run[n] /\ ~broken[m]
    /\ AckOk(n, run[n], "P2")
    /\ at' = [at EXCEPT ![n] = "P2"]
    /\ UNCHANGED <<failFast, epoch, requests, down, expired, state, generation, run, ranks,
                   threads, stopping, gaveUp, faults>>

\* The readiness wait ends on dead ranks, a failure a peer published, a lost
\* store, its own timeout (which starts after the epoch's) or a raising hook.
ReadyFails(n) ==
    /\ at[n] = "wait"
    /\ \/ /\ broken[n] \/ ~StoreUp \/ PeerFailed(n, run[n], "P2") \/ run[n] \in expired
          /\ UNCHANGED faults
       \/ faults < MaxFaults /\ faults' = faults + 1
    /\ GiveUp(n)
    /\ UNCHANGED <<failFast, store, expired, ranks, lock, stopping>>

PassReady(n) ==
    /\ BarrierPasses(n, "P2")
    /\ at' = [at EXCEPT ![n] = "hooks"]
    /\ UNCHANGED <<failFast, store, expired, state, generation, run, ranks, threads, stopping, gaveUp, faults>>

\* The scheduler takes over the new generation, and the node serves.
Hooks(n) ==
    /\ at[n] = "hooks"
    /\ generation' = [generation EXCEPT ![n] = @ + 1]
    /\ state' = [state EXCEPT ![n] = "serving"]
    /\ at' = [at EXCEPT ![n] = "idle"]
    /\ UNCHANGED <<failFast, store, expired, run, ranks, threads, stopping, gaveUp, faults>>

HooksFail(n) ==
    /\ at[n] = "hooks"
    /\ faults < MaxFaults /\ faults' = faults + 1
    /\ GiveUp(n)
    /\ UNCHANGED <<failFast, store, expired, ranks, lock, stopping>>

\* Faulty variant of PublishFailure: fail-fast does not end the node.
PublishFailureStays(n) ==
    \E o \in owed[n] :
        /\ owed' = [owed EXCEPT ![n] = @ \ {o}]
        /\ FailPhases(n, o.epoch, {o.phase})
        /\ down' = IF o.ready /\ StoreUp THEN down \union {<<generation[n] + 1, n>>} ELSE down
        /\ UNCHANGED <<failFast, epoch, requests, expired, manager, ranks, lock, handler, doomed,
                       reaction, seenDown, seenLost, stopping, gaveUp, faults>>

\* What follows in the except block: the phase is failed, past P2 the cohort
\* is published as down, and with fail-fast the node is to end.
PublishFailure(n) ==
    \E o \in owed[n] :
        /\ owed' = [owed EXCEPT ![n] = @ \ {o}]
        /\ FailPhases(n, o.epoch, {o.phase})
        /\ down' = IF o.ready /\ StoreUp THEN down \union {<<generation[n] + 1, n>>} ELSE down
        /\ doomed' = [doomed EXCEPT ![n] = @ \/ (failFast /\ ~stopping[n])]
        /\ UNCHANGED <<failFast, epoch, requests, expired, manager, ranks, lock, handler,
                       reaction, seenDown, seenLost, stopping, gaveUp, faults>>

-----------------------------------------------------------------------------
(* A failed cohort                                                         *)

\* Ranks exit on their own, or because the world they belong to is broken.
RanksFail(n) ==
    /\ cohort[n] # NoRanks /\ ~broken[n]
    /\ \/ \E m \in Peers(n) : (cohort[m] # cohort[n] \/ broken[m]) /\ UNCHANGED faults
       \/ faults < MaxFaults /\ faults' = faults + 1
    /\ broken' = [broken EXCEPT ![n] = TRUE]
    /\ UNCHANGED <<failFast, store, expired, manager, cohort, queued, threads, stopping, gaveUp>>

\* _handle_worker_failure claims a serving pool and its teardown in one step.
TakeDown(n, progress) ==
    /\ state[n] = "serving" /\ lock[n] = "free" /\ ~stopping[n]
    /\ state' = [state EXCEPT ![n] = "workers_down"]
    /\ lock' = [lock EXCEPT ![n] = "handler"]
    /\ handler' = [handler EXCEPT ![n] = progress]

Claim(n) ==
    /\ broken[n]
    /\ TakeDown(n, "publish")
    /\ UNCHANGED <<failFast, store, expired, generation, run, at, ranks, reaction, owed, doomed,
                   seenDown, seenLost, stopping, gaveUp, faults>>

PublishDown(n) ==
    /\ handler[n] = "publish"
    /\ down' = IF StoreUp THEN down \union {<<generation[n], n>>} ELSE down
    /\ handler' = [handler EXCEPT ![n] = "teardown"]
    /\ UNCHANGED <<failFast, epoch, requests, okAcks, failedAcks, expired, manager, ranks, lock,
                   reaction, owed, doomed, seenDown, seenLost, stopping, gaveUp, faults>>

\* The teardown of the claimed cohort; one that raises may leave the ranks to
\* the next restart. With fail-fast the node ends while it holds the lock.
HandlerTeardown(n) ==
    /\ handler[n] \in {"teardown", "quiet"}
    /\ \/ /\ cohort' = [cohort EXCEPT ![n] = NoRanks]
          /\ broken' = [broken EXCEPT ![n] = FALSE]
          /\ UNCHANGED faults
       \/ /\ faults < MaxFaults /\ faults' = faults + 1
          /\ UNCHANGED <<cohort, broken>>
    /\ handler' = [handler EXCEPT ![n] = "none"]
    /\ lock' = [lock EXCEPT ![n] = IF failFast THEN "exit" ELSE "free"]
    /\ doomed' = [doomed EXCEPT ![n] = @ \/ failFast]
    /\ UNCHANGED <<failFast, store, expired, manager, queued, reaction, owed, seenDown, seenLost,
                   stopping, gaveUp>>

-----------------------------------------------------------------------------
(* What a node learns of the others                                        *)

\* _poll_peer_down under the generation read just before it.
PollDown(n) ==
    /\ FollowerFree(n) /\ StoreUp
    /\ n # Node0 => epoch <= run[n]
    /\ \E m \in Peers(n) :
         LET key == <<generation[n], m>>
         IN  /\ key \in down \ seenDown[n]
             /\ seenDown' = [seenDown EXCEPT ![n] = @ \union {key}]
    /\ reaction' = [reaction EXCEPT ![n] = generation[n]]
    /\ UNCHANGED <<failFast, store, expired, manager, ranks, lock, handler, owed, doomed,
                   seenLost, stopping, gaveUp, faults>>

\* _poll_peer_liveness: a peer that is gone no longer beats.
PollLost(n) ==
    /\ FollowerFree(n) /\ StoreUp
    /\ n # Node0 => epoch <= run[n]
    /\ \E m \in Peers(n) \ seenLost[n] :
         /\ ~Up(m)
         /\ seenLost' = [seenLost EXCEPT ![n] = @ \union {m}]
    /\ reaction' = [reaction EXCEPT ![n] = AnyCohort]
    /\ UNCHANGED <<failFast, store, expired, manager, ranks, lock, handler, owed, doomed,
                   seenDown, stopping, gaveUp, faults>>

\* _check_control, on the watchdog's own thread: it fires once.
ControlLost(n) ==
    /\ n # Node0 /\ Up(n) /\ ~stopping[n] /\ ~StoreUp
    /\ Node0 \notin seenLost[n] /\ reaction[n] = NoReaction
    /\ seenLost' = [seenLost EXCEPT ![n] = @ \union {Node0}]
    /\ reaction' = [reaction EXCEPT ![n] = AnyCohort]
    /\ UNCHANGED <<failFast, store, expired, manager, ranks, lock, handler, owed, doomed,
                   seenDown, stopping, gaveUp, faults>>

\* Whether the failure handed over concerns the cohort this node runs now.
IsCurrent(n) == reaction[n] \in {AnyCohort, generation[n]}

\* _handle_cluster_failure: a restart in flight is waited out, a failure of
\* another generation is ignored, a serving pool is claimed without an echo, and
\* with fail-fast the node ends even if its pool was down already.
React(n) ==
    /\ reaction[n] # NoReaction /\ Up(n)
    /\ state[n] # "restarting" \/ stopping[n]
    /\ reaction' = [reaction EXCEPT ![n] = NoReaction]
    /\ IF IsCurrent(n) /\ state[n] = "serving" /\ lock[n] = "free" /\ ~stopping[n]
         THEN TakeDown(n, "quiet") /\ UNCHANGED doomed
         ELSE /\ doomed' = [doomed EXCEPT ![n] = @ \/ (failFast /\ IsCurrent(n) /\ ~stopping[n])]
              /\ UNCHANGED <<state, lock, handler>>
    /\ UNCHANGED <<failFast, store, expired, generation, run, at, ranks, owed, seenDown, seenLost,
                   stopping, gaveUp, faults>>

-----------------------------------------------------------------------------
(* The end of a node                                                       *)

\* A thread that is to end the node takes the teardown lock, and keeps it.
TakeExitLock(n) ==
    /\ doomed[n] /\ Up(n) /\ lock[n] = "free"
    /\ lock' = [lock EXCEPT ![n] = "exit"]
    /\ UNCHANGED <<failFast, store, expired, manager, ranks, handler, reaction, owed, doomed,
                   seenDown, seenLost, stopping, gaveUp, faults>>

\* stop(), by an operator or by fail-fast once the teardown lock is had: the
\* remaining phases of a restart in flight are failed.
Stop(n) ==
    /\ Up(n) /\ ~stopping[n]
    /\ \/ faults < MaxFaults /\ faults' = faults + 1
       \/ doomed[n] /\ lock[n] = "exit" /\ UNCHANGED faults
    /\ stopping' = [stopping EXCEPT ![n] = TRUE]
    /\ IF Coordinated(n)
         THEN FailPhases(n, run[n], Remaining(PhaseOf(at[n])))
         ELSE UNCHANGED <<okAcks, failedAcks>>
    /\ UNCHANGED <<failFast, epoch, requests, down, expired, manager, ranks, threads, gaveUp>>

\* The process ends, and its ranks with it (they ask for the parent's death
\* signal). Its store client, or on node 0 the store, is gone.
Leave(n) ==
    /\ state' = [state EXCEPT ![n] = "gone"]
    /\ at' = [at EXCEPT ![n] = "idle"]
    /\ cohort' = [cohort EXCEPT ![n] = NoRanks]
    /\ broken' = [broken EXCEPT ![n] = FALSE]
    /\ queued' = [queued EXCEPT ![n] = FALSE]
    /\ lock' = [lock EXCEPT ![n] = "free"]
    /\ handler' = [handler EXCEPT ![n] = "none"]
    /\ reaction' = [reaction EXCEPT ![n] = NoReaction]
    /\ owed' = [owed EXCEPT ![n] = {}]
    /\ doomed' = [doomed EXCEPT ![n] = FALSE]
    /\ stopping' = [stopping EXCEPT ![n] = FALSE]
    /\ UNCHANGED <<failFast, store, expired, generation, run, seenDown, seenLost, gaveUp>>

StopEnds(n) ==
    /\ stopping[n]
    /\ Leave(n)
    /\ UNCHANGED faults

Kill(n) ==
    /\ Up(n) /\ faults < MaxFaults
    /\ faults' = faults + 1
    /\ Leave(n)

\* The shared deadline of an epoch passes.
Expire(e) ==
    /\ e \in requests \ expired
    /\ expired' = expired \union {e}
    /\ UNCHANGED <<failFast, store, manager, ranks, threads, stopping, gaveUp, faults>>

-----------------------------------------------------------------------------
\* The steps a running restart takes without being asked again.
RestartStep(n) ==
    \/ n = Node0 /\ (BeginEpoch \/ PublishRequest)
    \/ ReadRequest(n) \/ RequestUnreadable(n)
    \/ Arm(n) \/ ArmFails(n)
    \/ PassArmed(n) \/ FailArmed(n)
    \/ TearDown(n) \/ TearDownAborts(n) \/ TearDownFails(n)
    \/ PassTornDown(n) \/ FailBarrier(n)
    \/ Spawn(n) \/ SpawnFails(n)
    \/ Ready(n) \/ ReadyFails(n)
    \/ PassReady(n) \/ Hooks(n) \/ HooksFail(n)

HandlerStep(n) == Claim(n) \/ PublishDown(n) \/ HandlerTeardown(n)
FollowerStep(n) == Follow(n) \/ PollDown(n) \/ PollLost(n) \/ ControlLost(n) \/ React(n)

Next ==
    \/ RestartEnter
    \/ \E n \in Nodes :
         \/ RestartStep(n) \/ PublishFailure(n)
         \/ LateSpawn(n) \/ RanksFail(n) \/ HandlerStep(n)
         \/ FollowerStep(n)
         \/ TakeExitLock(n) \/ Stop(n) \/ StopEnds(n) \/ Kill(n)
    \/ \E e \in requests : Expire(e)

\* Threads that can go on do, and time passes. No restart is ever requested,
\* and no fault happens, unless it does.
Fairness ==
    /\ \A n \in Nodes :
         /\ WF_vars(RestartStep(n)) /\ WF_vars(PublishFailure(n))
         /\ WF_vars(HandlerStep(n)) /\ WF_vars(FollowerStep(n))
         /\ WF_vars(LateSpawn(n)) /\ WF_vars(TakeExitLock(n))
         /\ WF_vars(doomed[n] /\ Stop(n)) /\ WF_vars(StopEnds(n))
    /\ \A e \in 1..MaxEpochs : WF_vars(Expire(e))

Spec == Init /\ [][Next]_vars
FairSpec == Spec /\ Fairness

-----------------------------------------------------------------------------
(* Properties                                                              *)

\* Ranks of two restarts never exist together, on whatever nodes: "No node may
\* spawn before P1 is global, or the fresh ranks would rendezvous with a world
\* that still contains a peer's dying ranks" (worker_manager.py, the phases).
NoMixedWorld ==
    \A n, m \in Nodes :
        cohort[n] # NoRanks /\ cohort[m] # NoRanks => cohort[n] = cohort[m]

\* A node serves the cohort of a restart only once every node has acked that
\* its own ranks of that restart are ready (the P2 barrier).
ServesWholeWorld ==
    \A n \in Nodes :
        state[n] = "serving" /\ cohort[n] > 0 => AllAcked(cohort[n], "P2")

\* A cohort's teardown has one owner: the lock is free whenever the pool serves
\* ("Only a restart ... or a claimed failure ... ever holds that lock, so it is
\* free whenever the state is serving"), unless it was taken to end the node.
OneTeardownOwner ==
    \A n \in Nodes :
        /\ state[n] = "serving" /\ ~stopping[n] => lock[n] \in {"free", "exit"}
        /\ handler[n] # "none" => lock[n] = "handler"
        /\ at[n] \in {"P0", "teardown", "armFailed"} => lock[n] = "restart"

\* A node that gives up on an epoch before its deadline leaves word of it in
\* the store for every other node still in it, unless a node is ending or the
\* store is lost: "any local failure is published so the peers abort instead of
\* waiting out the deadline" (restart_workers).
GivenUpIsPublished ==
    \A e \in 1..epoch, n \in Nodes : <<e, n>> \in gaveUp =>
        \/ e \in expired
        \/ \E m \in Nodes : stopping[m] \/ ~Up(m)
        \/ \E o \in owed[n] : o.epoch = e
        \/ \E p \in Phases, m \in Nodes : <<e, p, m>> \in failedAcks
        \/ \E key \in down : key[2] = n

\* No restart is stuck: every phase waits for what a live peer does or for the
\* shared deadline ("never stuck in restarting", restart_workers).
RestartEnds ==
    \A n \in Nodes : state[n] = "restarting" ~> state[n] # "restarting"

\* With fail-fast, one pool that goes down or one node that ends takes every
\* node with it, whatever the others were doing then.
ClusterEndsTogether ==
    (failFast /\ \E n \in Nodes : state[n] \in {"workers_down", "gone"})
        ~> (\A n \in Nodes : ~Up(n))

=============================================================================
