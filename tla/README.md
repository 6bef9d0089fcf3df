# TLA+ verification of BatchGen

BatchGen is a batch inference engine for large language models. One server
process accepts batches over HTTP, owns the shared host memory (KV pages, prefix
cache, weights) and supervises a cohort of worker processes, one per GPU, that
may die and be replaced while the server and its memory live on. This directory
holds TLA+ modules translated from that code, the TLC runs that check them on
small instances, and TLAPS proofs, for every value of the constants, of the
results that matter most.

## 1. Inventory

| Part | Source | State it owns | Who changes it |
|---|---|---|---|
| Host KV page allocator | `core/KV_Storage/host_paged_kv_backend.cpp` | free stack, page owners and links, sequence table, counters, in a shared memfd under two robust mutexes | every worker process; the server after the cohort is dead |
| Prefix cache coordinator | `core/KV_Storage/host_prefix_cache_coordinator.cpp` | node tree, token arena, page references, attachments, protection counts, under one robust mutex | every worker; the server creates it once and keeps it across restarts |
| Prefix reuse | `batchgen/prefix_reuse/` | commit, retain, evict and materialize sequences over the two parts above | worker main loop |
| GPU paged KV | `batchgen/kv_cache/`, `core/GPU_KV_Buffer` | page tables and free lists per GPU | worker main loop, copy engines |
| Weight slots | `core/GPU_Weight_Buffer/weight_slot_table.h` | slots (FREE, FILLING, PRESENT, LEASED, PENDING_RELEASE), name index, passes, cursors, skips | producer thread, worker |
| Weight stream | `core/GPU_Weight_Buffer/GPU_Weight_Buffer.cpp`, `core/HtoD_Engine`, `_WeightPasses` of `batchgen/batchgen_worker.py` | rotating copy queues, release events, producer state, held passes | producer thread, worker |
| Copy engines | `core/HtoD_Engine`, `core/DtoH_Engine`, `core/threadsafe_queue.h` | task queues, completion events | producer threads, engine threads |
| Distributed weights | `core/Weights_Storage`, `core/Parameter_Server` | leases, epochs, swap state of the weight daemon | daemon, workers, server |
| Worker manager | `batchgen/server/worker_manager.py` | pool state, generation, cohort channels | HTTP routes, monitor thread, follower thread |
| Restart coordinator | `batchgen/server/restart_coordinator.py` | epochs, phase acknowledgements, down keys in the control store | all nodes |
| Run locks and leases | `batchgen/server/runtime_locks.py`, `runtime_lease.py` | lock files and run directories | server starts and stops |
| Batch scheduler and pools | `batchgen/server/batch_scheduler.py`, `intake_pool.py`, `scheduling_pool.py`, `storage.py` | queued requests, slots, batch status | HTTP routes, scheduler loop, completion pump |
| Agent sessions | `batchgen/server/agent_sessions.py` | session state machine, tombstones | HTTP routes, completion listener |
| Query book | `batchgen/query_book.py` | extents of the token arena, batch bindings | server and workers |
| Worker loop | `batchgen/server_worker_main_loop.py`, `batchgen/worker/`, `continuous_batching.py` | active sequences, wave boundaries | one thread per rank |
| Numerics | `batchgen/models`, `attention`, `moe`, `gemm`, `quantization`, `batchgen_kernels` | tensors | none of it is control state |

What makes these parts hard: operations that are two critical sections with
nothing held in between, workers killed at any instruction, memory that outlives
the cohort that wrote it, tables and stacks at their limits, and results of a
previous cohort that arrive when the next one serves.

Sections 3 to 9 describe the modules, their runs and their proofs. Section 10 lists
what is not modelled, and section 11 what the runs found.

## 2. Modules

| Module | Models | Checked by | Proofs |
|---|---|---|---|
| `HostPagedKVBackend`, `HostPageLedger` | the allocator, and what it promises of a page | `backend` | `HostPagedKVBackendProofs` |
| `HostPrefixCacheCoordinator` | the prefix index | `coordinator_threads`, `coordinator_shared` | `HostPrefixCacheCoordinatorProofs` |
| `PrefixReuse` | the two above, composed with the workers that use them | `reuse_restart`, `reuse_killed` | - |
| `WeightSlotTable` | the slot table of the weight buffer | through `WeightStream` | `WeightSlotTableProofs` |
| `WeightStream` | producer thread and worker of a rank over the table | `stream_local`, `stream_daemon`, `stream_recovery` | `WeightStreamProofs`, `WeightStreamWorkerProofs` |
| `CoordinatedRestart` | a restart of the cohorts of all nodes | `restart` | `CoordinatedRestartProofs` |
| `BatchScheduler` | requests and turns from the server to a cohort and back | `scheduler`, `scheduler_errors` | `BatchSchedulerProofs` |
| `AgentSessions` | sessions and their turns | `sessions` | `AgentSessionsProofs` |

The inductive invariants of the index, the table and the stream are in modules of
their own (`HostPrefixCacheCoordinatorInvariants`, `WeightSlotTableInvariants`,
`WeightStreamInvariants`), which the proofs extend.

Each run has an `MC` module of the component's name and a `.cfg` of the run. Three
runs (`reuse_killed`, `stream_recovery`, `scheduler_errors`) are expected to fail: they
show that the code does something else than a comment says (section 11).

Some invariants are proved and not listed in a run: the type invariants
other than the index's, `CountersExact` and `ResidentKept` of the allocator, the slot
table's `IndexExact`, `NamedBehindCursor` and `PassesConsecutive`, and `ServesWholeWorld` of
the restart. TLC agreed with each of them before it was proved. Liveness stays with
TLC throughout: the prover does not reason about fairness or `ENABLED`. So does what
depends on the result of a recursive definition such as `SelectSeq`.

## 3. Host KV page allocator

`HostPagedKVBackend` models `host_paged_kv_backend.cpp`. One action is one
critical section: the free stack changes under `allocation_mutex`, owners,
chains and the table under `sequence_mutex`, and most operations are one section
of each with nothing held in between. `pc[p]` holds the pages a process carries
from one section to the next; `Kill(p)` loses them. The server's reconcile
(`CollectLive`, `ServerDetach`, `ServerPush`, `RebuildFreeState`, `Respawn`)
starts only when every process is dead, as `worker_manager.py` does.

A process also dies inside a section (`KillInside`): `ScopedMutexLock` takes over a
mutex whose owner died, declares it consistent, and everybody goes on over what the
dead process had written so far. `KillInAttach`, `KillInRelease`, `KillInRetain`,
`KillInWave` and `KillInRollBack` are the states it can leave, one per loop of the code
it can be interrupted in. The sections of `allocation_mutex` write `free_stack_top` last,
so a kill inside one is a kill before or after it; a `ReleaseResidentPages` or a
`RetainPages` cut short between two pages is one of fewer pages, followed by a kill. The
sequences that a dead process was changing are in `torn` until the rebuild.

What this rests on, and what it leaves out:
- a sequence is changed by one process only (a row belongs to one rank), so nobody but
  the reconcile meets a torn sequence;
- a chain is what a walk from `head_page` reaches. The owner slot of a page of a torn
  sequence is read by nobody before the rebuild overwrites it, and is written as the
  sequence's where the walk reaches the page and as empty where it does not;
- the table is the set of ids it holds, without the probe order. A tombstone that is
  being reused is empty between two stores (`claim`), and a process killed there could
  hide entries further along the probe: the model does not show it;
- a wave that fails and is rolled back to the end is the state before it, as one guard.
  A roll-back that put back wrong values would not be noticed.

`HostPageLedger` is what the region promises about a page: free, in transit,
owned by one sequence or resident in the prefix cache, with the moves allowed
between these places. `ImplementsLedger` says the allocator refines it.

### Runs

`backend`: three pages, three ids on two table slots, two processes, waves of two.
The table fills up, pages are carried by both processes at once, both can die and
the region is rebuilt around resident pages. Weak fairness on the second section of an
operation (a thread inside the allocator keeps running, the mutexes are held for
bounded loops) and on the reconcile (one server thread). Nothing makes a caller
start an operation, or die. The run shows, with kills between and inside sections, that a
page is in one place at a time
(`NoPageTwice`), that the rebuild never meets a state it throws on (`RebuildSafe`),
that pages are lost to kills only (`NothingStranded`), that carried pages are put
down (`CarriedPagesLand`) and a dead cohort is reconciled (`ReconcileCompletes`).

### Proofs

`HostPagedKVBackendProofs` proves `TypeOK`, `NoPageTwice`, `RebuildSafe` and
`CountersExact` for every configuration. The inductive invariant is
`IndInv == TypeOK /\ NoPageTwice /\ RebuildSafe`: `NoPageTwice` needs the pages
in flight to be disjoint from the stack, the chains and each other, and the
server steps need to know that no process is in flight. A section cut short is the same
argument as the whole one: part of an attach is `Given`, part of a release or a retain is
`Taken`, part of a wave is `PartlyWaved`, each with one lemma on what it does to the
pages, and `KillLeaves` says that every kill inside a section is one of the three.
`CountersExact` holds only while `torn` is empty: a process killed between inserting a
sequence and counting it leaves `active_sequences` wrong until the rebuild resets it, as
the comment of `ReleaseAllSequences` says. The module begins with the
lemmas on lists it needs, and ends with the refinement of the ledger, `ResidentKept`
and `NothingStranded`. The liveness properties are checked by TLC only.

## 4. Prefix cache coordinator

`HostPrefixCacheCoordinator` models `host_prefix_cache_coordinator.cpp`: an index
of cached prompt blocks in shared memory. A prompt is a sequence whose first
element is the namespace, a node is one block (named by the whole prefix, as the
hash chain does) with one page per KV group, and `active` and `pending` count the
attachments and the loads that hold it. Loads and releases have a part under the
process-local mutex and a part under the shared one, so they are two actions each
and `call[t]` is what a thread carries between them. `Kill(p, holding_mutex)`
loses a worker, with the pins it held; if it held the shared mutex, the mutex is
dead for everyone, as `ScopedPthreadMutexLock` makes it.

Abstractions: the open-addressing tables are modelled by what they store; the
group-entry and the page-handle arenas move together (one entry has one page per
group), so one tail stands for both; epochs are kept as ranks, which is all that
eviction compares. The group entries of a node are always updated together, so a
node has one pair of counts.

### Runs

`coordinator_threads`: two threads of one worker on a two-node index with two
arena entries and up to two loads, so that every interleaving of begin, end and
release of one attachment happens. `coordinator_shared`: two workers, two KV
groups, two namespaces; one worker may die, inside the mutex or not. A cache with
a dead mutex stops, so these runs do not check deadlock. The first one assumes
weak fairness on the second half of a call (the thread is inside the coordinator)
and strong fairness on ending a load (`PrefixMaterialization.close` ends it in a
`finally`), and no fairness on anything that starts an operation. A call of an
eviction or a clear that finds nothing to drop returns an empty result: it
changes nothing, and `Next` leaves it out.

The properties: attached pages stay what the attachment was told (`SpansStay`),
counts equal what live attachments hold (`RefsExact`; after a kill they may only
be too high), a release deferred for a load happens once the loads end
(`DeferredReleaseCompletes`), page references and the count of releasable pages
agree with the nodes (`IndexExact`, `ReleasableExact`), and eviction takes the oldest
unprotected nodes of a namespace first (`EvictsOldestFirst`). The first three are
checked with two threads, the others with two workers.

### Proofs

All the safety properties are proved, with `TypeOK`, for any prompts, groups, pages,
workers, threads, handles, capacities, loads and deaths. `CoordinatorAssumption` says
what the constants are: the groups, workers and handles are finitely many, the bounds are
natural numbers, and a prompt is a sequence.

The inductive invariant `CoordinatorInv` has six parts. `SpansStay`, `RefsExact` and
`IndexExact` are the properties themselves; `IndexTyped` and `WorkersTyped` are the types,
with the fact that the entries of the nodes fit below the arena's tail (or a commit that
was let through could overrun it); `LoadsCounted` says that the local count of an
attachment is the number of its loads and of the calls between the two halves of
`BeginAttachmentLoad`, that the attachment outlives all of them, and that such a call
still holds the spans of its attachment (or the second half could pin nodes that are gone).

The argument for `SpansStay` goes through the counts. Whoever may read a node, an
attachment or a call under way, is counted in it (`RefsExact`), so the node is protected
(`HeldProtected`), so no eviction, compaction or clear takes it (`EvictedStep`), and a commit
only fills slots nobody reads (`FreeSlotUnread`). A dead worker's pins stay counted, which
is why `RefsExact` is an inequality after a kill, and why the argument survives it. That
the counts stay exact is a matter of comparing, for each step, the sets of holders before
and after: they differ in one thread or one attachment (`Toggled`, `CallCounts`).
`EvictsOldestFirst` follows from `ScanOrder`: a scan visits the nodes in the order of
their epochs and takes those that are unprotected, so an older one it leaves is protected.
`ReleasableExact` is a consequence of `IndexExact`.

`DeferredReleaseCompletes` is liveness and stays with TLC.

## 5. Prefix reuse

`PrefixReuse` composes instances of the two modules with the worker's side
(`batchgen_worker.py`, `prefix_reuse/`). A row is attached, admitted on a
snapshot of the free pages (after one reclaim if needed), reserved, committed,
decoded, completed, and leaves when its attachments are released. Ownership of a
page moves in two steps each way: a commit enters the index and is then retained
in the allocator, an eviction leaves the index and is then released. `work[p]` is
the half a worker still owes. The collectives that keep ranks in step, and that
only a node's leader reclaims, are left out: the model has more interleavings. Workers
die between critical sections of the allocator here, never inside one (section 3).

### Runs

`reuse_restart`: two workers, two rows, two prompts of two blocks that share the
first, three pages, so rows compete for pages and evict each other's prefixes;
both workers may die and be reconciled, but (`CleanSpec`) not between the two
halves of a transfer. With three pages no two rows hold a reservation or decode at the same
time: the other row is attached, admitted on its snapshot, or on its way out. The instance
with four pages, in which two are reserved at once, passes as well (7.8 million states,
too many for a regular run). The index has `num_pages + 1` nodes and one arena entry per
page, as `build_prefix_cache_runtime_config` sizes it; the compaction threshold is
large compared to the index, so compaction for room is exercised. The run shows
that index and allocator agree on every page (`OwnersAgree`), that shared pages are
never reused under a row (`SharedPagesStay`), that the capacity retry of a commit
is never needed (`CommitFits`), and that nothing stays pinned once all rows have
left (`QuiescentClean`). These four are checked by TLC only: the composition takes its
components by `INSTANCE`, and the theorems of sections 3 and 4 are not carried over to its
steps.

`reuse_killed` drops the restriction on when a worker dies (`Spec`), and finds that
`RebuildFreeStateLocked`'s comment ("a page is either prefix-resident (owned by
the prefix cache, which tracks those page ids ...) or free") does not hold after a
rebuild: a worker that dies after the commit and before the retain leaves an index
node that names a free page. The eviction's two halves have the same window in the
other direction: a resident page that no node names.

## 6. Weight streaming

Weights that do not fit on the GPU are streamed through a ring of slots per module
type. A forward is one weight pass over the installed lists; the pass of the next
forward may be armed before this one ends (it is carried), so the producer never
idles between forwards.

`WeightSlotTable` models the table of that name: `slots`, the index by module and
pass, the pending skips, one cursor per type, and at most two open passes. A
method is an action and its guard is the condition under which the method does not
throw. `Next` lets the owner call anything at any time. Names of modules are model
values, texts of errors are left out, positions count from 1.

`WeightStream` EXTENDS the table and adds the two threads that call it. The
producer (`pc`) is `HtoD_Worker`'s loop cut at its lock operations: look at the
cursor, acquire a slot, fetch (from the node daemon, under a lease, if
`Distributed`), claim, copy, give the lease back, land; or, for a skipped module,
fetch, give back, retire. The worker (`wpc`) is `_WeightPasses`: scope, begin with
or without carry, the forward's gets, frees and skips, end, close, abort, and the
phase switch (close, stop, reset, install, start). An exception unwinds as in
Python: out of a scope's body it aborts the passes, out of `close` it propagates.
The forward is external: it leases a type's modules in list order and leaves the
ring a slot. The producer's KV copies and on-demand tasks are left out, and every
module is a daemon module or none is.

### Runs

`stream_local`: one attention and two expert modules on rings of one or two slots
over three passes, so that a carried pass becomes the current one and carries the
next, with one fault (a failing copy, an exception of the forward or a stalled wait).
`stream_daemon`: the modules are leased from the node daemon over a ring of one slot
per type, where a wait is most easily forever, with one fault. Deadlock is checked
in both. What they show: the producer's and the worker's calls are never refused
unless the producer failed or a close did (`ProducerNeverRefused`,
`WorkerNeverRefused`), each module is copied or skipped once per pass
(`PassAccounted`), a skip is never behind its cursor (`SkipsAhead`), and the copy
queues follow the cursors (`QueueAtCursor`). `WorkerNeverRefused` is checked with local
weights; that a worker with daemon leases is not refused either is proved.

`stream_daemon` also checks liveness under weak fairness (`FairSpec`): the producer
thread is scheduled, recorded events complete, and the three blocking calls of the
worker return once their condition holds (all are signalled, or polled with a stall
timeout). `WeightsArrive` and `PassesDrain` hold if the daemon answers
(`DaemonAnswers`, a hypothesis of both formulas); `StopCompletes` does not need it.
No fairness on what the forward does.

`stream_recovery`: after a producer failure every phase switch calls
`stop_h2d_worker` first, which raises until an install clears the failure, so the
install is never reached. This is about the calls a worker can make: in the shipped
server an exception that leaves a scope ends the worker process
(`server_worker_main_loop.py:1023`), and the next cohort starts with a new producer.

### Proofs

`WeightSlotTableProofs` proves five invariants of the table for any sequence of
calls, module types, lists, ring sizes and number of passes, from the assumptions of
`WeightSlotTable` alone: a task set names a module once, ring sizes are natural
numbers, the empty name is no module. The bound `MaxPass` plays no part. The
inductive invariant is `TableInv`, the five properties and three facts they lean
on: a FREE slot has no name (`FreeUnnamed`, or a reserved slot could bring an old
name back), a cursor is inside its list and a module is in one place of one list
(`CursorsInside`, or advancing a cursor could pass more than one module), and the
deque of open passes holds consecutive ids (`DequeConsecutive`, or ending the
oldest pass could leave a gap). It splits into `SlotsInv` and `ScheduleInv`, since
most calls change one side only: `SlotStep` is the one argument for every call that
moves or frees slots, `ScheduleKept` for the calls that leave the schedule alone,
`CursorAdvances` says what a claim or a retired skip does to what was produced.

`WeightStreamProofs` proves the invariants `ProducerNeverRefused`, `QueueAtCursor` and
`PassAccounted` of the stream, and `WeightStreamWorkerProofs` its `WorkerNeverRefused`, for
any types, lists, rings and passes and with or without a daemon. Beside the table's
assumptions they use that the producer's order names module types (`StreamAssumption`) and
that Python's `None` is not a pass id (`NoneIsNoPass`). Both inductive invariants were
checked by TLC on the instances of the runs first.

`StreamInv` holds in every state, after failures and failed closes too. It is
`TableInv`, kept because every step of a thread is a call of the table (`StreamTable`),
and what the threads know between two of their steps, while the other one runs:
- `ThreadInv` and `ControlInv`: where the threads can be together, and which lease the
  producer may hold;
- `ProducerInv`: from the look at the cursor to the claim the cursor is still at the
  module in hand and its pass still open; the reserved slot is untouched, or was
  given up for a skip that is still pending; from the claim to the landing the slot
  has the module's name. This is what makes `ProducerNeverRefused` true, and it stands
  because no call of the worker touches a FILLING slot, except to mark a named one for
  release (`CallsBeside`), ends a pass the producer is still in (`PassStaysOpen`) or takes
  a skip back;
- `RingInv` and `ReleaseInv`: only that slot is FILLING, and the pending releases
  partition the slots that wait for an event, or a completed event could free
  a slot somebody has again;
- `QueueInv`: a queue is its list rotated to the cursor, one further between the claim
  of a skip and its retirement;
- `AccountInv`: the counts of an open pass, plus the copy under way, are the modules its
  cursor went past. A parked cursor is at the first module, or arming its pass would
  skip some.

`WorkerInv` is what a worker may rely on while neither the producer nor a `close()` has
failed: the passes it holds are the open ones, in order (`PassesHeld`); what its forward
still has to get or skip are exactly the modules of its pass that are `Fresh`: in a
slot nobody leased yet, or ahead of the cursor and not skipped (`ForwardFresh`); leased
slots are of the current pass and gone when the forward ends (`LeasesHeld`); and a
drained pass stays drained while the producer goes on with the next (`PassDrained`).
`Fresh` is chosen so that a step of the producer never changes it (`ProducerKeeps`): a
module goes from ahead of the cursor to a slot, so the proof has one argument for all
of the producer's steps (`WorkerAside`) and one lemma per call of the worker. Nothing
is promised after a failed close until an abort drops the passes (`DropRestores`).
Liveness is checked by TLC only.

## 7. Coordinated restart

`CoordinatedRestart` models how the worker pools of several nodes are restarted
together, and how the failure of one node reaches the others
(`restart_coordinator.py`, `restart_workers`, `_handle_worker_failure` and `stop` of
`worker_manager.py`). `store` is what node 0's key-value store holds: epochs,
requests, acknowledgements of the phases P0 (armed), P1 (torn down) and P2 (ready),
and the keys that say a cohort is down. Per node, `at` is where its restart thread is,
`handler` the progress of a failure handler, `reaction` what the follower hands over,
`lock` who holds `_teardown_lock`, and `cohort` the epoch whose ranks exist there. An
action is what one thread does between two operations on the store, the state or the
lock. A restart fails in any phase, ranks exit at any time, a process is stopped or
killed, node 0 takes the store with it, and the shared deadline passes at any time.

The spawn is a callback on the event loop, and the dispatcher only stops waiting for it
(`http_server.py:154`): a restart that gave up may leave it `queued`, and `LateSpawn` is
the loop getting to it, with no effect once `stop()` has begun. The model assumes that the
loop gets to it before the next restart of that node begins, which is requested over the
same loop on node 0 and published by node 0 to the others. A thread that ends the node
takes the teardown lock first (`TakeExitLock`) and begins to stop in a later step (`Stop`);
between the two it holds the lock and everything else goes on.

### Run

`restart`: two nodes, one restart, one fault of any kind, with and without
`--cluster-fail-fast`. Ranks of two restarts never exist together (`NoMixedWorld`), a
teardown has one owner (`OneTeardownOwner`), a node that gives up leaves word for its
peers (`GivenUpIsPublished`), no restart is stuck (`RestartEnds`), and with fail-fast
one node takes all with it (`ClusterEndsTogether`). The run has
one restart (`MaxEpochs = 1`): there is no second world in it to mix with but the first
cohort's. The instances with two restarts (safety, 1.6 million states) and with two faults
pass too, and the proofs below hold for any number of both. `FairSpec` has weak
fairness of every thread's next step and of the deadline: threads of a live process are
scheduled, their calls to the store have timeouts, and time passes. Nothing makes a
node fail, or an operator ask for a restart. A cluster that has ended may stop, so the
run does not check deadlock.

### Proofs

`CoordinatedRestartProofs` proves `NoMixedWorld`, `ServesWholeWorld`,
`OneTeardownOwner` and `GivenUpIsPublished` for any number of nodes, restarts and faults, from
`Node0 \in Nodes` alone. `NoMixedWorld` is not inductive: that two nodes do not hold
ranks of different epochs follows from `WorldInv`, which says that a node whose P1
acknowledgement of an epoch is in the store holds no older ranks, and that ranks exist
only of an epoch whose P1 every node has acknowledged. `JoinedInv` (nobody
acknowledges an epoch it has not joined) is what makes a P1 acknowledgement fresh, and
`LockInv` ties the holder of the lock to the positions of the restart thread.

`GivenUpIsPublished` rests on two more invariants, which TLC checked first with two
restarts. `fail_phase` writes nothing over an "ok", so `FlightInv` says which phases a
restart thread has not acknowledged at each of its steps, and `OwedInv` that a failure
still to be published is for such a phase, or comes after P2 (then the cohort is
published as down), or has a cause the peers see themselves (`Excused`: the deadline, a
node that ends, or a failed phase of the same epoch). `ExcusedStays` shows that no step
takes such a cause away: only a node that is stopping acknowledges over a failed phase.
The two liveness properties are checked by TLC only.

### Not promised

Two things the model shows are nobody's promise. The deadline may split a
barrier: one node gives up while its peer sees the last acknowledgement in time, and
serves until the broken world ends its ranks. And after a restart that failed past P2
on one node, the nodes count generations differently, so that a down key of one may
name another cohort of the other (with two restarts).

## 8. Batch scheduler

`BatchScheduler` models the way of batch requests and agent turns from the HTTP
handlers to a cohort and back: `batch_scheduler.py` with its pools, and the hooks
`worker_manager.py` runs when a cohort fails or restarts. Tasks of the event loop are
atomic between awaits; beside them run the completion pump and the manager's thread.
A pass of the drain is two actions (`drained` is what it holds in between), because
the manager's thread may quiesce the scheduler in the middle. `gen` is the generation
of the pump, stamped on everything it forwards; `calls` are the callbacks other
threads have scheduled on the loop; `born` and `disrupted` are history variables.
`_fail_all_active_batches` is one action on the loop and one per tracker (`FailCheck`,
`FailWrite`) on the manager's thread, where completions run in between.

Abstractions: entries all have one priority, as the API submits them; the capacity
is taken as published; the 24 h timeout may fire at any time; a pass of the drain is
assumed not to outlast the respawn of a cohort (one is a few dictionary operations, the
other starts processes).

### Runs

`scheduler`: a batch of two requests and a turn compete for one slot, with one
restart, and one fault of any kind: a completion delivered twice, a request that fails
on its own, a reported or a silent death, an unreadable channel, a result line that
cannot be written, a completion that cannot be routed, a timeout, a failing restart. The
kinds that count against `MaxFaults` are in `FaultKinds`. In a completed batch the
completion of every request was routed (`CompletesWhole`), what a cohort works on holds a
slot as long as its pump is up (`HoldersKeepSlots`), a late failure never reaches a batch of the next
cohort (`FailsWithItsWorkers`), a failed batch sends nothing more
(`FailedSendsNothing`), no turn's waiter is forgotten (`TurnsHeld`), and turns and
batches end (`TurnsEnd`, `BatchesEnd`). The instance with two slots passes too. Weak
fairness of the loop's ready tasks, the pump, a running cohort, the monitor and the
manager's thread; none of clients, operators and faults. A server without work stops,
so the runs do not check deadlock.

What these do not say:
- `CompletesWhole` is about routing, not about the file. A line that cannot be written is
  logged and the request counted all the same (`batch_scheduler.py:1764`), and without
  `incremental_output_dir` no line is written and the output is an empty file (1799), so
  that a completed batch may lack lines (`unwritten` are the requests it lacks).
- `HoldersKeepSlots` stops with the pump: a `channel_error` fails the batches and clears
  the slots while the cohort goes on working and the pool serves, so that later requests
  are sent on top of what it still runs.
- An item the listener fails to route is logged and skipped (1616) with its slot free
  already and its request never counted. Only the 24 h timeout ends its batch;
  `BatchesEnd` excepts it (`unrouted`).

`TurnsEnd` and `BatchesEnd` are implications. `Delivering` assumes that the drain and
the pump live: the drain task ends when the slots are cleared in the middle of a pass
(`DrainDies`), and the pump when it forwards an error (section 11). `ReconciledLast`
assumes that no failure counts as reconciled while the scheduler still dispatches: a
fatal reported while the pool no longer serves sets that flag early
(`worker_manager.py:1090`), and a batch created in between is then failed by nobody.
The last antecedent is that the pool comes back or its failure is reconciled.

Two more facts of the model are not stated anywhere: cancelling a batch changes its
stored status only, and a later end of the batch overwrites it; and the entries of a
batch that timed out are still sent.

### Proofs

`BatchSchedulerProofs` proves `CompletesWhole` and `FailsWithItsWorkers` for any
batches, turns, capacities, faults and restarts, assuming that batches are non-empty
sequences with no request in common. For the first, `CountedInv` says that a tracked
batch has counted at most as many requests as were routed (`Routed`: with a line, or with
one whose write failed), since a routed request is in `_completed_requests` and is not
counted again; a batch that is not processed yet (`Fresh`) has neither. At the end the
count has reached the number of its requests, so every one was routed.
For the second, `DisruptedInv` says that whoever is about to fail the batches acts for a
disrupted generation that no batch is younger than: a fatal in the response queue is of
the live generation, one under way carries its generation, and the manager's thread
fails batches only after it has reaped the ranks. `FreshInv` is needed because a batch
takes its generation when it is processed: nobody may have failed it before. The other
properties depend on what `SelectSeq` leaves in the intake, about which the prover has
no facts; they and liveness are checked by TLC only.

## 9. Agent sessions

`AgentSessions` models the registry of `agent_sessions.py` and the handlers of
`turn_api.py`: open, close, abort, tombstones and their expiry, and a turn from
`begin_turn` to `end_turn`, one action per stretch between awaits. The scheduler is
seen through the waiter of a turn: resolved, failed with all pending turns, or
cancelled. A request the registry refuses changes nothing and is a disabled action.

`sessions`: two ids, two turns, two trajectories, and one tombstone, so that an id is
forgotten and reused while the handler of an earlier turn still runs (the two invariants
also hold with three turns). Somebody waits only for the turn that its session has in flight
(`PendingIsInFlight`; the worker may still run a turn an abort has detached), a turn is
aborted or answered but never both (`AbortedNotAnswered`), and if the scheduler ends every
turn, no session stays in flight (`SessionsFreed`). Fairness: the loop resumes a handler
whose future is done, and nothing more. That the scheduler ends every turn
(`SchedulerEndsTurns`) is a hypothesis of the formula, for a turn has no timeout of its
own: `TurnsEnd` of section 8 says when it does, and a pump that has died of a request's
error (section 11) is a case in which it does not. All sessions may be over, so deadlock is
not checked.

`AgentSessionsProofs` proves the two invariants and `InFlightHasHandler` for any
sessions and turns. The inductive invariant `SessionInv` adds the types, that a
tombstone names an ended session and no id has two (or forgetting one could drop a live
record), that a session has a turn exactly while it is in flight, one whose handler
still waits and that is resolved only if it is marked completed (which is what an abort
looks at), and that a turn an abort reported has a waiter that failed or was aborted.

## 10. Not modelled

- Run locks and leases: exclusion is the operating system's `flock` and socket bind;
  the code around it is straight-line file I/O.
- Query book: a first-fit extent allocator used by one thread of one rank.
- Worker loop: it decides from token counts and gathered tensors, in lock step with
  all ranks through collectives. What it does for prefix reuse and weight passes is in
  `PrefixReuse` and `WeightStream`.
- Copy engines: what is correct depends on the semantics of CUDA streams. The weight
  copies are in `WeightStream`.
- Distributed weights: the daemon's order over the ranks, its cohort swap and loading.
  `WeightStream` sees leases that are granted or refused, `CoordinatedRestart` a swap
  that succeeds or raises.
- GPU paged KV, trajectory frontiers and the in-wave pool: bookkeeping of one thread
  over pages the allocator hands out, tied to tensor contents.
- HTTP parsing, launchers, metrics, and the numerics: no control state of their own.
- Of the modelled parts: statistics of the allocator, start-up of the first cohort and
  the restart of a single node, shutdown of the scheduler, capacity changes published
  by a worker, `fail_orphaned_batches` at start-up.

## 11. Disagreements of code and comments

- `reuse_killed` (`ResidentPagesTracked`): "a page is either prefix-resident (owned by
  the prefix cache, which tracks those page ids ...) or free"
  (`host_paged_kv_backend.cpp:988`). A worker killed between commit and retain leaves an
  index node that names a page the rebuild frees.
- `stream_recovery` (`SwitchInstalls`): "The producer restarts with the next phase
  install" (`batchgen_worker.py:627`). The stop before every install raises the failure
  that only the install clears.
- `scheduler_errors` (`RequestErrorsReported`): "Such a request gets the Batch API's
  error item" (`batch_scheduler.py:1634`). The completion pump takes a request's own
  error as the end of its channel (`batch_scheduler.py:469`); a second such request is
  never read while the pool serves.

One more was met and has no run: a scope of weight passes left normally calls `close`
in an `else` branch (`batchgen_worker.py:565`); if that raises, the carried pass stays
open, though "either way no pass crosses a phase boundary" (`:506`). `WeightStream`
models it: its properties allow for a failed close.
