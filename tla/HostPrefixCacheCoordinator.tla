--------------------- MODULE HostPrefixCacheCoordinator ---------------------
(***************************************************************************)
(* The prefix cache index of the shared host-KV region                     *)
(* (core/KV_Storage/host_prefix_cache_coordinator.cpp): which prefixes are *)
(* cached, on which host pages, and who still reads them.                  *)
(*                                                                         *)
(* A prompt is <<namespace, block, ..., block>>; the digest of a block is  *)
(* the prompt up to it (the hash chain is taken to be collision free).  As *)
(* prefix_reuse/config.py sets it up, a node covers one block, every group *)
(* is required for reuse, and a node has one page in each group.           *)
(*                                                                         *)
(* Nodes, reference counts and arenas are shared and change under one      *)
(* mutex, each time in one action.  Attachments are local to a process and *)
(* change under a mutex of their own, so releasing an attachment and       *)
(* starting or ending a load are two sections: the second one is in        *)
(* call[t].  Epochs are only compared, so they are kept as ranks.          *)
(***************************************************************************)
EXTENDS Integers, Sequences, FiniteSetsExt, Functions

CONSTANTS
    Prompts,            \* the prompts that are committed and looked up
    Groups,             \* KV groups, one host region each
    PageIds,            \* page ids of a host region
    MaxNodes,           \* config.max_nodes
    MaxEntries,         \* room in the arenas of group entries and page handles
    DeadThreshold,      \* dead arena entries that trigger a compaction
    Procs,              \* worker processes
    ThreadsPerProc,     \* threads of a worker that call the coordinator
    Handles,            \* bound: attachments a process holds at a time
    MaxLoads,           \* bound: loads on one attachment at a time
    MaxKills            \* bound: worker deaths

ASSUME CoordinatorAssumption ==
    /\ IsFiniteSet(Groups) /\ IsFiniteSet(Procs) /\ IsFiniteSet(Handles)
    /\ {MaxNodes, MaxEntries, DeadThreshold, ThreadsPerProc, MaxLoads, MaxKills} \subseteq Nat
    /\ \A prompt \in Prompts : prompt \in Seq(Range(prompt))

Threads == Procs \X (1 .. ThreadsPerProc)
Slots == 0 .. MaxNodes - 1

VARIABLES
    nodes,              \* resident nodes, by slot
    last_access_epoch,  \* rank of the node's epoch, by slot
    next_entry,         \* next_group_entry and next_page_handle: the arenas' tail
    page_refs,          \* page_ref_slots: resident nodes on a page, per group
    local_attachments,  \* per process, by handle
    loads,              \* loads a caller has begun and not ended, by handle
    call,               \* what each thread is in the middle of
    mutex_dead,         \* a process died inside the shared mutex
    kills               \* worker deaths so far

index == <<nodes, last_access_epoch, next_entry, page_refs>>
workers == <<local_attachments, loads, call>>
vars == <<index, workers, mutex_dead, kills>>

Resident == DOMAIN nodes
FreeSlots == Slots \ Resident
Cached(digest) == \E i \in Resident : nodes[i].digest = digest
Ready == [op |-> "ready"]

Init ==
    /\ nodes = << >>
    /\ last_access_epoch = << >>
    /\ next_entry = 0
    /\ page_refs = [g \in Groups |-> [page \in PageIds |-> 0]]
    /\ local_attachments = [p \in Procs |-> << >>]
    /\ loads = [p \in Procs |-> [h \in Handles |-> 0]]
    /\ call = [t \in Threads |-> Ready]
    /\ mutex_dead = FALSE
    /\ kills = 0

\* A thread about to run an operation, with the shared mutex usable: after an
\* owner death every ScopedPthreadMutexLock throws, and nothing is changed.
Enter(t) == call[t] = Ready /\ ~mutex_dead

-----------------------------------------------------------------------------
(* Arenas, epochs, references                                              *)

\* A node has one group entry and one page handle per group, so the tails of
\* the two arenas move together; the smaller arena is the one that fills up.
\* S is the set of resident nodes, tail the first unused entry.
Usage(S) == Cardinality(S) * Cardinality(Groups)
\* Faulty variant: off by one.
TailArenaCapacityOneShort(tail, n) == MaxEntries - tail + 1 >= n
TailArenaCapacityEnough(tail, n) == MaxEntries - tail >= n
CompactedArenaCapacityEnough(S, n) == MaxEntries - Usage(S) >= n

\* The tail after the entries of S have been moved down, counts and all.
CompactArenas(S) == Usage(S)
\* Faulty variant: waits for enough dead entries.
NeverCompactForCapacity(S, tail, n) == tail

CompactArenasForCapacity(S, tail, n) ==
    IF ~TailArenaCapacityEnough(tail, n) /\ CompactedArenaCapacityEnough(S, n) THEN CompactArenas(S) ELSE tail
CompactArenasAfterEviction(S, tail, n) ==
    IF tail - Usage(S) >= DeadThreshold THEN CompactArenas(S) ELSE CompactArenasForCapacity(S, tail, n)

\* The order of the epochs, with no gaps.
Ranked(f) == [i \in DOMAIN f |-> Cardinality({f[j] : j \in {k \in DOMAIN f : f[k] < f[i]}})]
Touched(S) == Ranked([i \in Resident |-> IF i \in S THEN MaxNodes ELSE last_access_epoch[i]])

\* Faulty variant: only the attachments protect a node, not the loads.
ProtectedByActive(i) == nodes[i].active # 0
Protected(i) == nodes[i].active # 0 \/ nodes[i].pending # 0
OnPage(S, g, page) == Cardinality({i \in S : nodes[i].pages[g] = page})

\* The pages of group g that lose their last reference when the nodes E go.
FreedPages(E, g) == {page \in PageIds : OnPage(E, g, page) > 0
                                        /\ page_refs[g][page] = OnPage(E, g, page)}

NodesAdding(S, active, pending) ==
    [i \in Resident |-> IF i \in S THEN [nodes[i] EXCEPT !.active = @ + active, !.pending = @ + pending]
                                   ELSE nodes[i]]

Spans(S, from) == [i \in S |-> from[i].pages]
NewAttachment(spans) == [spans |-> spans, pending |-> 0, release_requested |-> FALSE]
UnusedHandles(p) == Handles \ DOMAIN local_attachments[p]
Without(f, x) == [y \in DOMAIN f \ {x} |-> f[y]]
With(f, x, v) == [y \in DOMAIN f \union {x} |-> IF y = x THEN v ELSE f[y]]

-----------------------------------------------------------------------------
(* Operations under the shared mutex                                       *)

\* The chain of a prompt: the digests of its first blocks, by position.
Positions(prompt) == 2 .. Len(prompt)
Digest(prompt, k) == SubSeq(prompt, 1, k)
\* Faulty variant: does not look for existing nodes.
MissingAll(prompt) == Positions(prompt)
Missing(prompt) == {k \in Positions(prompt) : ~Cached(Digest(prompt, k))}

\* AllocateNodeLocked for the positions M in chain order: each takes the first
\* free slot.  The functions map the slots taken to the positions.
FirstFit(M) ==
    {pos \in UNION {[S -> M] : S \in {T \in SUBSET FreeSlots : Cardinality(T) = Cardinality(M)}} :
        /\ \A i, j \in DOMAIN pos : i < j => pos[i] < pos[j]
        /\ \A i \in DOMAIN pos : \A j \in FreeSlots : j < i => j \in DOMAIN pos}

NewNode(digest, pages, active) ==
    [digest |-> digest, pages |-> pages, active |-> active, pending |-> 0]

\* Commit the blocks of a prompt, whose pages are pages[k]: the missing ones
\* become nodes and, with protect_active, an attachment of the caller.
CommitPrefixPages(t, prompt, pages, protect_active, h) ==
    LET M == Missing(prompt)
        n == Cardinality(M) * Cardinality(Groups)
        tail == CompactArenasForCapacity(Resident, next_entry, n)
    IN  /\ Enter(t)
        /\ Cardinality(FreeSlots) >= Cardinality(M)
        /\ TailArenaCapacityEnough(tail, n)
        /\ M # {}
        /\ h \in UnusedHandles(t[1])
        /\ \E pos \in FirstFit(M) :
              LET new == DOMAIN pos
                  node(i) == IF i \in new
                             THEN NewNode(Digest(prompt, pos[i]), pages[pos[i]], IF protect_active THEN 1 ELSE 0)
                             ELSE nodes[i]
                  epoch(i) == IF i \notin new THEN last_access_epoch[i]
                              ELSE MaxNodes + IF protect_active THEN 0 ELSE pos[i]
              IN  /\ nodes' = [i \in Resident \union new |-> node(i)]
                  /\ last_access_epoch' = Ranked([i \in Resident \union new |-> epoch(i)])
                  /\ next_entry' = tail + n
                  /\ page_refs' = [g \in Groups |-> [page \in PageIds |->
                        page_refs[g][page] + Cardinality({i \in new : pages[pos[i]][g] = page})]]
                  /\ local_attachments' =
                        IF protect_active
                        THEN [local_attachments EXCEPT ![t[1]] =
                                With(@, h, NewAttachment([i \in new |-> pages[pos[i]]]))]
                        ELSE local_attachments
        /\ UNCHANGED <<loads, call, mutex_dead, kills>>

\* The nodes LookupAndAttach hits: the chain up to its first missing block.
Hits(prompt) ==
    {i \in Resident : \E k \in Positions(prompt) :
        nodes[i].digest = Digest(prompt, k) /\ \A m \in 2 .. k : Cached(Digest(prompt, m))}

LookupAndAttach(t, prompt, h) ==
    /\ Enter(t)
    /\ Hits(prompt) # {}
    /\ h \in UnusedHandles(t[1])
    /\ nodes' = NodesAdding(Hits(prompt), 1, 0)
    /\ last_access_epoch' = Touched(Hits(prompt))
    /\ local_attachments' =
          [local_attachments EXCEPT ![t[1]] = With(@, h, NewAttachment(Spans(Hits(prompt), nodes)))]
    /\ UNCHANGED <<next_entry, page_refs, loads, call, mutex_dead, kills>>

\* EvictNodeLocked for every node of E, then the compaction that follows.
Evicted(E, tail, n) ==
    /\ nodes' = [i \in Resident \ E |-> nodes[i]]
    /\ last_access_epoch' = Ranked([i \in Resident \ E |-> last_access_epoch[i]])
    /\ page_refs' = [g \in Groups |-> [page \in PageIds |-> page_refs[g][page] - OnPage(E, g, page)]]
    /\ next_entry' = IF E = {} THEN tail ELSE CompactArenasAfterEviction(Resident \ E, tail, n)

\* Faulty variant: the candidates are not sorted.
CandidatesUnsorted == {o \in [1 .. Cardinality(Resident) -> Resident] : \A i, j \in DOMAIN o : i < j => o[i] # o[j]}

\* The candidates in the order of their epochs; std::sort leaves the order of
\* nodes with the same epoch open.
Candidates ==
    {o \in [1 .. Cardinality(Resident) -> Resident] :
        \A i, j \in DOMAIN o : i < j => o[i] # o[j] /\ last_access_epoch[o[i]] <= last_access_epoch[o[j]]}

\* What a scan of candidates o evicts: the unprotected ones, up to the first
\* with which the evicted nodes are enough (a set of sets of nodes), or those
\* among the first limit.
ScanStops(o, limit, enough) ==
    LET gone(k) == {o[i] : i \in {j \in 1 .. k : ~Protected(o[j])}}
        stop(k) == ~Protected(o[k]) /\ gone(k) \in enough
    IN  {gone(k) : k \in {m \in 0 .. limit : (m = limit \/ (m > 0 /\ stop(m)))
                                            /\ \A j \in 1 .. m - 1 : ~stop(j)}}

ScanLimit(o, max_scan_nodes) ==
    IF max_scan_nodes = 0 \/ max_scan_nodes > Len(o) THEN Len(o) ELSE max_scan_nodes

\* The sets EvictUntilReleasablePages may evict for the page requirements.
EvictionsForPages(required, max_scan_nodes) ==
    LET enough == {E \in SUBSET Resident : \A g \in Groups : Cardinality(FreedPages(E, g)) >= required[g]}
    IN  UNION {ScanStops(o, ScanLimit(o, max_scan_nodes), enough) : o \in Candidates}

\* E is the set evicted, one of those.
EvictUntilReleasablePages(t, E) ==
    /\ Enter(t)
    /\ Evicted(E, next_entry, 0)
    /\ UNCHANGED <<workers, mutex_dead, kills>>

\* EvictUntilFree compacts the arenas if that makes room, and evicts if nodes
\* or entries are still short.
EvictionsForRoom(min_free_nodes, n, max_scan_nodes) ==
    LET tail == CompactArenasForCapacity(Resident, next_entry, n)
        Room(E) == Cardinality(FreeSlots) + Cardinality(E) >= min_free_nodes
        enough == {E \in SUBSET Resident : Room(E) /\ (TailArenaCapacityEnough(tail, n)
                                                       \/ CompactedArenaCapacityEnough(Resident \ E, n))}
    IN  IF Room({}) /\ TailArenaCapacityEnough(tail, n) THEN {{}}
        ELSE UNION {ScanStops(o, ScanLimit(o, max_scan_nodes), enough) : o \in Candidates}

EvictUntilFree(t, n, E) ==
    LET tail == CompactArenasForCapacity(Resident, next_entry, n)
    IN  /\ Enter(t)
        /\ Evicted(E, tail, n)
        /\ UNCHANGED <<workers, mutex_dead, kills>>

ClearUnprotected(t) ==
    /\ Enter(t)
    /\ Evicted({i \in Resident : ~Protected(i)}, next_entry, 0)
    /\ UNCHANGED <<workers, mutex_dead, kills>>

ClearNamespace(t, namespace) ==
    LET E == {i \in Resident : nodes[i].digest[1] = namespace /\ ~Protected(i)}
    IN  /\ Enter(t)
        /\ Evicted(E, next_entry, 0)
        /\ UNCHANGED <<workers, mutex_dead, kills>>

\* Faulty variant: counts pages that a protected node keeps.
CountUnprotectedPages(g) == Cardinality({nodes[i].pages[g] : i \in {j \in Resident : ~Protected(j)}})

\* Read only: distinct pages of the unprotected nodes that no protected one has.
CountReleasablePages(g) ==
    LET PagesOf(S) == {nodes[i].pages[g] : i \in S}
        kept == {i \in Resident : Protected(i)}
    IN  Cardinality(PagesOf(Resident \ kept) \ PagesOf(kept))

-----------------------------------------------------------------------------
(* Operations with a local and a shared section                            *)

Attachment(p, h) == local_attachments[p][h]
Attached(p, h) == h \in DOMAIN local_attachments[p]

\* ReleaseAttachment, local section: deferred while a load is pending.
ReleaseAttachment(t, h) ==
    /\ call[t] = Ready
    /\ Attached(t[1], h)
    /\ ~Attachment(t[1], h).release_requested
    /\ IF Attachment(t[1], h).pending # 0
       THEN /\ local_attachments' = [local_attachments EXCEPT ![t[1]][h].release_requested = TRUE]
            /\ call' = call
       ELSE /\ local_attachments' = [local_attachments EXCEPT ![t[1]] = Without(@, h)]
            /\ call' = [call EXCEPT ![t] = [op |-> "release", spans |-> Attachment(t[1], h).spans]]
    /\ UNCHANGED <<index, loads, mutex_dead, kills>>

\* Shared section.  With the mutex dead it throws, and the references stay.
ReleaseAttachmentShared(t) ==
    /\ call[t].op = "release"
    /\ nodes' = IF mutex_dead THEN nodes
                ELSE NodesAdding(DOMAIN call[t].spans, -1, 0)
    /\ call' = [call EXCEPT ![t] = Ready]
    /\ UNCHANGED <<last_access_epoch, next_entry, page_refs, local_attachments, loads, mutex_dead, kills>>

BeginAttachmentLoad(t, h) ==
    /\ call[t] = Ready
    /\ Attached(t[1], h)
    /\ ~Attachment(t[1], h).release_requested
    /\ Attachment(t[1], h).pending < MaxLoads
    /\ local_attachments' = [local_attachments EXCEPT ![t[1]][h].pending = @ + 1]
    /\ call' = [call EXCEPT ![t] = [op |-> "begin", handle |-> h, spans |-> Attachment(t[1], h).spans]]
    /\ UNCHANGED <<index, loads, mutex_dead, kills>>

\* With the mutex dead the shared section throws and the catch takes the local
\* count back.
BeginAttachmentLoadShared(t) ==
    LET h == call[t].handle
    IN  /\ call[t].op = "begin"
        /\ IF mutex_dead
           THEN /\ local_attachments' = [local_attachments EXCEPT ![t[1]][h].pending = @ - 1]
                /\ UNCHANGED <<nodes, loads>>
           ELSE /\ nodes' = NodesAdding(DOMAIN call[t].spans, 0, 1)
                /\ loads' = [loads EXCEPT ![t[1]][h] = @ + 1]
                /\ UNCHANGED local_attachments
        /\ call' = [call EXCEPT ![t] = Ready]
        /\ UNCHANGED <<last_access_epoch, next_entry, page_refs, mutex_dead, kills>>

\* Faulty variant: looks at the pending count before decrementing it.
EndAttachmentLoadEarly(t, h) ==
    LET a == Attachment(t[1], h)
    IN  /\ call[t] = Ready
        /\ loads[t[1]][h] > 0
        /\ Attached(t[1], h) /\ a.pending > 0
        /\ local_attachments' = [local_attachments EXCEPT ![t[1]][h].pending = a.pending - 1]
        /\ loads' = [loads EXCEPT ![t[1]][h] = @ - 1]
        /\ call' = [call EXCEPT ![t] = [op |-> "end", spans |-> a.spans, finalize |-> FALSE]]
        /\ UNCHANGED <<index, mutex_dead, kills>>

\* A caller ends a load it has begun (PrefixMaterialization.close); the last
\* one completes a deferred release.
EndAttachmentLoad(t, h) ==
    LET a == Attachment(t[1], h)
        finalize_release == a.release_requested /\ a.pending = 1
    IN  /\ call[t] = Ready
        /\ loads[t[1]][h] > 0
        /\ Attached(t[1], h) /\ a.pending > 0
        /\ local_attachments' = [local_attachments EXCEPT ![t[1]] =
              IF finalize_release THEN Without(@, h) ELSE [@ EXCEPT ![h].pending = a.pending - 1]]
        /\ loads' = [loads EXCEPT ![t[1]][h] = @ - 1]
        /\ call' = [call EXCEPT ![t] = [op |-> "end", spans |-> a.spans, finalize |-> finalize_release]]
        /\ UNCHANGED <<index, mutex_dead, kills>>

\* Faulty variant: a deferred release never gives its references back.
EndAttachmentLoadKeepsPin(t) ==
    /\ call[t].op = "end"
    /\ nodes' = IF mutex_dead THEN nodes ELSE NodesAdding(DOMAIN call[t].spans, 0, -1)
    /\ call' = [call EXCEPT ![t] = Ready]
    /\ UNCHANGED <<last_access_epoch, next_entry, page_refs, local_attachments, loads, mutex_dead, kills>>

EndAttachmentLoadShared(t) ==
    /\ call[t].op = "end"
    /\ nodes' = IF mutex_dead THEN nodes
                ELSE NodesAdding(DOMAIN call[t].spans, IF call[t].finalize THEN -1 ELSE 0, -1)
    /\ call' = [call EXCEPT ![t] = Ready]
    /\ UNCHANGED <<last_access_epoch, next_entry, page_refs, local_attachments, loads, mutex_dead, kills>>

-----------------------------------------------------------------------------
(* Worker deaths, and the next-state relation                              *)

\* A worker dies and is respawned: what is local to it is gone, what it had
\* counted in shared memory stays.  It may die holding the shared mutex; the
\* next lock finds the owner dead, gives the mutex up without repairing it, and
\* no lock ever succeeds again.
Kill(p, holding_mutex) ==
    /\ kills < MaxKills
    /\ kills' = kills + 1
    /\ local_attachments' = [local_attachments EXCEPT ![p] = << >>]
    /\ loads' = [loads EXCEPT ![p] = [h \in Handles |-> 0]]
    /\ call' = [t \in Threads |-> IF t[1] = p THEN Ready ELSE call[t]]
    /\ mutex_dead' = (mutex_dead \/ holding_mutex)
    /\ UNCHANGED index

Commit(t) ==
    \E prompt \in Prompts, protect \in BOOLEAN, h \in Handles :
        \E pages \in [Positions(prompt) -> [Groups -> PageIds]] :
            /\ \A j, k \in Positions(prompt) : \A g \in Groups : j # k => pages[j][g] # pages[k][g]
            /\ CommitPrefixPages(t, prompt, pages, protect, h)

\* A call that finds nothing to evict or compact changes nothing: those are
\* left to the stuttering steps.
Evict(t) ==
    /\ Enter(t)
    /\ \/ \E E \in UNION {EvictionsForPages(required, scan) :
                             required \in [Groups -> 1 .. Cardinality(PageIds)], scan \in 0 .. 1} \ {{}} :
             EvictUntilReleasablePages(t, E)
       \/ \E n \in 0 .. MaxEntries :
             \E E \in UNION {EvictionsForRoom(min_nodes, n, scan) : min_nodes \in 0 .. MaxNodes, scan \in 0 .. 1} :
                /\ E # {} \/ CompactArenasForCapacity(Resident, next_entry, n) # next_entry
                /\ EvictUntilFree(t, n, E)
       \/ ClearUnprotected(t)
       \/ \E prompt \in Prompts : ClearNamespace(t, prompt[1])

SharedSection(t) ==
    \/ ReleaseAttachmentShared(t)
    \/ BeginAttachmentLoadShared(t)
    \/ EndAttachmentLoadShared(t)

Step(t) ==
    \/ Commit(t)
    \/ \E prompt \in Prompts, h \in Handles : LookupAndAttach(t, prompt, h)
    \/ Evict(t)
    \/ \E h \in Handles : ReleaseAttachment(t, h) \/ BeginAttachmentLoad(t, h) \/ EndAttachmentLoad(t, h)
    \/ SharedSection(t)

Next == \/ \E t \in Threads : Step(t)
        \/ \E p \in Procs, holding_mutex \in BOOLEAN : Kill(p, holding_mutex)

Spec == Init /\ [][Next]_vars

\* A thread that has begun a call finishes it, and a worker that has begun a
\* load ends it: PrefixMaterialization.close runs on every path.  Ending a load
\* competes with the thread's other calls, hence strong fairness.
FairSpec ==
    /\ Spec
    /\ \A t \in Threads : WF_vars(SharedSection(t))
    /\ \A p \in Procs, h \in Handles : SF_vars(\E t \in Threads : t[1] = p /\ EndAttachmentLoad(t, h))

-----------------------------------------------------------------------------
(* Properties                                                              *)

\* Who is counted in active_ref_count of node i: attachments, and threads
\* between the two sections of a release.
Pins(i) ==
    {a \in Procs \X Handles : Attached(a[1], a[2]) /\ i \in DOMAIN Attachment(a[1], a[2]).spans}
Unpinning(i) ==
    {t \in Threads : /\ call[t].op = "release" \/ (call[t].op = "end" /\ call[t].finalize)
                     /\ i \in DOMAIN call[t].spans}

\* Who is counted in pending_load_count of node i.
Loading(i) ==
    {load \in Pins(i) \X (1 .. MaxLoads) : load[2] <= loads[load[1][1]][load[1][2]]}
Unloading(i) == {t \in Threads : call[t].op = "end" /\ i \in DOMAIN call[t].spans}

\* Types of the shared index, the attachments and the calls under way.
TypeOK ==
    /\ Resident \subseteq Slots
    /\ \A i \in Resident :
          /\ DOMAIN nodes[i] = {"digest", "pages", "active", "pending"}
          /\ nodes[i].digest \in UNION {{Digest(pr, k) : k \in Positions(pr)} : pr \in Prompts}
          /\ nodes[i].pages \in [Groups -> PageIds]
          /\ nodes[i].active \in Nat /\ nodes[i].pending \in Nat
    /\ last_access_epoch \in [Resident -> 0 .. MaxNodes - 1]
    /\ next_entry \in 0 .. MaxEntries
    /\ page_refs \in [Groups -> [PageIds -> Nat]]
    /\ \A p \in Procs : \A h \in DOMAIN local_attachments[p] :
          /\ h \in Handles
          /\ DOMAIN Attachment(p, h).spans \subseteq Slots
          /\ Attachment(p, h).pending \in 0 .. MaxLoads
          /\ Attachment(p, h).release_requested \in BOOLEAN
    /\ loads \in [Procs -> [Handles -> 0 .. MaxLoads]]
    /\ \A t \in Threads : call[t].op \in {"ready", "release", "begin", "end"}
    /\ mutex_dead \in BOOLEAN /\ kills \in 0 .. MaxKills

\* The pages handed out with an attachment stay those of the same resident node
\* until the release has reached the shared section: neither eviction nor the
\* reuse of a slot takes them away from a reader (AttachNodesLocked,
\* NodeIsProtectedLocked), even when a release or a load is between its two
\* sections.
SpansStay ==
    /\ \A p \in Procs : \A h \in DOMAIN local_attachments[p] : \A i \in DOMAIN Attachment(p, h).spans :
          i \in Resident /\ nodes[i].pages = Attachment(p, h).spans[i]
    /\ \A t \in Threads : call[t] # Ready => \A i \in DOMAIN call[t].spans :
          i \in Resident /\ nodes[i].pages = call[t].spans[i]

\* active_ref_count and pending_load_count of a node are exactly the
\* attachments, loads and half-done calls on it, as long as no worker has died;
\* a death can only leave them too high, never too low.  So no decrement
\* underflows.
RefsExact ==
    \A i \in Resident :
        LET active == Cardinality(Pins(i)) + Cardinality(Unpinning(i))
            pending == Cardinality(Loading(i)) + Cardinality(Unloading(i))
        IN  /\ nodes[i].active >= active /\ nodes[i].pending >= pending
            /\ kills = 0 => nodes[i].active = active /\ nodes[i].pending = pending

\* page_ref_slots counts the resident nodes on each page, and a digest is in
\* the index once.
IndexExact ==
    /\ \A g \in Groups, page \in PageIds : page_refs[g][page] = OnPage(Resident, g, page)
    /\ \A i, j \in Resident : nodes[i].digest = nodes[j].digest => i = j

\* CountReleasablePages is the number of pages evicting every unprotected node
\* would free: its two sets agree with the reference counts AppendEvictedPages
\* goes by, also where nodes share a page.
ReleasableExact ==
    \A g \in Groups :
        CountReleasablePages(g) = Cardinality(FreedPages({i \in Resident : ~Protected(i)}, g))

\* Evictions take the least recently used unprotected node first: no node that
\* stays is older than one EvictUntil* takes, unless it is protected.
\* (ClearNamespace takes nodes by namespace instead.)
EvictsOldestFirst ==
    [][\A i, j \in Resident :
          i \notin DOMAIN nodes' /\ j \in DOMAIN nodes' /\ last_access_epoch[j] < last_access_epoch[i] /\ ~Protected(j)
            => nodes[j].digest[1] # nodes[i].digest[1]]_vars

\* A release that was deferred for a load takes effect once the loads end: the
\* node it pinned can be evicted again.
DeferredReleaseCompletes ==
    \A p \in Procs, h \in Handles :
        (Attached(p, h) /\ Attachment(p, h).release_requested)
            ~> (mutex_dead \/ ~(Attached(p, h) /\ Attachment(p, h).release_requested))
=============================================================================
