----------------------------- MODULE PrefixReuse -----------------------------
(***************************************************************************)
(* Workers that reuse prompt prefixes (batchgen_worker.py and              *)
(* prefix_reuse/): the page allocator and the prefix cache index composed. *)
(*                                                                         *)
(* A row is a sequence on its way through a worker: its prompt is looked   *)
(* up and the hit attached, pages are reserved for the rest (evicting cold *)
(* prefixes if the region is short of pages), the computed blocks are      *)
(* committed to the index and their pages then retained by the allocator,  *)
(* and at the end the pages and the attachments are released.  Ownership   *)
(* of a page moves in TWO steps in each direction: index first, allocator  *)
(* second.  A worker can die in between; when every worker is gone the     *)
(* server reconciles the allocator, and the index is left as it is.        *)
(*                                                                         *)
(* There is one KV group and one thread per worker; ranks are not kept in  *)
(* step with each other, so the collectives of the worker are not needed   *)
(* for what is shown here.                                                 *)
(***************************************************************************)
EXTENDS Integers, Sequences, FiniteSetsExt, Functions

CONSTANTS
    NumPages, SequenceIds, SequenceCapacity, Procs, Empty, PrefixResident,
    Prompts, MaxNodes, MaxEntries, DeadThreshold, MaxKills,
    NoRow               \* the sequence is on no worker

VARIABLES
    free_stack, page_owners, live, chain, active_sequences, torn, pc, server,
    nodes, last_access_epoch, next_entry, page_refs, local_attachments, loads, call,
    mutex_dead, kills,
    row,                \* per sequence: worker, prompt, stage and the shared pages of the hit
    work                \* what each worker still owes the allocator

Group == "kv"
Handles == SequenceIds \X {"lookup", "commit"}

B == INSTANCE HostPagedKVBackend WITH MaxWave <- 1
C == INSTANCE HostPrefixCacheCoordinator
        WITH Groups <- {Group}, PageIds <- B!Pages, ThreadsPerProc <- 1, MaxLoads <- 0

allocator == <<free_stack, page_owners, live, chain, active_sequences, torn, pc, server>>
cache == <<nodes, last_access_epoch, next_entry, page_refs, local_attachments, loads, call,
           mutex_dead, kills>>
vars == <<allocator, cache, row, work>>
None == [at |-> "none"]
Thread(p) == <<p, 1>>

Init ==
    /\ B!Init
    /\ C!Init
    /\ row = [s \in SequenceIds |-> NoRow]
    /\ work = [p \in Procs |-> None]

\* Worker p is between operations.
Free(p) ==
    /\ server.at = "serving"
    /\ pc[p] = B!Idle
    /\ work[p] = None
    /\ call[Thread(p)] = C!Ready

Rows(p, stage) == {s \in SequenceIds : row[s] # NoRow /\ row[s].proc = p /\ row[s].stage = stage}
SetStage(s, stage) == row' = [row EXCEPT ![s].stage = stage]

\* Pages a row allocates: its blocks that were not hit, and a private tail for
\* the rest of the prompt and the first generated tokens.
Hit(s) == Cardinality(DOMAIN row[s].shared)
Need(s) == Len(row[s].prompt) - 1 - Hit(s) + 1

-----------------------------------------------------------------------------
(* Admission: lookup, reclaim, reserve                                     *)

\* _attach_prefix_cache_for_prefill: the hit, if any, is attached; its pages
\* are shared, by position in the prompt.
PageAt(prompt, k) == nodes[CHOOSE i \in C!Resident : nodes[i].digest = C!Digest(prompt, k)].pages

\* Faulty variant: looks the prompt up without attaching the hit.
AttachUnpinned(p, s, prompt) ==
    /\ Free(p)
    /\ row[s] = NoRow
    /\ row' = [row EXCEPT ![s] =
          [proc |-> p, prompt |-> prompt, stage |-> "attached",
           shared |-> [k \in 2 .. Cardinality(C!Hits(prompt)) + 1 |-> PageAt(prompt, k)]]]
    /\ UNCHANGED <<allocator, cache, work>>

Attach(p, s, prompt) ==
    LET hit == C!Hits(prompt)
        shared == [k \in 2 .. Cardinality(hit) + 1 |-> PageAt(prompt, k)]
    IN  /\ Free(p)
        /\ row[s] = NoRow
        /\ row' = [row EXCEPT ![s] = [proc |-> p, prompt |-> prompt, stage |-> "attached", shared |-> shared]]
        /\ IF hit = {} THEN UNCHANGED cache
           ELSE C!LookupAndAttach(Thread(p), prompt, <<s, "lookup">>)
        /\ UNCHANGED <<allocator, work>>

\* The fresh snapshot of the free pages is enough; nothing is held for the row.
Admit(p, s) ==
    /\ Free(p)
    /\ s \in Rows(p, "attached") \union Rows(p, "retried")
    /\ Need(s) <= B!Top
    /\ SetStage(s, "admitted")
    /\ UNCHANGED <<allocator, cache, work>>

\* _retry_prefill_host_capacity_after_reclaim, the index half: evict cold
\* prefixes for the missing pages, once.
Reclaim(p, s) ==
    /\ Free(p)
    /\ s \in Rows(p, "attached")
    /\ Need(s) > B!Top
    /\ \E E \in C!EvictionsForPages([g \in {Group} |-> Need(s) - B!Top], MaxNodes) :
          /\ C!EvictUntilReleasablePages(Thread(p), E)
          /\ work' = [work EXCEPT ![p] = [at |-> "release", pages |-> C!FreedPages(E, Group)]]
    /\ SetStage(s, "retried")
    /\ UNCHANGED allocator

\* release_evicted_prefix_pages: the allocator half of an eviction.
ReleaseEvicted(p) ==
    /\ server.at = "serving"
    /\ work[p].at = "release"
    /\ IF work[p].pages = {} THEN UNCHANGED allocator
       ELSE \E pages \in B!Listings(work[p].pages) :
                Range(pages) = work[p].pages /\ B!ReleaseResidentPages(p, pages)
    /\ work' = [work EXCEPT ![p] = None]
    /\ UNCHANGED <<cache, row>>

Push(p) ==
    /\ B!Push(p)
    /\ UNCHANGED <<cache, row, work>>

\* _reserve_prefill_host_kv: private pages, all or none.
Reserve(p, s) ==
    /\ Free(p)
    /\ s \in Rows(p, "admitted")
    /\ B!AcquirePagesForSequences(p, <<s>>, Need(s), [i \in 0 .. 1 |-> i * Need(s)])
    /\ SetStage(s, "reserved")
    /\ UNCHANGED <<cache, work>>

\* Too few pages, after the reclaim or because others took them since the
\* snapshot: the row goes back to the queue and lets its attachment go.
Reject(p, s) ==
    /\ Free(p)
    /\ s \in Rows(p, "retried") \union Rows(p, "admitted")
    /\ Need(s) > B!Top
    /\ SetStage(s, "leaving")
    /\ UNCHANGED <<allocator, cache, work>>

-----------------------------------------------------------------------------
(* Publication: commit to the index, then retain in the allocator          *)

\* build_page_table: the shared pages, then the sequence's own.
Logical(s) ==
    [k \in C!Positions(row[s].prompt) |->
        IF k \in DOMAIN row[s].shared THEN row[s].shared[k]
        ELSE [g \in {Group} |-> chain[s][k - 1 - Hit(s)]]]

\* _commit_prefix_cache_for_prefill, the index half: the blocks still missing
\* become nodes pinned by this row.
Commit(p, s) ==
    LET M == C!Missing(row[s].prompt)
        pages == Logical(s)
    IN  /\ Free(p)
        /\ s \in Rows(p, "reserved")
        /\ IF M = {} THEN UNCHANGED <<cache, work>>
           ELSE /\ C!CommitPrefixPages(Thread(p), row[s].prompt, pages, TRUE, <<s, "commit">>)
                /\ work' = [work EXCEPT ![p] = [at |-> "retain", seq |-> s, pages |-> {pages[k][Group] : k \in M}]]
        /\ SetStage(s, "decoding")
        /\ UNCHANGED allocator

\* Faulty variant: the pages stay with the sequence.
RetainNothing(p) ==
    /\ server.at = "serving"
    /\ work[p].at = "retain"
    /\ work' = [work EXCEPT ![p] = None]
    /\ UNCHANGED <<allocator, cache, row>>

\* retain_inserted_prefix_pages: the allocator half.
Retain(p) ==
    /\ server.at = "serving"
    /\ work[p].at = "retain"
    /\ B!RetainPages(p, work[p].seq, work[p].pages)
    /\ work' = [work EXCEPT ![p] = None]
    /\ UNCHANGED <<cache, row>>

-----------------------------------------------------------------------------
(* Completion: pages first, then the attachments                           *)

Complete(p, s) ==
    /\ Free(p)
    /\ s \in Rows(p, "decoding")
    /\ B!ReleaseSequence(p, s)
    /\ SetStage(s, "leaving")
    /\ UNCHANGED <<cache, work>>

\* _release_prefix_cache_attachments: the commit's handle, then the lookup's;
\* each release has two sections.
Detach(p, h) ==
    /\ Free(p)
    /\ h[1] \in Rows(p, "leaving")
    /\ h[2] = "lookup" => <<h[1], "commit">> \notin DOMAIN local_attachments[p]
    /\ C!ReleaseAttachment(Thread(p), h)
    /\ UNCHANGED <<allocator, row, work>>

DetachShared(p) ==
    /\ C!ReleaseAttachmentShared(Thread(p))
    /\ UNCHANGED <<allocator, row, work>>

\* Faulty variant: forgets the handle of the commit.
LeaveCommitAttached(p, s) ==
    /\ Free(p)
    /\ s \in Rows(p, "leaving")
    /\ <<s, "lookup">> \notin DOMAIN local_attachments[p]
    /\ row' = [row EXCEPT ![s] = NoRow]
    /\ UNCHANGED <<allocator, cache, work>>

Leave(p, s) ==
    /\ Free(p)
    /\ s \in Rows(p, "leaving")
    /\ \A h \in DOMAIN local_attachments[p] : h[1] # s
    /\ row' = [row EXCEPT ![s] = NoRow]
    /\ UNCHANGED <<allocator, cache, work>>

-----------------------------------------------------------------------------
(* A worker dies; the server reconciles the allocator and starts anew      *)

Kill(p) ==
    /\ B!Kill(p)
    /\ C!Kill(p, FALSE)
    /\ row' = [s \in SequenceIds |-> IF row[s] # NoRow /\ row[s].proc = p THEN NoRow ELSE row[s]]
    /\ work' = [work EXCEPT ![p] = None]

Reconcile ==
    /\ B!Reconcile
    /\ UNCHANGED <<cache, row, work>>

Step(p) ==
    \/ \E s \in SequenceIds : \/ \E prompt \in Prompts : Attach(p, s, prompt)
                              \/ Admit(p, s) \/ Reclaim(p, s) \/ Reserve(p, s) \/ Reject(p, s)
                              \/ Commit(p, s) \/ Complete(p, s) \/ Leave(p, s)
    \/ ReleaseEvicted(p) \/ Push(p) \/ Retain(p)
    \/ (\E h \in Handles : Detach(p, h)) \/ DetachShared(p)

Next == (\E p \in Procs : Step(p) \/ Kill(p)) \/ Reconcile

\* No worker dies between the two halves of a commit or of an eviction.
CleanKill(p) == work[p] = None /\ Kill(p)
CleanNext == (\E p \in Procs : Step(p) \/ CleanKill(p)) \/ Reconcile

Spec == Init /\ [][Next]_vars
CleanSpec == Init /\ [][CleanNext]_vars

-----------------------------------------------------------------------------
(* Properties                                                              *)

NodePages == {nodes[i].pages[Group] : i \in C!Resident}
ToRelease == UNION {work[p].pages : p \in {q \in Procs : work[q].at = "release"}}
ToRetain == UNION {work[p].pages : p \in {q \in Procs : work[q].at = "retain"}}

\* The index and the allocator agree on every page: it is prefix-resident
\* exactly when a node names it or its eviction is half done, except where a
\* commit is half done, and then its sequence owns it.  So neither half-done
\* step can be refused by the allocator, and restarts keep the cache intact.
OwnersAgree ==
    /\ B!Resident = (NodePages \ ToRetain) \union ToRelease
    /\ NodePages \intersect ToRelease = {}
    /\ \A p \in Procs : work[p].at = "retain" => work[p].pages \subseteq Range(chain[work[p].seq])

\* The pages a row shares stay what it was given until it has released its own:
\* they hold the same prefix, and are neither free nor a sequence's own again.
SharedPagesStay ==
    \A s \in SequenceIds : row[s] # NoRow /\ row[s].stage # "leaving" =>
        \A k \in DOMAIN row[s].shared :
            LET page == row[s].shared[k][Group]
            IN  /\ C!Cached(C!Digest(row[s].prompt, k)) /\ PageAt(row[s].prompt, k)[Group] = page
                /\ page_owners[page] = PrefixResident \/ page \in ToRetain

\* With max_nodes = num_pages + 1 and a page handle per page, the index never
\* runs out of room for a row that has its pages: the capacity retry in
\* commit_prefix_pages_with_capacity_retry is never needed.
CommitFits ==
    \A s \in SequenceIds : row[s] # NoRow /\ row[s].stage = "reserved" =>
        LET n == Cardinality(C!Missing(row[s].prompt))
        IN  /\ Cardinality(C!FreeSlots) >= n
            /\ C!TailArenaCapacityEnough(C!CompactArenasForCapacity(C!Resident, next_entry, n), n)

\* When no row is left nothing is pinned, and every page is free or cached.
QuiescentClean ==
    kills = 0 /\ (\A s \in SequenceIds : row[s] = NoRow)
              /\ (\A p \in Procs : Free(p)) =>
        /\ \A i \in C!Resident : ~C!Protected(i)
        /\ Range(free_stack) = B!Pages \ NodePages

\* "With every chain released, page ownership is ground truth": after the
\* server's rebuild the prefix-resident pages are the ones the index tracks.
ResidentPagesTracked == server.at = "rebuilt" => B!Resident = NodePages
=============================================================================
