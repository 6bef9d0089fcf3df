------------------------- MODULE HostPagedKVBackend -------------------------
(***************************************************************************)
(* The page allocator of the shared host-KV region                         *)
(* (core/KV_Storage/host_paged_kv_backend.cpp): a free stack of page ids,  *)
(* an owner per page, a chain of pages per live sequence, and a bounded    *)
(* sequence table.                                                         *)
(*                                                                         *)
(* Every attached process runs the operations below.  The region has two   *)
(* mutexes, and most operations are TWO critical sections with nothing     *)
(* held in between: the free stack changes under allocation_mutex, owners, *)
(* chains and the table under sequence_mutex.  Each critical section is    *)
(* one action here; the pages an operation carries from one section to the *)
(* next are in pc[p].  A process can be killed between two sections or in  *)
(* the middle of one; the mutexes are robust, so the others go on (a lock  *)
(* whose owner died is taken and declared consistent), and the server runs *)
(* ReleaseAllSequences once the whole cohort is gone.                      *)
(*                                                                         *)
(* A call that is refused without touching the region (bad arguments, too  *)
(* few free pages) is a stuttering step.  acquire_failures and the two     *)
(* lifetime counters sequences_inserted and sequences_released, statistics *)
(* nothing reads back, are left out.                                       *)
(***************************************************************************)
EXTENDS Integers, Sequences, FiniteSetsExt, Functions

CONSTANTS
    NumPages,          \* config.num_pages
    SequenceIds,       \* the ids callers use; none is a reserved id
    SequenceCapacity,  \* slots of the sequence table
    Procs,             \* the processes attached to the region
    Empty,             \* kEmptySequenceId
    PrefixResident,    \* kPrefixResidentSequenceId
    MaxWave            \* bound: sequences in one AcquirePagesForSequences

ASSUME NumPagesAssumption == NumPages \in Nat \ {0}
ASSUME CapacityAssumption == SequenceCapacity \in Nat \ {0}
ASSUME ReservedIdsAssumption ==
    Empty \notin SequenceIds /\ PrefixResident \notin SequenceIds /\ Empty # PrefixResident
ASSUME FiniteIdsAssumption == IsFiniteSet(SequenceIds)
ASSUME WaveAssumption == MaxWave \in Nat
ASSUME ProcsAssumption == Procs # {}

Pages == 0 .. NumPages - 1

VARIABLES
    free_stack,          \* free_stack[0 .. free_stack_top - 1], top last
    page_owners,         \* Empty, PrefixResident or the owning sequence
    live,                \* ids with an entry in the sequence table
    chain,               \* head_page .. tail_page along page_links, per id
    active_sequences,
    torn,                \* ids a process died in the middle of changing
    pc,                  \* what each process is in the middle of
    server               \* progress of the server's cohort reconcile

counters == <<active_sequences, torn>>
table == <<page_owners, live, chain>>
vars == <<free_stack, table, counters, pc, server>>


\* Where a process stands between two critical sections: no operation running,
\* killed, or carrying pages that are to be attached to a sequence ("attach"),
\* or pushed on the free stack ("push": a detach, or an attach that failed).
Idle == [at |-> "idle"]
Dead == [at |-> "dead"]
Carry == [at : {"attach"}, seq : SequenceIds, pages : Seq(Pages)]
         \union [at : {"push"}, pages : Seq(Pages)]

Top == Len(free_stack)
PopTop(n) == SubSeq(free_stack, Top - n + 1, Top)
BelowTop(n) == SubSeq(free_stack, 1, Top - n)
SetOwner(S, owner) == [page \in Pages |-> IF page \in S THEN owner ELSE page_owners[page]]

\* FindOrInsertSequenceEntryLocked finds or makes an entry for every id of S:
\* a slot, empty or tombstone, is left for each one that has none.
CanInsert(S) == Cardinality(live \union S) <= SequenceCapacity

Init ==
    /\ free_stack = [i \in 1 .. NumPages |-> NumPages - i]
    /\ page_owners = [page \in Pages |-> Empty]
    /\ live = {}
    /\ chain = [s \in SequenceIds |-> << >>]
    /\ active_sequences = 0
    /\ torn = {}
    /\ pc = [p \in Procs |-> Idle]
    /\ server = [at |-> "serving"]

-----------------------------------------------------------------------------
(* AcquirePages                                                            *)

\* Section 1 (allocation_mutex): pop the top n pages, which keep stack order.
AcquirePop(p, s, n) ==
    /\ pc[p] = Idle
    /\ n <= Top
    /\ free_stack' = BelowTop(n)
    /\ pc' = [pc EXCEPT ![p] = [at |-> "attach", seq |-> s, pages |-> PopTop(n)]]
    /\ UNCHANGED <<table, counters, server>>

\* What the second section writes: the entry, the new pages at the tail.
AttachPages(s, pages) ==
    /\ live' = live \union {s}
    /\ chain' = [chain EXCEPT ![s] = @ \o pages]
    /\ page_owners' = SetOwner(Range(pages), s)

New(s) == IF s \in live THEN 0 ELSE 1

\* Section 2 (sequence_mutex): find or insert the entry, count it, attach.
AcquireAttach(p) ==
    /\ pc[p].at = "attach"
    /\ CanInsert({pc[p].seq})
    /\ AttachPages(pc[p].seq, pc[p].pages)
    /\ active_sequences' = active_sequences + New(pc[p].seq)
    /\ pc' = [pc EXCEPT ![p] = Idle]
    /\ UNCHANGED <<free_stack, torn, server>>

\* Faulty variants: no catch block; waiting for a slot instead of throwing.
AcquireTableFullUncaught(p) ==
    /\ pc[p].at = "attach"
    /\ ~CanInsert({pc[p].seq})
    /\ pc' = [pc EXCEPT ![p] = Idle]
    /\ UNCHANGED <<free_stack, table, counters, server>>
AcquireTableFullWaits(p) ==
    /\ pc[p].at = "attach"
    /\ ~CanInsert({pc[p].seq})
    /\ UNCHANGED vars

\* Section 2, table full: the insert throws before any page is attached, and
\* the catch block is left to push the pages back at the then current top.
AcquireTableFull(p) ==
    /\ pc[p].at = "attach"
    /\ ~CanInsert({pc[p].seq})
    /\ pc' = [pc EXCEPT ![p] = [at |-> "push", pages |-> pc[p].pages]]
    /\ UNCHANGED <<free_stack, table, counters, server>>

\* The last section of every operation that returns pages (allocation_mutex).
Push(p) ==
    /\ pc[p].at = "push"
    /\ free_stack' = free_stack \o pc[p].pages
    /\ pc' = [pc EXCEPT ![p] = Idle]
    /\ UNCHANGED <<table, counters, server>>

-----------------------------------------------------------------------------
(* AcquirePagesForSequences                                                *)

\* A request: distinct ids with at least one page each.  cut[i] is the number
\* of pages required by the first i ids together.
Waves == {ids \in UNION {[1 .. m -> SequenceIds] : m \in 1 .. MaxWave} : IsInjective(ids)}
Cuts(m, total) == {cut \in [0 .. m -> 0 .. total] :
                      /\ cut[0] = 0 /\ cut[m] = total
                      /\ \A i, j \in 0 .. m : i < j => cut[i] < cut[j]}

\* The writes of a wave: total pages leave the stack, ids[i] gets its pages up
\* to the one at upto[i], and the ids of entries have an entry afterwards.
AttachWave(ids, total, cut, upto, entries) ==
    LET popped == PopTop(total)
        share == [i \in 1 .. Len(ids) |-> SubSeq(popped, cut[i - 1] + 1, upto[i])]
        Index(s) == CHOOSE i \in DOMAIN ids : ids[i] = s
    IN  /\ free_stack' = BelowTop(total)
        /\ live' = live \union entries
        /\ chain' = [s \in SequenceIds |->
                        IF s \in Range(ids) THEN chain[s] \o share[Index(s)] ELSE chain[s]]
        /\ page_owners' = [page \in Pages |->
                        IF \E i \in DOMAIN ids : page \in Range(share[i])
                        THEN ids[CHOOSE i \in DOMAIN ids : page \in Range(share[i])]
                        ELSE page_owners[page]]

\* Both mutexes held: the whole wave is allocated, or, when the stack is too
\* low or the table fills up half way, rolled back to the state before it.
AcquirePagesForSequences(p, ids, total, cut) ==
    /\ pc[p] = Idle
    /\ total <= Top
    /\ CanInsert(Range(ids))
    /\ AttachWave(ids, total, cut, [i \in 1 .. Len(ids) |-> cut[i]], Range(ids))
    /\ active_sequences' = active_sequences + Cardinality(Range(ids) \ live)
    /\ UNCHANGED <<torn, pc, server>>

-----------------------------------------------------------------------------
(* Release and retain: a section under sequence_mutex takes pages out of   *)
(* a chain or out of the resident set, a later one pushes them.            *)

AfterDetach(pages) == IF pages = << >> THEN Idle ELSE [at |-> "push", pages |-> pages]

\* The table and chain part of ReleaseSequence, also run by the server.
DetachSequence(s) ==
    /\ s \in live
    /\ live' = live \ {s}
    /\ chain' = [chain EXCEPT ![s] = << >>]
    /\ page_owners' = SetOwner(Range(chain[s]), Empty)
    /\ active_sequences' = active_sequences - 1
    /\ UNCHANGED torn

ReleaseSequence(p, s) ==
    /\ pc[p] = Idle
    /\ DetachSequence(s)
    /\ pc' = [pc EXCEPT ![p] = AfterDetach(chain[s])]
    /\ UNCHANGED <<free_stack, server>>

\* The first n pages of the chain; the entry stays, even with no page left.
ReleasePrefixPages(p, s, n) ==
    LET pages == SubSeq(chain[s], 1, n)
    IN  /\ pc[p] = Idle
        /\ s \in live
        /\ n <= Len(chain[s])
        /\ chain' = [chain EXCEPT ![s] = SubSeq(@, n + 1, Len(@))]
        /\ page_owners' = SetOwner(Range(pages), Empty)
        /\ pc' = [pc EXCEPT ![p] = [at |-> "push", pages |-> pages]]
        /\ UNCHANGED <<free_stack, live, counters, server>>

\* The ways to list K, a set of positions, in increasing order: just one.
Ascending(K) == {f \in [1 .. Cardinality(K) -> K] :
                    /\ \A i, j \in DOMAIN f : i < j => f[i] < f[j]
                    /\ \A k \in K : \E i \in DOMAIN f : f[i] = k}

\* Faulty variant: marks the pages resident and leaves them in the chain.
RetainPagesStillLinked(p, s, R) ==
    /\ pc[p] = Idle
    /\ s \in live
    /\ page_owners' = SetOwner(R, PrefixResident)
    /\ UNCHANGED <<free_stack, live, chain, counters, pc, server>>

\* Unlink the pages R from the chain of s, in place.
Unlink(s, R) ==
    \E f \in Ascending({i \in DOMAIN chain[s] : chain[s][i] \notin R}) :
        chain' = [chain EXCEPT ![s] = [i \in DOMAIN f |-> chain[s][f[i]]]]

\* Hand pages R of s over to the prefix cache: unlink them and mark them
\* resident.  One section only; nothing is pushed.
RetainPages(p, s, R) ==
    /\ pc[p] = Idle
    /\ s \in live
    /\ R \subseteq Range(chain[s])
    /\ Unlink(s, R)
    /\ page_owners' = SetOwner(R, PrefixResident)
    /\ UNCHANGED <<free_stack, live, counters, pc, server>>

\* The lists of distinct pages drawn from S.
Listings(S) == {l \in UNION {[1 .. n -> S] : n \in 1 .. Cardinality(S)} : IsInjective(l)}

ReleaseResidentPages(p, pages) ==
    /\ pc[p] = Idle
    /\ \A i \in DOMAIN pages : page_owners[pages[i]] = PrefixResident
    /\ page_owners' = SetOwner(Range(pages), Empty)
    /\ pc' = [pc EXCEPT ![p] = [at |-> "push", pages |-> pages]]
    /\ UNCHANGED <<free_stack, live, chain, counters, server>>

-----------------------------------------------------------------------------
(* A killed process, and the server's reconcile of a dead cohort           *)

\* SIGKILL: what the process carried is lost, and the sequences S it was
\* changing stay half changed until the rebuild.  Nobody else uses them: each
\* sequence is changed by one process only.
Dies(p, S) ==
    /\ server.at = "serving"
    /\ pc[p] # Dead
    /\ \A q \in Procs \ {p} : pc[q].at = "attach" => pc[q].seq \notin S
    /\ pc' = [pc EXCEPT ![p] = Dead]
    /\ torn' = torn \union S
    /\ UNCHANGED server

\* Outside the critical sections, or in one that commits with a single store
\* (those of allocation_mutex: free_stack_top is written last).
Kill(p) == Dies(p, {}) /\ UNCHANGED <<free_stack, table, active_sequences>>

\* Inside a section of sequence_mutex the chain of a sequence is what a walk
\* from its head_page reaches.  The owner slot of a page of a torn sequence is
\* read by nobody before the rebuild overwrites it: it is written as s where
\* the walk reaches the page and as Empty where it does not.

\* In AcquirePages: the entry is there, counted or not yet, with the first n
\* pages.
KillInAttach(p, n, counted) ==
    /\ pc[p].at = "attach"
    /\ CanInsert({pc[p].seq})
    /\ n < Len(pc[p].pages)
    /\ counted \in {0, New(pc[p].seq)}
    /\ n > 0 => counted = New(pc[p].seq)
    /\ AttachPages(pc[p].seq, SubSeq(pc[p].pages, 1, n))
    /\ active_sequences' = active_sequences + counted
    /\ Dies(p, {pc[p].seq})
    /\ UNCHANGED free_stack

\* In ReleaseSequence or ReleasePrefixPages: the links cleared so far end the
\* walk at the first page (k = 1); or, in the former, the entry is a tombstone
\* that is still counted (k = 0).  Killed after head_page was moved,
\* ReleasePrefixPages is done as far as anyone can tell.
KillInRelease(p, s, k) ==
    /\ pc[p] = Idle
    /\ s \in live
    /\ k <= Len(chain[s])
    /\ live' = IF k = 0 THEN live \ {s} ELSE live
    /\ chain' = [chain EXCEPT ![s] = SubSeq(@, 1, k)]
    /\ page_owners' = SetOwner(Range(SubSeq(chain[s], k + 1, Len(chain[s]))), Empty)
    /\ Dies(p, {s})
    /\ UNCHANGED <<free_stack, active_sequences>>

\* In RetainPages, which walks the chain: the pages R are unlinked and, but for
\* half, the last of them, resident.
KillInRetain(p, s, R, half) ==
    /\ pc[p] = Idle
    /\ s \in live
    /\ R \subseteq Range(chain[s])
    /\ \A i, j \in DOMAIN chain[s] : chain[s][i] = half /\ chain[s][j] \in R => j <= i
    /\ Unlink(s, R)
    /\ page_owners' = [page \in Pages |-> IF page = half THEN Empty
                                          ELSE IF page \in R THEN PrefixResident
                                          ELSE page_owners[page]]
    /\ Dies(p, {s})
    /\ UNCHANGED <<free_stack, live, active_sequences>>

\* In AcquirePagesForSequences: the ids before last have their pages, last has
\* them up to the one at end; an id is counted after its pages.
Part(ids, i, j) == {ids[k] : k \in i .. j}

KillInWave(p, ids, total, cut, last, end, done) ==
    /\ pc[p] = Idle
    /\ total <= Top
    /\ CanInsert(Part(ids, 1, last))
    /\ done = last => end = cut[last]
    /\ AttachWave(ids, total, cut,
                  [i \in 1 .. Len(ids) |-> IF i < last THEN cut[i]
                                           ELSE IF i = last THEN end ELSE cut[i - 1]],
                  Part(ids, 1, last))
    /\ active_sequences' = active_sequences + Cardinality(Part(ids, 1, done) \ live)
    /\ Dies(p, Range(ids))

\* In its roll-back: the table was full at ids[full], the entries before first
\* are what they were, the last of them perhaps still counted, and the pages
\* are not back on the stack.
KillInRollBack(p, ids, total, cut, full, first, counted) ==
    /\ pc[p] = Idle
    /\ total <= Top
    /\ CanInsert(Part(ids, 1, full - 1)) /\ ~CanInsert(Part(ids, 1, full))
    /\ AttachWave(ids, total, cut,
                  [i \in 1 .. Len(ids) |-> IF first <= i /\ i < full THEN cut[i] ELSE cut[i - 1]],
                  Part(ids, first, full - 1))
    /\ active_sequences' = active_sequences + Cardinality(Part(ids, counted, full - 1) \ live)
    /\ Dies(p, Range(ids))

\* Faulty variant: does not wait for the workers to exit.
CollectLiveEarly ==
    /\ server.at = "serving"
    /\ server' = [at |-> "releasing", todo |-> live]
    /\ UNCHANGED <<free_stack, table, counters, pc>>

\* ReleaseAllSequences, called once every worker has exited: list the live ids.
CollectLive ==
    /\ server.at = "serving"
    /\ \A p \in Procs : pc[p] = Dead
    /\ server' = [at |-> "releasing", todo |-> live]
    /\ UNCHANGED <<free_stack, table, counters, pc>>

\* Faulty variant: the loop does not advance.
ServerDetachStays(s) ==
    /\ server.at = "releasing"
    /\ s \in server.todo
    /\ UNCHANGED vars

ServerDetach(s) ==
    /\ server.at = "releasing"
    /\ s \in server.todo
    /\ DetachSequence(s)
    /\ server' = [at |-> "pushing", todo |-> server.todo \ {s}, pages |-> chain[s]]
    /\ UNCHANGED <<free_stack, pc>>

ServerPush ==
    /\ server.at = "pushing"
    /\ free_stack' = free_stack \o server.pages
    /\ server' = [at |-> "releasing", todo |-> server.todo]
    /\ UNCHANGED <<table, counters, pc>>

\* RebuildFreeStateLocked: the given pages go back on the stack, in descending
\* order, and the table is emptied.
RebuildFrom(free) ==
    /\ \E f \in Ascending(free) : free_stack' = [i \in DOMAIN f |-> f[Cardinality(free) + 1 - i]]
    /\ page_owners' = SetOwner(free, Empty)
    /\ chain' = [s \in SequenceIds |-> << >>]
    /\ active_sequences' = 0
    /\ torn' = {}
    /\ server' = [at |-> "rebuilt"]
    /\ UNCHANGED <<live, pc>>

\* Faulty variant: the rebuild does not wait for the releases.
RebuildTooEarly ==
    server.at = "releasing" /\ RebuildFrom({page \in Pages : page_owners[page] # PrefixResident})

\* Ownership is ground truth: every page that is not prefix-resident is free.
\* The rebuild refuses (logic_error) to run over a live sequence.
RebuildFreeState ==
    /\ server.at = "releasing"
    /\ server.todo = {}
    /\ live = {}
    /\ RebuildFrom({page \in Pages : page_owners[page] # PrefixResident})

\* The next cohort attaches to the same region.
Respawn ==
    /\ server.at = "rebuilt"
    /\ pc' = [p \in Procs |-> Idle]
    /\ server' = [at |-> "serving"]
    /\ UNCHANGED <<free_stack, table, counters>>

-----------------------------------------------------------------------------
Intact == SequenceIds \ torn
IntactWaves == {ids \in Waves : Range(ids) \subseteq Intact}

Start(p) ==
    \/ \E s \in Intact, n \in 1 .. NumPages : AcquirePop(p, s, n)
    \/ \E ids \in IntactWaves, total \in 1 .. NumPages :
          \E cut \in Cuts(Len(ids), total) : AcquirePagesForSequences(p, ids, total, cut)
    \/ \E s \in Intact : ReleaseSequence(p, s)
    \/ \E s \in Intact, n \in 1 .. NumPages : ReleasePrefixPages(p, s, n)
    \/ \E s \in Intact : \E R \in SUBSET Range(chain[s]) \ {{}} : RetainPages(p, s, R)
    \/ \E pages \in Listings({page \in Pages : page_owners[page] = PrefixResident}) :
          ReleaseResidentPages(p, pages)

Finish(p) == AcquireAttach(p) \/ AcquireTableFull(p) \/ Push(p)

KillInside(p) ==
    \/ \E n \in 0 .. NumPages, counted \in 0 .. 1 : KillInAttach(p, n, counted)
    \/ \E s \in Intact, k \in 0 .. 1 : KillInRelease(p, s, k)
    \/ \E s \in Intact : \E R \in SUBSET Range(chain[s]) : \E half \in R : KillInRetain(p, s, R, half)
    \/ pc[p] = Idle /\ \E ids \in IntactWaves, total \in 1 .. NumPages :
          \E cut \in Cuts(Len(ids), total), last \in DOMAIN ids :
             \/ \E end \in cut[last - 1] .. cut[last], done \in last - 1 .. last :
                   KillInWave(p, ids, total, cut, last, end, done)
             \/ \E first \in 2 .. last : \E counted \in first - 1 .. first :
                   KillInRollBack(p, ids, total, cut, last, first, counted)

Reconcile == CollectLive \/ (\E s \in SequenceIds : ServerDetach(s)) \/ ServerPush
             \/ RebuildFreeState \/ Respawn

Next == (\E p \in Procs : Start(p) \/ Finish(p) \/ Kill(p) \/ KillInside(p)) \/ Reconcile

\* A thread inside the allocator and the server's reconcile keep running;
\* nothing makes a caller start an operation or die.
Fairness == (\A p \in Procs : WF_vars(Finish(p))) /\ WF_vars(Reconcile)

Spec == Init /\ [][Next]_vars
FairSpec == Spec /\ Fairness

-----------------------------------------------------------------------------
(* Properties                                                              *)

InFlight(p) == IF pc[p] \in {Idle, Dead} THEN {} ELSE Range(pc[p].pages)
ServerHeld == IF server.at = "pushing" THEN Range(server.pages) ELSE {}
Resident == {page \in Pages : page_owners[page] = PrefixResident}

\* Pages no structure and no process accounts for: lost by a killed process.
Stranded == {page \in Pages : /\ page_owners[page] = Empty
                              /\ page \notin Range(free_stack) \union ServerHeld
                              /\ \A p \in Procs : page \notin InFlight(p)}

TypeOK ==
    /\ free_stack \in Seq(Pages)
    /\ page_owners \in [Pages -> SequenceIds \union {Empty, PrefixResident}]
    /\ live \in SUBSET SequenceIds
    /\ chain \in [SequenceIds -> Seq(Pages)]
    /\ active_sequences \in Int
    /\ torn \in SUBSET SequenceIds
    /\ pc \in [Procs -> {Idle, Dead} \union Carry]
    /\ server \in {[at |-> "serving"], [at |-> "rebuilt"]}
                  \union [at : {"releasing"}, todo : SUBSET SequenceIds]
                  \union [at : {"pushing"}, todo : SUBSET SequenceIds, pages : Seq(Pages)]

\* The free stack lists a page at most once and only pages nobody owns.
StackSound ==
    /\ IsInjective(free_stack)
    /\ \A page \in Range(free_stack) : page_owners[page] = Empty

\* The chain of a sequence lists each page it owns exactly once, and a sequence
\* without a table entry owns nothing.
ChainsSound ==
    /\ \A s \in SequenceIds : /\ IsInjective(chain[s])
                              /\ Range(chain[s]) = {page \in Pages : page_owners[page] = s}
    /\ \A s \in SequenceIds \ live : chain[s] = << >>

\* Pages between two critical sections are owned by nobody, are not on the
\* stack, and are carried by one process (or the server) only.
CarriedSound ==
    /\ \A p \in Procs : pc[p] \notin {Idle, Dead} => IsInjective(pc[p].pages)
    /\ \A p, q \in Procs : p # q => InFlight(p) \intersect InFlight(q) = {}
    /\ server.at = "pushing" => IsInjective(server.pages)
    /\ \A page \in ServerHeld \union UNION {InFlight(p) : p \in Procs} :
          page_owners[page] = Empty /\ page \notin Range(free_stack)

\* No page is in two places: free, owned by a sequence, resident, or carried by
\* an operation that sits between its two critical sections.  This is what
\* keeps the unchecked free_stack[top++] of every release path inside the
\* array and keeps two sequences from writing the same KV page.
NoPageTwice == StackSound /\ ChainsSound /\ CarriedSound

\* active_sequences counts the table entries exactly, through table-full
\* failures, waves, kills between sections and the reset of the rebuild, unless
\* a process died inside a section since the last rebuild: a writer killed
\* between inserting a sequence and counting it leaves the counter wrong.
CountersExact == torn = {} => active_sequences = Cardinality(live)

\* The server works only on a dead cohort, and what it still has to release is
\* exactly what is live: the rebuild's "found live sequence" throw is dead code.
RebuildSafe ==
    server.at # "serving" =>
        /\ \A p \in Procs : pc[p] = Dead
        /\ server.at \in {"releasing", "pushing"} => server.todo = live
        /\ server.at = "rebuilt" => live = {}

\* A page can only be lost to a kill, and only until the reconcile: once the
\* region is rebuilt, and in a cohort no process of which died, every page is
\* free, owned, resident or carried by a running operation.
NothingStranded ==
    (server.at = "rebuilt" \/ \A p \in Procs : pc[p] # Dead) => Stranded = {}

\* A page the prefix cache owns stays resident through every acquire, release,
\* kill and rebuild, until a process releases it with ReleaseResidentPages.
ResidentKept ==
    [][\A page \in Resident : \/ page_owners'[page] = PrefixResident
                              \/ \E p \in Procs : /\ pc[p] = Idle
                                                  /\ pc'[p].at = "push"
                                                  /\ page \in Range(pc'[p].pages)]_vars

\* An operation that carries pages puts them down (or its process dies).
CarriedPagesLand ==
    \A p \in Procs : (pc[p].at \in {"attach", "push"}) ~> (pc[p] \in {Idle, Dead})

\* A cohort that died completely is reconciled and replaced.
ReconcileCompletes ==
    (\A p \in Procs : pc[p] = Dead) ~> (server.at = "serving" /\ \A p \in Procs : pc[p] = Idle)

\* The region implements the page ledger: a page is where the structures say,
\* and pages that no structure names are in transit.
Free == "free"
Transit == "transit"
ASSUME LedgerPlacesAssumption ==
    {Free, Transit} \intersect (SequenceIds \union {PrefixResident}) = {}

Place == [page \in Pages |-> IF page \in Range(free_stack) THEN Free
                             ELSE IF page_owners[page] = Empty THEN Transit
                             ELSE page_owners[page]]
Ledger == INSTANCE HostPageLedger WITH place <- Place

\* Every critical section, kill and reconcile step moves pages as the abstract
\* ledger allows: no page changes hands without being free or in transit.
ImplementsLedger == Ledger!LedgerSpec
=============================================================================
