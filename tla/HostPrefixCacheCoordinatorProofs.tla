----------------- MODULE HostPrefixCacheCoordinatorProofs -----------------
(***************************************************************************)
(* Proofs about the prefix cache index, for any prompts, groups, pages,    *)
(* workers, threads and handles, any capacity and any number of deaths.    *)
(***************************************************************************)
EXTENDS HostPrefixCacheCoordinatorInvariants, FiniteSetTheorems, TLAPS

\* Most steps are first-order and left to Zenon; the others name SMT.
USE ZenonT(60)

-----------------------------------------------------------------------------
(* Finite sets and counts. *)

\* The bounds are natural numbers: what arithmetic needs of the assumption.
LEMMA BoundsNat ==
    /\ MaxNodes \in Nat /\ MaxEntries \in Nat /\ DeadThreshold \in Nat
    /\ ThreadsPerProc \in Nat /\ MaxLoads \in Nat /\ MaxKills \in Nat
  BY CoordinatorAssumption

\* The slots are finitely many, and so are the nodes of any set of them.
LEMMA SlotSets ==
    ASSUME NEW S \in SUBSET Slots
    PROVE  IsFiniteSet(S) /\ Cardinality(S) \in Nat /\ Cardinality(S) <= MaxNodes
  <1>0. MaxNodes \in Nat /\ 0 \in Int /\ MaxNodes - 1 \in Int
    BY ONLY BoundsNat, SMTT(30)
  <1>1. IsFiniteSet(Slots) /\ Cardinality(Slots) = MaxNodes
    BY ONLY <1>0, FS_Interval, SMTT(30) DEF Slots
  <1>2. IsFiniteSet(S) /\ Cardinality(S) <= MaxNodes
    BY <1>1, FS_Subset
  <1> QED
    BY <1>2, FS_CardinalityType

\* So are those who are counted in a node's references.
LEMMA CountersFinite ==
    ASSUME NEW i
    PROVE  /\ IsFiniteSet(Pins(i)) /\ Cardinality(Pins(i)) \in Nat
           /\ IsFiniteSet(Unpinning(i)) /\ Cardinality(Unpinning(i)) \in Nat
           /\ IsFiniteSet(Loading(i)) /\ Cardinality(Loading(i)) \in Nat
           /\ IsFiniteSet(Unloading(i)) /\ Cardinality(Unloading(i)) \in Nat
  <1>1. IsFiniteSet(1 .. ThreadsPerProc) /\ IsFiniteSet(1 .. MaxLoads)
    BY ONLY BoundsNat, FS_Interval, SMTT(30)
  <1>2. IsFiniteSet(Threads) /\ IsFiniteSet(Procs \X Handles)
    BY <1>1, CoordinatorAssumption, FS_Product DEF Threads
  <1>3. IsFiniteSet(Pins(i))
    BY <1>2, FS_Subset DEF Pins
  <1>4. IsFiniteSet(Pins(i) \X (1 .. MaxLoads))
    BY <1>1, <1>3, FS_Product
  <1>5. IsFiniteSet(Loading(i))
    BY <1>4, FS_Subset DEF Loading
  <1>6. IsFiniteSet(Unpinning(i)) /\ IsFiniteSet(Unloading(i))
    BY <1>2, FS_Subset DEF Unpinning, Unloading
  <1> QED
    BY <1>3, <1>5, <1>6, FS_CardinalityType

\* One less on either side of a sum of counts.
LEMMA OneLess ==
    ASSUME NEW x \in Nat, NEW y \in Nat, NEW m \in Nat, x + y <= m
    PROVE  /\ x <= m /\ (x + y) - 1 <= m
           /\ (x + y) - 1 = x + (y - 1) /\ (x + y) - 1 = (x - 1) + y
           /\ x > 0 => x - 1 \in Nat
  BY SMTT(30)

\* The threads beginning a load are finitely many.
LEMMA BeginningFinite ==
    ASSUME NEW p, NEW h
    PROVE  IsFiniteSet(Beginning(p, h)) /\ Cardinality(Beginning(p, h)) \in Nat
  <1>1. IsFiniteSet(1 .. ThreadsPerProc)
    BY ONLY BoundsNat, FS_Interval, SMTT(30)
  <1>2. IsFiniteSet(Threads)
    BY <1>1, CoordinatorAssumption, FS_Product DEF Threads
  <1>3. IsFiniteSet(Beginning(p, h))
    BY <1>2, FS_Subset DEF Beginning
  <1> QED
    BY <1>3, FS_CardinalityType

\* The epochs' ranks: fewer than the slots.
LEMMA RankedTyped ==
    ASSUME NEW S \in SUBSET Slots, NEW f \in [S -> Int]
    PROVE  Ranked(f) \in [S -> 0 .. MaxNodes - 1]
  <1> SUFFICES ASSUME NEW i \in S
               PROVE  Cardinality({f[j] : j \in {k \in S : f[k] < f[i]}}) \in 0 .. MaxNodes - 1
    BY DEF Ranked
  <1> DEFINE T == {k \in S : f[k] < f[i]}
             V == {f[j] : j \in T}
             g == [j \in T |-> f[j]]
  <1>1. T \in SUBSET (S \ {i})
    BY ONLY SMTT(30)
  <1>2. IsFiniteSet(S) /\ Cardinality(S) \in Nat /\ Cardinality(S) <= MaxNodes
    BY SlotSets
  <1>3. IsFiniteSet(S \ {i}) /\ Cardinality(S \ {i}) = Cardinality(S) - 1
    BY <1>2, FS_RemoveElement
  <1>4. IsFiniteSet(T) /\ Cardinality(T) <= Cardinality(S) - 1
    BY ONLY <1>1, <1>3, FS_Subset, SMTT(30)
  <1>5. g \in Surjection(T, V)
    BY DEF Surjection
  <1> HIDE DEF T, V, g
  <1>6. IsFiniteSet(V) /\ Cardinality(V) <= Cardinality(T)
    BY <1>4, <1>5, FS_Surjection
  <1>7. Cardinality(V) \in Nat /\ Cardinality(T) \in Nat
    BY <1>4, <1>6, FS_CardinalityType
  <1>8. Cardinality(V) \in 0 .. MaxNodes - 1
    BY ONLY <1>2, <1>4, <1>6, <1>7, BoundsNat, SMTT(30)
  <1> QED
    BY <1>8 DEF V, T

\* Sets that differ by one element, and their counts.
LEMMA CountAdd ==
    ASSUME NEW S, NEW x, IsFiniteSet(S), x \notin S
    PROVE  IsFiniteSet(S \union {x}) /\ Cardinality(S \union {x}) = Cardinality(S) + 1
  BY FS_AddElement

LEMMA CountRemove ==
    ASSUME NEW S, NEW x, IsFiniteSet(S), x \in S
    PROVE  /\ IsFiniteSet(S \ {x}) /\ Cardinality(S \ {x}) = Cardinality(S) - 1
           /\ Cardinality(S) \in Nat /\ Cardinality(S) > 0
  <1>1. IsFiniteSet(S \ {x}) /\ Cardinality(S \ {x}) = Cardinality(S) - 1
    BY FS_RemoveElement
  <1>2. Cardinality(S) \in Nat /\ Cardinality(S \ {x}) \in Nat
    BY <1>1, FS_CardinalityType
  <1> QED
    BY ONLY <1>1, <1>2, SMTT(30)

\* A disjoint union, and a difference.
LEMMA CountUnion ==
    ASSUME NEW S \in SUBSET Slots, NEW T \in SUBSET Slots, S \intersect T = {}
    PROVE  Cardinality(S \union T) = Cardinality(S) + Cardinality(T)
  <1>1. /\ IsFiniteSet(S) /\ Cardinality(S) \in Nat
        /\ IsFiniteSet(T) /\ Cardinality(T) \in Nat
    BY SlotSets
  <1>2. Cardinality(S \union T) = Cardinality(S) + Cardinality(T) - Cardinality(S \intersect T)
    BY <1>1, FS_Union
  <1>3. Cardinality(S \intersect T) = 0
    BY FS_EmptySet
  <1> QED
    BY ONLY <1>1, <1>2, <1>3, SMTT(30)

LEMMA CountDifference ==
    ASSUME NEW S \in SUBSET Slots, NEW T \in SUBSET S
    PROVE  /\ Cardinality(S \ T) = Cardinality(S) - Cardinality(T)
           /\ Cardinality(T) <= Cardinality(S)
  <1>1. IsFiniteSet(S) /\ S \intersect T = T
    BY SlotSets
  <1>2. Cardinality(S \ T) = Cardinality(S) - Cardinality(T)
    BY <1>1, FS_Difference
  <1> QED
    BY <1>1, <1>2, FS_Subset

\* The arena entries of the nodes: monotone, and additive over disjoint sets.
LEMMA Scaled ==
    ASSUME NEW a \in Nat, NEW b \in Nat, NEW c \in Nat
    PROVE  a * c \in Nat /\ (a + b) * c = a * c + b * c
  BY ONLY SMTT(30)

LEMMA UsageMonotone ==
    ASSUME NEW S \in SUBSET Slots, NEW T \in SUBSET S
    PROVE  Usage(S) \in Nat /\ Usage(T) \in Nat /\ Usage(T) <= Usage(S)
  <1>1. Cardinality(Groups) \in Nat
    BY CoordinatorAssumption, FS_CardinalityType
  <1>2. Cardinality(T) \in Nat /\ Cardinality(S \ T) \in Nat
    BY SlotSets
  <1>3. Cardinality(S) = Cardinality(T) + Cardinality(S \ T)
    <2>1. Cardinality(S) \in Nat /\ Cardinality(S \ T) = Cardinality(S) - Cardinality(T)
      BY CountDifference, SlotSets
    <2> QED
      BY ONLY <1>2, <2>1, SMTT(30)
  <1>4. /\ Usage(T) \in Nat /\ Cardinality(S \ T) * Cardinality(Groups) \in Nat
        /\ Usage(S) = Usage(T) + Cardinality(S \ T) * Cardinality(Groups)
    BY ONLY <1>1, <1>2, <1>3, Scaled, SMTT(30) DEF Usage
  <1> QED
    BY ONLY <1>4, SMTT(30)

LEMMA UsageUnion ==
    ASSUME NEW S \in SUBSET Slots, NEW T \in SUBSET Slots, S \intersect T = {}
    PROVE  Usage(S \union T) = Usage(S) + Cardinality(T) * Cardinality(Groups)
  <1>1. Cardinality(Groups) \in Nat
    BY CoordinatorAssumption, FS_CardinalityType
  <1>2. Cardinality(S) \in Nat /\ Cardinality(T) \in Nat
    BY SlotSets
  <1>3. Cardinality(S \union T) = Cardinality(S) + Cardinality(T)
    BY CountUnion
  <1> QED
    BY ONLY <1>1, <1>2, <1>3, Scaled, SMTT(30) DEF Usage

\* The tail after a compaction, wherever it happens.
LEMMA TailKept ==
    ASSUME NEW S \in SUBSET Slots, NEW tail \in 0 .. MaxEntries, NEW n, Usage(S) <= tail
    PROVE  /\ CompactArenasForCapacity(S, tail, n) \in 0 .. MaxEntries
           /\ Usage(S) <= CompactArenasForCapacity(S, tail, n)
           /\ CompactArenasAfterEviction(S, tail, n) \in 0 .. MaxEntries
           /\ Usage(S) <= CompactArenasAfterEviction(S, tail, n)
  <1>1. Usage(S) \in Nat
    BY UsageMonotone
  <1>2. Usage(S) \in 0 .. MaxEntries
    BY <1>1, BoundsNat, SMTT(30)
  <1> QED
    BY <1>1, <1>2, SMTT(30) DEF CompactArenasForCapacity, CompactArenasAfterEviction, CompactArenas

-----------------------------------------------------------------------------
(* Protection. *)

\* Whoever can still read a node's pages is counted in its references.
LEMMA HeldProtected ==
    ASSUME WorkersTyped, SpansStay, LoadsCounted, RefsExact, IndexTyped
    PROVE  /\ \A p \in Procs : \A h \in DOMAIN local_attachments[p] :
                 \A i \in DOMAIN Attachment(p, h).spans : i \in Resident /\ Protected(i)
           /\ \A t \in Threads : call[t] # Ready =>
                 \A i \in DOMAIN call[t].spans : i \in Resident /\ Protected(i)
  <1>1. \A i \in Resident : nodes[i].active \in Nat /\ nodes[i].pending \in Nat
    BY DEF IndexTyped, Node
  <1>2. ASSUME NEW p \in Procs, NEW h \in DOMAIN local_attachments[p],
               NEW i \in DOMAIN Attachment(p, h).spans
        PROVE  i \in Resident /\ Protected(i)
    <2>1. i \in Resident /\ h \in Handles
      BY <1>2 DEF SpansStay, WorkersTyped
    <2>2. <<p, h>> \in Pins(i)
      BY <1>2, <2>1 DEF Pins, Attached
    <2>3. Cardinality(Pins(i)) > 0 /\ Cardinality(Pins(i)) \in Nat /\ Cardinality(Unpinning(i)) \in Nat
      BY <2>2, CountersFinite, CountRemove
    <2>4. nodes[i].active >= Cardinality(Pins(i)) + Cardinality(Unpinning(i))
      BY <2>1 DEF RefsExact
    <2> QED
      BY ONLY <1>1, <2>1, <2>3, <2>4, SMTT(30) DEF Protected
  <1>3. ASSUME NEW t \in Threads, call[t] # Ready, NEW i \in DOMAIN call[t].spans
        PROVE  i \in Resident /\ Protected(i)
    <2>1. i \in Resident
      BY <1>3 DEF SpansStay
    <2>2. call[t].op \in {"release", "begin", "end"}
      BY <1>3 DEF WorkersTyped
    <2>3. CASE call[t].op = "release"
      <3>1. t \in Unpinning(i)
        BY <1>3, <2>3 DEF Unpinning
      <3>2. Cardinality(Unpinning(i)) > 0 /\ Cardinality(Pins(i)) \in Nat /\ Cardinality(Unpinning(i)) \in Nat
        BY <3>1, CountersFinite, CountRemove
      <3>3. nodes[i].active >= Cardinality(Pins(i)) + Cardinality(Unpinning(i))
        BY <2>1 DEF RefsExact
      <3> QED
        BY ONLY <1>1, <2>1, <3>2, <3>3, SMTT(30) DEF Protected
    <2>4. CASE call[t].op = "end"
      <3>1. t \in Unloading(i)
        BY <1>3, <2>4 DEF Unloading
      <3>2. Cardinality(Unloading(i)) > 0 /\ Cardinality(Loading(i)) \in Nat /\ Cardinality(Unloading(i)) \in Nat
        BY <3>1, CountersFinite, CountRemove
      <3>3. nodes[i].pending >= Cardinality(Loading(i)) + Cardinality(Unloading(i))
        BY <2>1 DEF RefsExact
      <3> QED
        BY ONLY <1>1, <2>1, <3>2, <3>3, SMTT(30) DEF Protected
    <2>5. CASE call[t].op = "begin"
      <3>1. /\ Attached(t[1], call[t].handle) /\ t[1] \in Procs
            /\ call[t].spans = Attachment(t[1], call[t].handle).spans
        BY <1>3, <2>5 DEF LoadsCounted, Threads
      <3> QED
        BY <1>2, <1>3, <3>1 DEF Attached
    <2> QED
      BY <2>2, <2>3, <2>4, <2>5
  <1> QED
    BY <1>2, <1>3

\* A step that leaves the workers alone keeps what is said of them alone.
LEMMA WorkersKept ==
    ASSUME WorkersTyped, LoadsCounted, UNCHANGED <<local_attachments, loads, call, mutex_dead, kills>>
    PROVE  WorkersTyped' /\ LoadsCounted'
  <1>1. \A p, h : /\ Attached(p, h)' <=> Attached(p, h)
                  /\ Attachment(p, h)' = Attachment(p, h)
                  /\ Beginning(p, h)' = Beginning(p, h)
    BY DEF Attached, Attachment, Beginning
  <1>2. WorkersTyped'
    BY <1>1 DEF WorkersTyped
  <1>3. LoadsCounted'
    BY <1>1 DEF LoadsCounted
  <1> QED
    BY <1>2, <1>3

-----------------------------------------------------------------------------
(* Evictions. *)

\* Evicting unprotected nodes takes no pages from a reader, and keeps the
\* counts: EvictNodeLocked takes a node's pages out of page_ref_slots.
LEMMA EvictedStep ==
    ASSUME CoordinatorInv, NEW E \in SUBSET {i \in Resident : ~Protected(i)},
           NEW tail \in 0 .. MaxEntries, NEW n, Usage(Resident) <= tail,
           Evicted(E, tail, n), UNCHANGED <<workers, mutex_dead, kills>>
    PROVE  CoordinatorInv'
  <1> USE DEF workers
  <1>0. /\ IndexTyped /\ WorkersTyped /\ SpansStay /\ LoadsCounted /\ RefsExact /\ IndexExact
        /\ UNCHANGED <<local_attachments, loads, call, mutex_dead, kills>>
    BY DEF CoordinatorInv
  <1>1. Resident' = Resident \ E /\ \A i \in Resident \ E : nodes'[i] = nodes[i]
    BY DEF Evicted, Resident
  <1>2. Resident \subseteq Slots /\ Resident \ E \subseteq Slots /\ E \subseteq Resident
    BY <1>0 DEF IndexTyped
  <1>3. IndexTyped'
    <2>1. Resident' \subseteq Slots /\ \A i \in Resident' : nodes'[i] \in Node
      BY <1>0, <1>1, <1>2 DEF IndexTyped
    <2>2. [i \in Resident \ E |-> last_access_epoch[i]] \in [Resident \ E -> Int]
      BY ONLY <1>0, SMTT(30) DEF IndexTyped
    <2>3. last_access_epoch' \in [Resident' -> 0 .. MaxNodes - 1]
      BY <1>1, <1>2, <2>2, RankedTyped DEF Evicted
    <2>4. Usage(Resident \ E) \in Nat /\ Usage(Resident) \in Nat /\ Usage(Resident \ E) <= Usage(Resident)
      BY <1>2, UsageMonotone
    <2>5. Usage(Resident \ E) <= tail
      BY <2>4, SMTT(30)
    <2>6. next_entry' = tail \/ next_entry' = CompactArenasAfterEviction(Resident \ E, tail, n)
      BY DEF Evicted
    <2>7. next_entry' \in 0 .. MaxEntries /\ Usage(Resident \ E) <= next_entry'
      BY <1>2, <2>5, <2>6, TailKept
    <2>8. Usage(Resident)' = Usage(Resident \ E)
      BY <1>1 DEF Usage
    <2>9. ASSUME NEW g \in Groups, NEW page \in PageIds
          PROVE  page_refs[g][page] - OnPage(E, g, page) \in Nat
      <3> DEFINE on(S) == {i \in S : nodes[i].pages[g] = page}
      <3>1. page_refs[g][page] = Cardinality(on(Resident))
        BY <1>0 DEF IndexExact, OnPage
      <3>2. on(Resident) \in SUBSET Slots /\ on(E) \in SUBSET on(Resident)
        BY <1>2
      <3>3. Cardinality(on(Resident) \ on(E)) = Cardinality(on(Resident)) - Cardinality(on(E))
        BY <3>2, CountDifference
      <3>4. Cardinality(on(Resident) \ on(E)) \in Nat
        BY <3>2, SlotSets
      <3> QED
        BY <3>1, <3>3, <3>4 DEF OnPage
    <2>10. page_refs' \in [Groups -> [PageIds -> Nat]]
      BY <2>9 DEF Evicted
    <2> QED
      BY <2>1, <2>3, <2>7, <2>8, <2>10 DEF IndexTyped
  <1>4. WorkersTyped' /\ LoadsCounted'
    BY <1>0, WorkersKept
  <1>5. SpansStay'
    <2>1. /\ \A p \in Procs : \A h \in DOMAIN local_attachments[p] :
                \A i \in DOMAIN Attachment(p, h).spans : i \in Resident' /\ nodes'[i] = nodes[i]
          /\ \A t \in Threads : call[t] # Ready =>
                \A i \in DOMAIN call[t].spans : i \in Resident' /\ nodes'[i] = nodes[i]
      BY <1>0, <1>1, HeldProtected
    <2>2. \A p \in Procs : \A h \in DOMAIN local_attachments[p] :
            \A i \in DOMAIN Attachment(p, h).spans : nodes[i].pages = Attachment(p, h).spans[i]
      BY <1>0 DEF SpansStay
    <2>3. \A t \in Threads : call[t] # Ready =>
            \A i \in DOMAIN call[t].spans : nodes[i].pages = call[t].spans[i]
      BY <1>0 DEF SpansStay
    <2> QED
      BY ONLY <1>0, <2>1, <2>2, <2>3, SMTT(30) DEF SpansStay, Attachment
  <1>6. RefsExact'
    <2>1. \A i : /\ Pins(i)' = Pins(i) /\ Unpinning(i)' = Unpinning(i)
                 /\ Unloading(i)' = Unloading(i)
      BY <1>0 DEF Pins, Unpinning, Unloading, Attached, Attachment
    <2>2. \A i : Loading(i)' = Loading(i)
      BY <1>0, <2>1 DEF Loading
    <2> QED
      BY <1>0, <1>1, <2>1, <2>2 DEF RefsExact
  <1>7. IndexExact'
    <2>1. ASSUME NEW g \in Groups, NEW page \in PageIds
          PROVE  page_refs'[g][page] = OnPage(Resident, g, page)'
      <3> DEFINE on(S) == {i \in S : nodes[i].pages[g] = page}
      <3>1. page_refs[g][page] = Cardinality(on(Resident))
        BY <1>0 DEF IndexExact, OnPage
      <3>2. on(Resident) \in SUBSET Slots /\ on(E) \in SUBSET on(Resident)
        BY <1>2
      <3>3. on(Resident) \ on(E) = {i \in Resident' : nodes'[i].pages[g] = page}
        BY <1>1
      <3>4. Cardinality(on(Resident) \ on(E)) = Cardinality(on(Resident)) - Cardinality(on(E))
        BY <3>2, CountDifference
      <3>5. page_refs'[g][page] = Cardinality(on(Resident)) - Cardinality(on(E))
        BY <3>1 DEF Evicted, OnPage
      <3> QED
        BY <3>3, <3>4, <3>5 DEF OnPage
    <2>2. \A i, j \in Resident' : nodes'[i].digest = nodes'[j].digest => i = j
      BY ONLY <1>0, <1>1, SMTT(30) DEF IndexExact
    <2> QED
      BY <2>1, <2>2 DEF IndexExact
  <1> QED
    BY <1>3, <1>4, <1>5, <1>6, <1>7 DEF CoordinatorInv

\* A scan evicts unprotected nodes, in the order of the candidates: one that
\* is unprotected and older than an evicted one is evicted too.
LEMMA ScanOrder ==
    ASSUME IndexTyped, NEW o \in Candidates, NEW limit \in 0 .. Len(o), NEW enough,
           NEW E \in ScanStops(o, limit, enough)
    PROVE  /\ E \in SUBSET {i \in Resident : ~Protected(i)}
           /\ \A i \in E : \A j \in Resident :
                 last_access_epoch[j] < last_access_epoch[i] /\ ~Protected(j) => j \in E
  <1>1. /\ IsFiniteSet(Resident) /\ Cardinality(Resident) \in Nat
        /\ last_access_epoch \in [Resident -> Nat]
    BY SlotSets, BoundsNat, SMTT(30) DEF IndexTyped
  <1> DEFINE N == Cardinality(Resident)
  <1>2. /\ o \in [1 .. N -> Resident]
        /\ \A i, j \in 1 .. N : i < j => o[i] # o[j] /\ last_access_epoch[o[i]] <= last_access_epoch[o[j]]
    BY DEF Candidates
  <1>3. Len(o) = N
    BY ONLY <1>1, <1>2, SMTT(30)
  <1>4. PICK k \in 0 .. limit : E = {o[i] : i \in {j \in 1 .. k : ~Protected(o[j])}}
    BY DEF ScanStops
  <1>5. k \in 0 .. N
    BY ONLY <1>1, <1>3, <1>4, SMTT(30)
  <1>6. E \in SUBSET {i \in Resident : ~Protected(i)}
    BY ONLY <1>1, <1>2, <1>4, <1>5, SMTT(30)
  <1>7. \A j \in Resident : \E x \in 1 .. N : o[x] = j
    <2>1. IsFiniteSet(1 .. N) /\ Cardinality(1 .. N) = N
      <3>1. N \in Nat
        BY <1>1
      <3> HIDE DEF N
      <3> QED
        BY ONLY <3>1, FS_Interval, SMTT(30)
    <2>2. o \in Injection(1 .. N, Resident)
      BY ONLY <1>1, <1>2, SMTT(30) DEF Injection, IsInjective
    <2>3. o \in Surjection(1 .. N, Resident)
      BY <1>1, <2>1, <2>2, FS_Injection
    <2> QED
      BY <2>3 DEF Surjection
  <1>8. ASSUME NEW i \in E, NEW j \in Resident,
               last_access_epoch[j] < last_access_epoch[i], ~Protected(j)
        PROVE  j \in E
    <2>1. PICK y \in 1 .. k : o[y] = i
      BY <1>4
    <2>2. PICK x \in 1 .. N : o[x] = j
      BY <1>7
    <2>3. x < y
      <3>1. last_access_epoch[i] \in Nat /\ last_access_epoch[j] \in Nat
        BY <1>1, <1>2, <1>6, <1>8
      <3>2. ~(last_access_epoch[i] <= last_access_epoch[j]) /\ i # j
        BY ONLY <1>8, <3>1, SMTT(30)
      <3>3. x \in 1 .. N /\ y \in 1 .. N /\ N \in Nat
        BY ONLY <1>1, <1>5, <2>1, <2>2, SMTT(30)
      <3>4. ~(y < x) /\ y # x
        BY <1>2, <2>1, <2>2, <3>2, <3>3
      <3> HIDE DEF N
      <3> QED
        BY ONLY <3>3, <3>4, SMTT(30)
    <2>4. x \in 1 .. k
      BY ONLY <1>1, <1>5, <2>1, <2>2, <2>3, SMTT(30)
    <2> QED
      BY <1>4, <1>8, <2>2, <2>4
  <1> QED
    BY <1>6, <1>8

\* EvictUntilReleasablePages and EvictUntilFree evict such sets.
LEMMA ScanEvicts ==
    ASSUME IndexTyped, NEW scan \in Nat
    PROVE  /\ \A required : \A E \in EvictionsForPages(required, scan) : OldestUnprotected(E)
           /\ \A min, n : \A E \in EvictionsForRoom(min, n, scan) : OldestUnprotected(E)
  <1>1. ASSUME NEW o \in Candidates, NEW enough, NEW E \in ScanStops(o, ScanLimit(o, scan), enough)
        PROVE  OldestUnprotected(E)
    <2>1. Cardinality(Resident) \in Nat
      BY SlotSets DEF IndexTyped
    <2>2. Len(o) = Cardinality(Resident)
      BY ONLY <2>1, SMTT(30) DEF Candidates
    <2>3. ScanLimit(o, scan) \in 0 .. Len(o)
      BY ONLY <2>1, <2>2, SMTT(30) DEF ScanLimit
    <2> QED
      BY <1>1, <2>3, ScanOrder DEF OldestUnprotected
  <1>2. OldestUnprotected({})
    BY DEF OldestUnprotected
  <1>3. ASSUME NEW required, NEW E \in EvictionsForPages(required, scan)
        PROVE  OldestUnprotected(E)
    BY <1>1, <1>3 DEF EvictionsForPages
  <1>4. ASSUME NEW min, NEW n, NEW E \in EvictionsForRoom(min, n, scan)
        PROVE  OldestUnprotected(E)
    BY <1>1, <1>2, <1>4 DEF EvictionsForRoom
  <1> QED
    BY <1>3, <1>4

\* Every eviction keeps the invariant and the order.
LEMMA EvictStep ==
    ASSUME CoordinatorInv, NEW t \in Threads, Evict(t)
    PROVE  CoordinatorInv' /\ OldestFirst
  <1>0. IndexTyped /\ next_entry \in 0 .. MaxEntries /\ Usage(Resident) <= next_entry
        /\ Resident \in SUBSET Slots
    BY DEF CoordinatorInv, IndexTyped
  <1>1. ASSUME NEW E, OldestUnprotected(E), NEW tail, NEW n, Evicted(E, tail, n)
        PROVE  OldestFirst
    <2>1. DOMAIN nodes' = Resident \ E
      BY <1>1 DEF Evicted
    <2> QED
      BY <1>1, <2>1 DEF OldestUnprotected, OldestFirst
  <1>2. ASSUME NEW E \in UNION {EvictionsForPages(required, scan) :
                             required \in [Groups -> 1 .. Cardinality(PageIds)], scan \in 0 .. 1},
               EvictUntilReleasablePages(t, E)
        PROVE  CoordinatorInv' /\ OldestFirst
    <2>1. OldestUnprotected(E)
      <3>1. PICK required \in [Groups -> 1 .. Cardinality(PageIds)], scan \in 0 .. 1 :
              E \in EvictionsForPages(required, scan)
        BY ONLY <1>2, SMTT(30)
      <3>2. scan \in Nat
        BY ONLY SMTT(30)
      <3> QED
        BY ONLY <1>0, <3>1, <3>2, ScanEvicts, SMTT(30)
    <2>2. Evicted(E, next_entry, 0) /\ UNCHANGED <<workers, mutex_dead, kills>>
      BY ONLY <1>2, SMTT(30) DEF EvictUntilReleasablePages
    <2>3. CoordinatorInv'
      BY <1>0, <2>1, <2>2, EvictedStep, SMTT(30) DEF OldestUnprotected
    <2> QED
      BY ONLY <1>1, <2>1, <2>2, <2>3, SMTT(30)
  <1>3. ASSUME NEW n \in 0 .. MaxEntries,
               NEW E \in UNION {EvictionsForRoom(min_nodes, n, scan) : min_nodes \in 0 .. MaxNodes, scan \in 0 .. 1},
               EvictUntilFree(t, n, E)
        PROVE  CoordinatorInv' /\ OldestFirst
    <2> DEFINE tail == CompactArenasForCapacity(Resident, next_entry, n)
    <2>1. OldestUnprotected(E)
      <3>1. PICK min_nodes \in 0 .. MaxNodes, scan \in 0 .. 1 : E \in EvictionsForRoom(min_nodes, n, scan)
        BY ONLY <1>3, SMTT(30)
      <3>2. scan \in Nat
        BY ONLY SMTT(30)
      <3> QED
        BY ONLY <1>0, <3>1, <3>2, ScanEvicts, SMTT(30)
    <2>2. Evicted(E, tail, n) /\ UNCHANGED <<workers, mutex_dead, kills>>
      BY ONLY <1>3, SMTT(30) DEF EvictUntilFree
    <2>3. tail \in 0 .. MaxEntries /\ Usage(Resident) <= tail
      BY ONLY <1>0, TailKept, SMTT(30)
    <2> HIDE DEF tail
    <2>4. CoordinatorInv'
      BY <1>0, <2>1, <2>2, <2>3, EvictedStep, SMTT(30) DEF OldestUnprotected
    <2> QED
      BY ONLY <1>1, <2>1, <2>2, <2>4, SMTT(30)
  <1>4. CASE ClearUnprotected(t)
    <2> DEFINE E == {i \in Resident : ~Protected(i)}
    <2>1. Evicted(E, next_entry, 0) /\ UNCHANGED <<workers, mutex_dead, kills>>
      BY <1>4 DEF ClearUnprotected
    <2>2. OldestUnprotected(E)
      BY DEF OldestUnprotected
    <2>3. CoordinatorInv'
      BY <1>0, <2>1, EvictedStep
    <2> HIDE DEF E
    <2> QED
      BY <1>1, <2>1, <2>2, <2>3
  <1>5. ASSUME NEW prompt \in Prompts, ClearNamespace(t, prompt[1])
        PROVE  CoordinatorInv' /\ OldestFirst
    <2> DEFINE E == {i \in Resident : nodes[i].digest[1] = prompt[1] /\ ~Protected(i)}
    <2>1. Evicted(E, next_entry, 0) /\ UNCHANGED <<workers, mutex_dead, kills>>
      BY <1>5 DEF ClearNamespace
    <2>2. E \in SUBSET {i \in Resident : ~Protected(i)}
      OBVIOUS
    <2>3. OldestFirst
      <3>1. DOMAIN nodes' = Resident \ E
        BY <2>1 DEF Evicted
      <3> QED
        BY <3>1 DEF OldestFirst
    <2> HIDE DEF E
    <2>4. CoordinatorInv'
      BY <1>0, <2>1, <2>2, EvictedStep
    <2> QED
      BY <2>3, <2>4
  <1> QED
    BY <1>2, <1>3, <1>4, <1>5, SMTT(30) DEF Evict

-----------------------------------------------------------------------------
(* New attachments. *)

\* A handle that is not attached is read by nobody and loads nothing.
LEMMA UnusedHandle ==
    ASSUME WorkersTyped, LoadsCounted, NEW p \in Procs, NEW h \in Handles, ~Attached(p, h)
    PROVE  /\ loads[p][h] = 0 /\ Beginning(p, h) = {}
           /\ \A i : <<p, h>> \notin Pins(i)
  <1>1. loads[p][h] = 0
    BY DEF LoadsCounted
  <1>2. Beginning(p, h) = {}
    BY DEF LoadsCounted, Beginning
  <1>3. \A i : <<p, h>> \notin Pins(i)
    BY DEF Pins
  <1> QED
    BY <1>1, <1>2, <1>3

\* The attachments of the workers after one more is made.
LEMMA AttachView ==
    ASSUME WorkersTyped, NEW p \in Procs, NEW h \in UnusedHandles(p), NEW spans,
           local_attachments' = [local_attachments EXCEPT ![p] = With(@, h, NewAttachment(spans))]
    PROVE  /\ DOMAIN local_attachments' = Procs
           /\ \A q \in Procs : \A k : Attached(q, k)' <=> Attached(q, k) \/ (q = p /\ k = h)
           /\ \A q \in Procs : \A k : Attached(q, k) => Attachment(q, k)' = Attachment(q, k)
           /\ Attachment(p, h)' = NewAttachment(spans)
           /\ h \in Handles /\ ~Attached(p, h)
  <1>1. DOMAIN local_attachments = Procs /\ h \in Handles /\ h \notin DOMAIN local_attachments[p]
    BY DEF WorkersTyped, UnusedHandles
  <1>2. local_attachments'[p] = With(local_attachments[p], h, NewAttachment(spans))
    BY <1>1
  <1>3. \A q \in Procs : q # p => local_attachments'[q] = local_attachments[q]
    BY <1>1
  <1>4. /\ DOMAIN local_attachments'[p] = DOMAIN local_attachments[p] \union {h}
        /\ local_attachments'[p][h] = NewAttachment(spans)
        /\ \A k \in DOMAIN local_attachments[p] : local_attachments'[p][k] = local_attachments[p][k]
    BY <1>1, <1>2 DEF With
  <1> QED
    BY <1>1, <1>3, <1>4 DEF Attached, Attachment

\* A new attachment is one more pin on each of its nodes, and nothing else.
LEMMA AttachPins ==
    ASSUME WorkersTyped, LoadsCounted, NEW p \in Procs, NEW h \in UnusedHandles(p), NEW spans \in SpanSets,
           local_attachments' = [local_attachments EXCEPT ![p] = With(@, h, NewAttachment(spans))],
           UNCHANGED <<loads, call, mutex_dead, kills>>
    PROVE  /\ WorkersTyped' /\ LoadsCounted'
           /\ \A i \in DOMAIN spans : Pins(i)' = Pins(i) \union {<<p, h>>} /\ <<p, h>> \notin Pins(i)
           /\ \A i : i \notin DOMAIN spans => Pins(i)' = Pins(i)
           /\ \A i : /\ Unpinning(i)' = Unpinning(i) /\ Unloading(i)' = Unloading(i)
                     /\ Loading(i)' = Loading(i)
  <1>1. /\ DOMAIN local_attachments' = Procs
        /\ \A q \in Procs : \A k : Attached(q, k)' <=> Attached(q, k) \/ (q = p /\ k = h)
        /\ \A q \in Procs : \A k : Attached(q, k) => Attachment(q, k)' = Attachment(q, k)
        /\ Attachment(p, h)' = NewAttachment(spans)
        /\ h \in Handles /\ ~Attached(p, h)
    BY AttachView
  <1>2. /\ loads[p][h] = 0 /\ Beginning(p, h) = {}
        /\ \A i : <<p, h>> \notin Pins(i)
    BY <1>1, UnusedHandle
  <1>3. \A q, k : Beginning(q, k)' = Beginning(q, k)
    BY DEF Beginning
  <1>4. /\ NewAttachment(spans) \in Attachments
        /\ NewAttachment(spans).spans = spans /\ NewAttachment(spans).pending = 0
    BY DEF NewAttachment, Attachments
  <1>5. WorkersTyped'
    <2>1. \A q \in Procs : \A k : Attached(q, k) => k \in Handles /\ Attachment(q, k) \in Attachments
      BY DEF WorkersTyped, Attached
    <2>2. \A q \in Procs : \A k : Attached(q, k)' => k \in Handles /\ Attachment(q, k)' \in Attachments
      BY ONLY <1>1, <1>4, <2>1, SMTT(30)
    <2>3. \A q \in Procs : DOMAIN local_attachments'[q] \subseteq Handles
      BY <2>2 DEF Attached
    <2>4. \A q \in Procs : \A k \in DOMAIN local_attachments'[q] : Attachment(q, k)' \in Attachments
      BY <2>2 DEF Attached
    <2> QED
      BY <1>1, <2>3, <2>4 DEF WorkersTyped
  <1>6. LoadsCounted'
    <2>1. \A q \in Procs : \A k : Attached(q, k) =>
            /\ Attachment(q, k).pending = loads[q][k] + Cardinality(Beginning(q, k))
            /\ Attachment(q, k).pending <= MaxLoads
      BY DEF LoadsCounted, Attached
    <2>2. 0 = loads[p][h] + Cardinality(Beginning(p, h)) /\ 0 <= MaxLoads
      BY ONLY <1>2, FS_EmptySet, BoundsNat, SMTT(30)
    <2>3. \A q \in Procs : \A k : Attached(q, k)' =>
            /\ Attachment(q, k)'.pending = loads[q][k] + Cardinality(Beginning(q, k))
            /\ Attachment(q, k)'.pending <= MaxLoads
      BY ONLY <1>1, <1>4, <2>1, <2>2, SMTT(30)
    <2>4. \A q \in Procs : \A k \in DOMAIN local_attachments'[q] :
            /\ Attachment(q, k)'.pending = loads'[q][k] + Cardinality(Beginning(q, k))'
            /\ Attachment(q, k)'.pending <= MaxLoads
      BY <1>3, <2>3 DEF Attached
    <2>5. \A q \in Procs, k \in Handles : ~Attached(q, k)' => loads'[q][k] = 0
      BY <1>1 DEF LoadsCounted
    <2>6. \A s \in Threads : call'[s].op = "begin" =>
            Attached(s[1], call[s].handle)' /\ call'[s].spans = Attachment(s[1], call[s].handle)'.spans
      BY <1>1, SMTT(30) DEF LoadsCounted, Threads
    <2> QED
      BY <2>4, <2>5, <2>6 DEF LoadsCounted
  <1>7. \A i \in DOMAIN spans : Pins(i)' = Pins(i) \union {<<p, h>>}
    BY ONLY <1>1, <1>4, SMTT(30) DEF Pins
  <1>8. \A i : i \notin DOMAIN spans => Pins(i)' = Pins(i)
    BY ONLY <1>1, <1>4, SMTT(30) DEF Pins
  <1>9. \A i : Unpinning(i)' = Unpinning(i) /\ Unloading(i)' = Unloading(i)
    BY DEF Unpinning, Unloading
  <1>10. \A i : Loading(i)' = Loading(i)
    <2>1. ASSUME NEW i
          PROVE  Loading(i)' = Loading(i)
      <3>1. Pins(i)' = Pins(i) \/ Pins(i)' = Pins(i) \union {<<p, h>>}
        BY <1>7, <1>8
      <3>2. \A n \in 1 .. MaxLoads : ~(n <= loads[p][h])
        BY ONLY <1>2, SMTT(30)
      <3> QED
        BY <3>1, <3>2, SMTT(30) DEF Loading
    <2> QED
      BY <2>1
  <1> QED
    BY <1>2, <1>5, <1>6, <1>7, <1>8, <1>9, <1>10

\* A new attachment on resident nodes, handed out with their pages.
LEMMA AttachSpansStay ==
    ASSUME WorkersTyped, SpansStay, NEW p \in Procs, NEW h \in UnusedHandles(p), NEW spans,
           local_attachments' = [local_attachments EXCEPT ![p] = With(@, h, NewAttachment(spans))],
           call' = call,
           \A i \in Resident : i \in Resident' /\ nodes'[i].pages = nodes[i].pages,
           \A i \in DOMAIN spans : i \in Resident' /\ nodes'[i].pages = spans[i]
    PROVE  SpansStay'
  <1>1. /\ \A q \in Procs : \A k : Attached(q, k)' <=> Attached(q, k) \/ (q = p /\ k = h)
        /\ \A q \in Procs : \A k : Attached(q, k) => Attachment(q, k)' = Attachment(q, k)
        /\ Attachment(p, h)' = NewAttachment(spans)
    BY AttachView
  <1>2. NewAttachment(spans).spans = spans
    BY DEF NewAttachment
  <1>3. \A q \in Procs : \A k : Attached(q, k) => \A i \in DOMAIN Attachment(q, k).spans :
          i \in Resident /\ nodes[i].pages = Attachment(q, k).spans[i]
    BY DEF SpansStay, Attached
  <1>4. \A q \in Procs : \A k : Attached(q, k)' => \A i \in DOMAIN Attachment(q, k)'.spans :
          i \in Resident' /\ nodes'[i].pages = Attachment(q, k)'.spans[i]
    BY <1>1, <1>2, <1>3, SMTT(30)
  <1>5. \A q \in Procs : \A k \in DOMAIN local_attachments'[q] : \A i \in DOMAIN Attachment(q, k)'.spans :
          i \in Resident' /\ nodes'[i].pages = Attachment(q, k)'.spans[i]
    BY ONLY <1>4, SMTT(30) DEF Attached
  <1>6. \A s \in Threads : call'[s] # Ready => \A i \in DOMAIN call'[s].spans :
          i \in Resident' /\ nodes'[i].pages = call'[s].spans[i]
    BY DEF SpansStay
  <1> QED
    BY <1>5, <1>6 DEF SpansStay, Ready

\* Changing reference counts leaves the index as it is.
LEMMA CountsChanged ==
    ASSUME IndexTyped, IndexExact, NEW S, NEW a \in Int, NEW b \in Int, nodes' = NodesAdding(S, a, b),
           \A i \in Resident : i \in S => nodes[i].active + a \in Nat /\ nodes[i].pending + b \in Nat,
           UNCHANGED <<next_entry, page_refs>>,
           last_access_epoch' \in [Resident -> 0 .. MaxNodes - 1]
    PROVE  /\ IndexTyped' /\ IndexExact' /\ Resident' = Resident
           /\ \A i \in Resident :
                 /\ nodes'[i].pages = nodes[i].pages
                 /\ i \in S => nodes'[i].active = nodes[i].active + a /\ nodes'[i].pending = nodes[i].pending + b
                 /\ i \notin S => nodes'[i] = nodes[i]
  <1>1. Resident' = Resident
    BY DEF Resident, NodesAdding
  <1>2. ASSUME NEW i \in Resident
        PROVE  /\ nodes'[i] \in Node
               /\ nodes'[i].pages = nodes[i].pages /\ nodes'[i].digest = nodes[i].digest
               /\ i \in S => nodes'[i].active = nodes[i].active + a /\ nodes'[i].pending = nodes[i].pending + b
               /\ i \notin S => nodes'[i] = nodes[i]
    <2>1. nodes[i] \in Node
      BY DEF IndexTyped
    <2>2. nodes'[i] = IF i \in S THEN [nodes[i] EXCEPT !.active = @ + a, !.pending = @ + b] ELSE nodes[i]
      BY DEF NodesAdding
    <2> QED
      BY <2>1, <2>2 DEF Node
  <1>3. IndexTyped'
    <2>1. Usage(Resident)' = Usage(Resident)
      BY <1>1 DEF Usage
    <2> QED
      BY <1>1, <1>2, <2>1 DEF IndexTyped
  <1>4. IndexExact'
    <2>1. ASSUME NEW g \in Groups, NEW page \in PageIds
          PROVE  page_refs'[g][page] = OnPage(Resident, g, page)'
      <3>1. {i \in Resident' : nodes'[i].pages[g] = page} = {i \in Resident : nodes[i].pages[g] = page}
        BY <1>1, <1>2
      <3>2. page_refs[g][page] = Cardinality({i \in Resident : nodes[i].pages[g] = page})
        BY DEF IndexExact, OnPage
      <3> QED
        BY <3>1, <3>2 DEF OnPage
    <2>2. \A i, j \in Resident' : nodes'[i].digest = nodes'[j].digest => i = j
      BY <1>1, <1>2, SMTT(30) DEF IndexExact
    <2> QED
      BY <2>1, <2>2 DEF IndexExact
  <1> QED
    BY <1>1, <1>2, <1>3, <1>4

\* LookupAndAttach counts its attachment on every node it hands out.
LEMMA LookupStep ==
    ASSUME CoordinatorInv, NEW t \in Threads, NEW prompt \in Prompts, NEW h \in Handles,
           LookupAndAttach(t, prompt, h)
    PROVE  CoordinatorInv' /\ Resident' = Resident
  <1> DEFINE S == Hits(prompt)
             p == t[1]
             spans == Spans(S, nodes)
  <1>0. /\ IndexTyped /\ WorkersTyped /\ SpansStay /\ LoadsCounted /\ RefsExact /\ IndexExact
        /\ p \in Procs
    BY DEF CoordinatorInv, Threads
  <1>1. /\ h \in UnusedHandles(p)
        /\ nodes' = NodesAdding(S, 1, 0)
        /\ last_access_epoch' = Touched(S)
        /\ local_attachments' = [local_attachments EXCEPT ![p] = With(@, h, NewAttachment(spans))]
        /\ UNCHANGED <<next_entry, page_refs, loads, call, mutex_dead, kills>>
    BY DEF LookupAndAttach
  <1>2. S \subseteq Resident /\ Resident \subseteq Slots
        /\ \A i \in Resident : nodes[i] \in Node
    BY <1>0 DEF Hits, IndexTyped
  <1>3. spans \in SpanSets /\ DOMAIN spans = S /\ \A i \in S : spans[i] = nodes[i].pages
    <2>1. \A i \in S : nodes[i].pages \in [Groups -> PageIds]
      BY <1>2 DEF Node
    <2>2. spans \in [S -> [Groups -> PageIds]]
      BY <2>1 DEF Spans
    <2> QED
      BY <1>2, <2>2 DEF SpanSets, Spans
  <1> HIDE DEF S, p, spans
  <1>4. last_access_epoch' \in [Resident -> 0 .. MaxNodes - 1]
    <2>1. [i \in Resident |-> IF i \in S THEN MaxNodes ELSE last_access_epoch[i]] \in [Resident -> Int]
      BY ONLY <1>0, BoundsNat, SMTT(30) DEF IndexTyped
    <2> QED
      BY <1>1, <1>2, <2>1, RankedTyped DEF Touched
  <1>5. /\ IndexTyped' /\ IndexExact' /\ Resident' = Resident
        /\ \A i \in Resident :
              /\ nodes'[i].pages = nodes[i].pages
              /\ i \in S => nodes'[i].active = nodes[i].active + 1 /\ nodes'[i].pending = nodes[i].pending + 0
              /\ i \notin S => nodes'[i] = nodes[i]
    <2>1. \A i \in Resident : nodes[i].active + 1 \in Nat /\ nodes[i].pending + 0 \in Nat
      BY ONLY <1>2, SMTT(30) DEF Node
    <2> QED
      BY ONLY <1>0, <1>1, <1>4, <2>1, CountsChanged, SMTT(30)
  <1>6. /\ WorkersTyped' /\ LoadsCounted'
        /\ \A i \in S : Pins(i)' = Pins(i) \union {<<p, h>>} /\ <<p, h>> \notin Pins(i)
        /\ \A i : i \notin S => Pins(i)' = Pins(i)
        /\ \A i : /\ Unpinning(i)' = Unpinning(i) /\ Unloading(i)' = Unloading(i)
                  /\ Loading(i)' = Loading(i)
    BY <1>0, <1>1, <1>3, AttachPins
  <1>7. SpansStay'
    <2>1. \A i \in Resident : i \in Resident' /\ nodes'[i].pages = nodes[i].pages
      BY <1>5
    <2>2. \A i \in DOMAIN spans : i \in Resident' /\ nodes'[i].pages = spans[i]
      BY <1>2, <1>3, <1>5
    <2> QED
      BY <1>0, <1>1, <2>1, <2>2, AttachSpansStay
  <1>8. RefsExact'
    <2>1. ASSUME NEW i \in Resident
          PROVE  /\ nodes'[i].active - nodes[i].active = Cardinality(Pins(i))' - Cardinality(Pins(i))
                 /\ nodes'[i].pending = nodes[i].pending
                 /\ nodes'[i].active \in Nat /\ Cardinality(Pins(i))' \in Nat
      <3>1. nodes[i].active \in Nat /\ nodes[i].pending \in Nat /\ Cardinality(Pins(i)) \in Nat /\ IsFiniteSet(Pins(i))
        BY <1>2, CountersFinite DEF Node
      <3>2. CASE i \in S
        <4>1. Cardinality(Pins(i) \union {<<p, h>>}) = Cardinality(Pins(i)) + 1
          BY <1>6, <3>1, <3>2, CountAdd
        <4>2. Cardinality(Pins(i))' = Cardinality(Pins(i)) + 1
          BY <1>6, <3>2, <4>1
        <4>3. nodes'[i].active = nodes[i].active + 1 /\ nodes'[i].pending = nodes[i].pending
          BY ONLY <1>5, <3>1, <3>2, SMTT(30)
        <4> QED
          BY ONLY <3>1, <4>2, <4>3, SMTT(30)
      <3>3. CASE i \notin S
        BY ONLY <1>5, <1>6, <3>1, <3>3, SMTT(30)
      <3> QED
        BY <3>2, <3>3
    <2>2. \A i \in Resident : /\ nodes[i].active \in Nat /\ nodes[i].pending \in Nat
      BY <1>2 DEF Node
    <2>3. \A i : Cardinality(Pins(i)) \in Nat /\ Cardinality(Unpinning(i)) \in Nat
      BY CountersFinite
    <2>4. ASSUME NEW i \in Resident'
          PROVE  /\ nodes'[i].active >= Cardinality(Pins(i))' + Cardinality(Unpinning(i))
                 /\ nodes'[i].pending >= Cardinality(Loading(i)) + Cardinality(Unloading(i))
                 /\ kills = 0 => /\ nodes'[i].active = Cardinality(Pins(i))' + Cardinality(Unpinning(i))
                                 /\ nodes'[i].pending = Cardinality(Loading(i)) + Cardinality(Unloading(i))
      <3>1. /\ nodes[i].active >= Cardinality(Pins(i)) + Cardinality(Unpinning(i))
            /\ nodes[i].pending >= Cardinality(Loading(i)) + Cardinality(Unloading(i))
            /\ kills = 0 => /\ nodes[i].active = Cardinality(Pins(i)) + Cardinality(Unpinning(i))
                            /\ nodes[i].pending = Cardinality(Loading(i)) + Cardinality(Unloading(i))
        BY <1>0, <1>5 DEF RefsExact
      <3>2. i \in Resident
        BY <1>5
      <3> QED
        BY ONLY <2>1, <2>2, <2>3, <3>1, <3>2, SMTT(30)
    <2> QED
      BY <1>1, <1>6, <2>4 DEF RefsExact
  <1> QED
    BY <1>5, <1>6, <1>7, <1>8 DEF CoordinatorInv

-----------------------------------------------------------------------------
(* Commits. *)

\* The digests of a prompt's blocks are different.
LEMMA DigestsDiffer ==
    ASSUME NEW prompt \in Prompts, NEW j \in Positions(prompt), NEW k \in Positions(prompt),
           Digest(prompt, j) = Digest(prompt, k)
    PROVE  j = k
  <1>1. prompt \in Seq(Range(prompt))
    BY CoordinatorAssumption
  <1>2. j \in 2 .. Len(prompt) /\ k \in 2 .. Len(prompt)
    BY DEF Positions
  <1>3. Len(SubSeq(prompt, 1, j)) = j /\ Len(SubSeq(prompt, 1, k)) = k
    BY ONLY <1>1, <1>2, SMTT(30)
  <1> QED
    BY <1>3 DEF Digest

\* The slots AllocateNodeLocked takes: free, one for each missing block.
LEMMA FirstFitSlots ==
    ASSUME NEW prompt \in Prompts, NEW pos \in FirstFit(Missing(prompt))
    PROVE  /\ DOMAIN pos \in SUBSET Slots /\ DOMAIN pos \intersect Resident = {}
           /\ Cardinality(DOMAIN pos) = Cardinality(Missing(prompt))
           /\ \A i \in DOMAIN pos : pos[i] \in Positions(prompt) /\ ~Cached(Digest(prompt, pos[i]))
           /\ \A i, j \in DOMAIN pos : pos[i] = pos[j] => i = j
  <1>1. PICK T \in SUBSET FreeSlots : pos \in [T -> Missing(prompt)] /\ Cardinality(T) = Cardinality(Missing(prompt))
    BY DEF FirstFit
  <1>2. \A i, j \in T : i < j => pos[i] < pos[j]
    BY <1>1 DEF FirstFit
  <1>3. T \subseteq Slots /\ T \intersect Resident = {}
    BY <1>1 DEF FreeSlots
  <1>4. \A i \in T : pos[i] \in Positions(prompt) /\ ~Cached(Digest(prompt, pos[i]))
    BY <1>1 DEF Missing
  <1>5. \A i \in T : i \in Int /\ pos[i] \in Int
    <2>1. prompt \in Seq(Range(prompt))
      BY CoordinatorAssumption
    <2> QED
      BY ONLY <1>3, <1>4, <2>1, BoundsNat, SMTT(30) DEF Slots, Positions
  <1>6. \A i, j \in T : pos[i] = pos[j] => i = j
    BY ONLY <1>2, <1>5, SMTT(30)
  <1>7. DOMAIN pos = T
    BY <1>1
  <1> QED
    BY <1>1, <1>3, <1>4, <1>6, <1>7

\* A free slot is read by nobody.
LEMMA FreeSlotUnread ==
    ASSUME WorkersTyped, SpansStay, NEW i, i \notin Resident
    PROVE  Pins(i) = {} /\ Unpinning(i) = {} /\ Loading(i) = {} /\ Unloading(i) = {}
  <1>1. Pins(i) = {}
    BY DEF Pins, SpansStay, Attached
  <1>2. Loading(i) = {}
    BY <1>1 DEF Loading
  <1>3. \A t \in Threads : call[t].op # "ready" => call[t] # Ready
    BY ONLY SMTT(30) DEF Ready
  <1>4. Unpinning(i) = {} /\ Unloading(i) = {}
    BY <1>3 DEF Unpinning, Unloading, SpansStay
  <1> QED
    BY <1>1, <1>2, <1>4

\* CommitPrefixPages keeps the invariant: its nodes go to free slots, their
\* pages are counted, and with protect_active the new attachment is their pin.
LEMMA CommitStep ==
    ASSUME CoordinatorInv, NEW t \in Threads, NEW prompt \in Prompts, NEW protect \in BOOLEAN, NEW h \in Handles,
           NEW pages \in [Positions(prompt) -> [Groups -> PageIds]],
           CommitPrefixPages(t, prompt, pages, protect, h)
    PROVE  CoordinatorInv' /\ Resident \subseteq Resident'
  <1> DEFINE n == Cardinality(Missing(prompt)) * Cardinality(Groups)
             tail == CompactArenasForCapacity(Resident, next_entry, n)
             p == t[1]
             count == IF protect THEN 1 ELSE 0
  <1>0. /\ IndexTyped /\ WorkersTyped /\ SpansStay /\ LoadsCounted /\ RefsExact /\ IndexExact
        /\ p \in Procs /\ Resident \subseteq Slots
    BY DEF CoordinatorInv, Threads, IndexTyped
  <1>1. /\ TailArenaCapacityEnough(tail, n)
        /\ h \in UnusedHandles(p)
        /\ UNCHANGED <<loads, call, mutex_dead, kills>>
    BY DEF CommitPrefixPages
  <1>2. PICK pos \in FirstFit(Missing(prompt)) :
          /\ nodes' = [i \in Resident \union DOMAIN pos |->
                          IF i \in DOMAIN pos THEN NewNode(Digest(prompt, pos[i]), pages[pos[i]], count) ELSE nodes[i]]
          /\ last_access_epoch' = Ranked([i \in Resident \union DOMAIN pos |->
                                             IF i \notin DOMAIN pos THEN last_access_epoch[i]
                                             ELSE MaxNodes + IF protect THEN 0 ELSE pos[i]])
          /\ next_entry' = tail + n
          /\ page_refs' = [g \in Groups |-> [page \in PageIds |->
                page_refs[g][page] + Cardinality({i \in DOMAIN pos : pages[pos[i]][g] = page})]]
          /\ local_attachments' =
                IF protect
                THEN [local_attachments EXCEPT ![p] = With(@, h, NewAttachment([i \in DOMAIN pos |-> pages[pos[i]]]))]
                ELSE local_attachments
    BY DEF CommitPrefixPages
  <1> DEFINE new == DOMAIN pos
             spans == [i \in new |-> pages[pos[i]]]
  <1>3. /\ new \in SUBSET Slots /\ new \intersect Resident = {} /\ Resident \union new \in SUBSET Slots
        /\ Cardinality(new) = Cardinality(Missing(prompt))
        /\ \A i \in new : pos[i] \in Positions(prompt) /\ ~Cached(Digest(prompt, pos[i]))
        /\ \A i, j \in new : pos[i] = pos[j] => i = j
    BY <1>0, FirstFitSlots
  <1>4. spans \in [new -> [Groups -> PageIds]] /\ \A i \in new : spans[i] = pages[pos[i]]
    BY <1>3
  <1>5. count \in Nat
    OBVIOUS
  <1>6. /\ Resident' = Resident \union new
        /\ \A i \in new : /\ nodes'[i].digest = Digest(prompt, pos[i]) /\ nodes'[i].pages = spans[i]
                          /\ nodes'[i].active = count /\ nodes'[i].pending = 0
                          /\ nodes'[i] \in Node
        /\ \A i \in Resident : nodes'[i] = nodes[i]
    <2> HIDE DEF count
    <2>1. Resident' = Resident \union new
      BY <1>2 DEF Resident
    <2>2. ASSUME NEW i \in new
          PROVE  /\ nodes'[i].digest = Digest(prompt, pos[i]) /\ nodes'[i].pages = spans[i]
                 /\ nodes'[i].active = count /\ nodes'[i].pending = 0
                 /\ nodes'[i] \in Node
      <3>1. nodes'[i] = NewNode(Digest(prompt, pos[i]), pages[pos[i]], count)
        BY <1>2
      <3>2. Digest(prompt, pos[i]) \in Digests
        BY ONLY <1>3, SMTT(30) DEF Digests
      <3>3. spans[i] = pages[pos[i]] /\ spans[i] \in [Groups -> PageIds]
        BY <1>4
      <3> HIDE DEF spans
      <3> QED
        BY ONLY <1>5, <3>1, <3>2, <3>3, SMTT(30) DEF NewNode, Node
    <2>3. \A i \in Resident : nodes'[i] = nodes[i]
      BY <1>2, <1>3
    <2> QED
      BY <2>1, <2>2, <2>3
  <1>7. next_entry' \in 0 .. MaxEntries /\ Usage(Resident)' <= next_entry'
    <2>1. Cardinality(Missing(prompt)) \in Nat /\ Cardinality(Groups) \in Nat
      BY <1>3, SlotSets, CoordinatorAssumption, FS_CardinalityType
    <2>2. n \in Nat
      BY <2>1, Scaled
    <2>3. tail \in 0 .. MaxEntries /\ Usage(Resident) <= tail
      BY <1>0, TailKept DEF IndexTyped
    <2>4. Usage(Resident) \in Nat /\ MaxEntries \in Nat
      BY <1>0, UsageMonotone, CoordinatorAssumption
    <2>5. Usage(Resident \union new) = Usage(Resident) + n
      BY <1>0, <1>3, UsageUnion
    <2>6. Usage(Resident)' = Usage(Resident \union new)
      BY <1>6 DEF Usage
    <2>7. MaxEntries - tail >= n
      BY <1>1 DEF TailArenaCapacityEnough
    <2>8. next_entry' = tail + n
      BY <1>2
    <2> HIDE DEF n, tail
    <2> QED
      BY ONLY <2>2, <2>3, <2>4, <2>5, <2>6, <2>7, <2>8, SMTT(30)
  <1> HIDE DEF n, tail, count
  <1>8. IndexTyped'
    <2>1. \A i \in new : nodes'[i] \in Node
      BY <1>6
    <2>2. \A i \in Resident : nodes'[i] \in Node
      BY <1>0, <1>6 DEF IndexTyped
    <2>3. last_access_epoch' \in [Resident' -> 0 .. MaxNodes - 1]
      <3> DEFINE f == [i \in Resident \union new |-> IF i \notin new THEN last_access_epoch[i]
                                                  ELSE MaxNodes + IF protect THEN 0 ELSE pos[i]]
      <3>1. \A i \in new : pos[i] \in Int
        <4>1. prompt \in Seq(Range(prompt))
          BY CoordinatorAssumption
        <4> QED
          BY ONLY <1>3, <4>1, SMTT(30) DEF Positions
      <3>2. \A i \in Resident : last_access_epoch[i] \in Int
        BY ONLY <1>0, SMTT(30) DEF IndexTyped
      <3>3. f \in [Resident \union new -> Int]
        BY ONLY <3>1, <3>2, BoundsNat, SMTT(30)
      <3>4. last_access_epoch' = Ranked(f)
        BY <1>2
      <3> HIDE DEF f
      <3> QED
        BY <1>3, <1>6, <3>3, <3>4, RankedTyped
    <2>4. ASSUME NEW g \in Groups, NEW page \in PageIds
          PROVE  page_refs[g][page] + Cardinality({i \in new : pages[pos[i]][g] = page}) \in Nat
      <3>1. {i \in new : pages[pos[i]][g] = page} \in SUBSET Slots
        BY <1>3
      <3>2. Cardinality({i \in new : pages[pos[i]][g] = page}) \in Nat
        BY <3>1, SlotSets
      <3>3. page_refs[g][page] \in Nat
        BY <1>0 DEF IndexTyped
      <3> QED
        BY ONLY <3>2, <3>3, SMTT(30)
    <2>5. page_refs' \in [Groups -> [PageIds -> Nat]]
      BY <1>2, <2>4
    <2> QED
      BY <1>3, <1>6, <1>7, <2>1, <2>2, <2>3, <2>5 DEF IndexTyped
  <1>9. IndexExact'
    <2>1. ASSUME NEW g \in Groups, NEW page \in PageIds
          PROVE  page_refs'[g][page] = OnPage(Resident, g, page)'
      <3> DEFINE old == {i \in Resident : nodes[i].pages[g] = page}
                 added == {i \in new : pages[pos[i]][g] = page}
      <3>1. page_refs[g][page] = Cardinality(old)
        BY <1>0 DEF IndexExact, OnPage
      <3>2. old \in SUBSET Slots /\ added \in SUBSET Slots /\ old \intersect added = {}
        BY <1>0, <1>3
      <3>3. {i \in Resident' : nodes'[i].pages[g] = page} = old \union added
        BY ONLY <1>3, <1>4, <1>6, SMTT(30)
      <3>4. Cardinality(old \union added) = Cardinality(old) + Cardinality(added)
        BY <3>2, CountUnion
      <3>5. page_refs'[g][page] = page_refs[g][page] + Cardinality(added)
        BY <1>2
      <3> QED
        BY <3>1, <3>3, <3>4, <3>5 DEF OnPage
    <2>2. ASSUME NEW i \in Resident', NEW j \in Resident', nodes'[i].digest = nodes'[j].digest
          PROVE  i = j
      <3>1. CASE i \in new /\ j \in new
        BY ONLY <1>3, <1>6, <2>2, <3>1, DigestsDiffer, SMTT(30)
      <3>2. CASE i \in Resident /\ j \in Resident
        BY ONLY <1>0, <1>6, <2>2, <3>2, SMTT(30) DEF IndexExact
      <3>3. CASE i \in new /\ j \in Resident
        BY ONLY <1>3, <1>6, <2>2, <3>3, SMTT(30) DEF Cached
      <3>4. CASE i \in Resident /\ j \in new
        BY ONLY <1>3, <1>6, <2>2, <3>4, SMTT(30) DEF Cached
      <3> QED
        BY <1>6, <3>1, <3>2, <3>3, <3>4
    <2> QED
      BY <2>1, <2>2 DEF IndexExact
  <1>10. spans \in SpanSets /\ DOMAIN spans = new
    BY <1>3, <1>4 DEF SpanSets
  <1>11. /\ WorkersTyped' /\ LoadsCounted' /\ SpansStay'
         /\ \A i \in new : Cardinality(Pins(i))' = count
         /\ \A i \in Resident : Pins(i)' = Pins(i)
         /\ \A i : /\ Unpinning(i)' = Unpinning(i) /\ Unloading(i)' = Unloading(i)
                   /\ Loading(i)' = Loading(i)
    <2>1. /\ \A i \in Resident : i \in Resident' /\ nodes'[i].pages = nodes[i].pages
          /\ \A i \in DOMAIN spans : i \in Resident' /\ nodes'[i].pages = spans[i]
      BY <1>6, <1>10
    <2>2. \A i \in new : Pins(i) = {}
      BY <1>0, <1>3, FreeSlotUnread
    <2>3. CASE protect
      <3>1. local_attachments' = [local_attachments EXCEPT ![p] = With(@, h, NewAttachment(spans))]
        BY <1>2, <2>3
      <3> HIDE DEF new, spans, p
      <3>2. /\ WorkersTyped' /\ LoadsCounted'
            /\ \A i \in DOMAIN spans : Pins(i)' = Pins(i) \union {<<p, h>>} /\ <<p, h>> \notin Pins(i)
            /\ \A i : i \notin DOMAIN spans => Pins(i)' = Pins(i)
            /\ \A i : /\ Unpinning(i)' = Unpinning(i) /\ Unloading(i)' = Unloading(i)
                      /\ Loading(i)' = Loading(i)
        BY <1>0, <1>1, <1>10, <3>1, AttachPins
      <3>3. SpansStay'
        BY <1>0, <1>1, <2>1, <3>1, AttachSpansStay
      <3>4. Cardinality({<<p, h>>}) = 1
        BY FS_Singleton
      <3>5. \A i \in new : Pins(i)' = {<<p, h>>}
        BY <1>10, <2>2, <3>2
      <3>6. \A i \in new : Cardinality(Pins(i))' = count
        BY <2>3, <3>4, <3>5 DEF count
      <3>7. \A i \in Resident : Pins(i)' = Pins(i)
        BY <1>3, <1>10, <3>2
      <3> QED
        BY <3>2, <3>3, <3>6, <3>7
    <2>4. CASE ~protect
      <3>1. local_attachments' = local_attachments
        BY <1>2, <2>4
      <3> HIDE DEF new, spans, p
      <3>2. WorkersTyped' /\ LoadsCounted'
        BY <1>0, <1>1, <3>1, WorkersKept
      <3>3. \A i : /\ Pins(i)' = Pins(i) /\ Unpinning(i)' = Unpinning(i)
                   /\ Unloading(i)' = Unloading(i)
        BY <1>1, <3>1 DEF Pins, Unpinning, Unloading, Attached, Attachment
      <3>4. \A i : Loading(i)' = Loading(i)
        BY <1>1, <3>3 DEF Loading
      <3>5. SpansStay'
        BY <1>0, <1>1, <2>1, <3>1 DEF SpansStay, Attachment, Ready
      <3>6. \A i \in new : Cardinality(Pins(i))' = count
        <4>1. \A i \in new : Pins(i)' = {}
          BY <2>2, <3>3
        <4> QED
          BY <2>4, <4>1, FS_EmptySet DEF count
      <3> QED
        BY <3>2, <3>3, <3>4, <3>5, <3>6
    <2> QED
      BY <2>3, <2>4
  <1>12. RefsExact'
    <2>1. \A i \in Resident :
            /\ nodes'[i].active >= Cardinality(Pins(i))' + Cardinality(Unpinning(i))'
            /\ nodes'[i].pending >= Cardinality(Loading(i))' + Cardinality(Unloading(i))'
            /\ kills' = 0 => /\ nodes'[i].active = Cardinality(Pins(i))' + Cardinality(Unpinning(i))'
                             /\ nodes'[i].pending = Cardinality(Loading(i))' + Cardinality(Unloading(i))'
      BY <1>0, <1>1, <1>6, <1>11 DEF RefsExact
    <2>2. ASSUME NEW i \in new
          PROVE  /\ nodes'[i].active = Cardinality(Pins(i))' + Cardinality(Unpinning(i))'
                 /\ nodes'[i].pending = Cardinality(Loading(i))' + Cardinality(Unloading(i))'
                 /\ nodes'[i].active \in Nat /\ nodes'[i].pending \in Nat
      <3>1. Unpinning(i) = {} /\ Loading(i) = {} /\ Unloading(i) = {}
        BY <1>0, <1>3, FreeSlotUnread
      <3>2. Unpinning(i)' = {} /\ Loading(i)' = {} /\ Unloading(i)' = {}
        BY <1>11, <3>1
      <3>3. Cardinality({}) = 0
        BY FS_EmptySet
      <3>4. nodes'[i].active = count /\ nodes'[i].pending = 0
        BY <1>6
      <3> QED
        BY ONLY <1>5, <1>11, <3>2, <3>3, <3>4, SMTT(30)
    <2> HIDE DEF new
    <2>3. \A i \in new :
            /\ nodes'[i].active >= Cardinality(Pins(i))' + Cardinality(Unpinning(i))'
            /\ nodes'[i].pending >= Cardinality(Loading(i))' + Cardinality(Unloading(i))'
            /\ kills' = 0 => /\ nodes'[i].active = Cardinality(Pins(i))' + Cardinality(Unpinning(i))'
                             /\ nodes'[i].pending = Cardinality(Loading(i))' + Cardinality(Unloading(i))'
      BY ONLY <2>2, SMTT(30)
    <2> QED
      BY <1>6, <2>1, <2>3 DEF RefsExact
  <1> QED
    BY <1>6, <1>8, <1>9, <1>11, <1>12 DEF CoordinatorInv

-----------------------------------------------------------------------------
(* What releases and loads change. *)

\* Two sets that agree except perhaps on x, and their counts.
LEMMA Toggled ==
    ASSUME NEW S, NEW T, NEW x, IsFiniteSet(S), \A y : y # x => (y \in S <=> y \in T)
    PROVE  /\ IsFiniteSet(T) /\ Cardinality(S) \in Nat /\ Cardinality(T) \in Nat
           /\ Cardinality(T) = Cardinality(S) + One(x \in T) - One(x \in S)
  <1>1. Cardinality(S) \in Nat
    BY FS_CardinalityType
  <1>2. CASE x \in S /\ x \in T
    <2>1. S = T
      BY <1>2, SMTT(30)
    <2> QED
      BY <1>1, <1>2, <2>1, SMTT(30) DEF One
  <1>3. CASE x \notin S /\ x \notin T
    <2>1. S = T
      BY <1>3, SMTT(30)
    <2> QED
      BY <1>1, <1>3, <2>1, SMTT(30) DEF One
  <1>4. CASE x \in S /\ x \notin T
    <2>1. T = S \ {x}
      BY <1>4
    <2>2. IsFiniteSet(T) /\ Cardinality(T) = Cardinality(S) - 1 /\ Cardinality(S) > 0
      BY <1>4, <2>1, CountRemove
    <2> QED
      BY ONLY <1>1, <1>4, <2>2, SMTT(30) DEF One
  <1>5. CASE x \notin S /\ x \in T
    <2>1. T = S \union {x}
      BY <1>5
    <2>2. IsFiniteSet(T) /\ Cardinality(T) = Cardinality(S) + 1
      BY <1>5, <2>1, CountAdd
    <2> QED
      BY ONLY <1>1, <1>5, <2>2, SMTT(30) DEF One
  <1> QED
    BY <1>2, <1>3, <1>4, <1>5

\* A thread that enters or leaves a call changes the counts by itself alone.
LEMMA CallCounts ==
    ASSUME WorkersTyped, NEW t \in Threads, NEW c, call' = [call EXCEPT ![t] = c]
    PROVE  /\ DOMAIN call' = Threads /\ call'[t] = c
           /\ \A s \in Threads : s # t => call'[s] = call[s]
           /\ \A i : Cardinality(Unpinning(i))'
                        = Cardinality(Unpinning(i)) + One(Unpins(c, i)) - One(Unpins(call[t], i))
           /\ \A i : Cardinality(Unloading(i))'
                        = Cardinality(Unloading(i)) + One(Unloads(c, i)) - One(Unloads(call[t], i))
           /\ \A h : Cardinality(Beginning(t[1], h))'
                        = Cardinality(Beginning(t[1], h)) + One(Begins(c, h)) - One(Begins(call[t], h))
           /\ \A p, h : p # t[1] => Beginning(p, h)' = Beginning(p, h)
  <1>1. DOMAIN call = Threads
    BY DEF WorkersTyped
  <1>2. DOMAIN call' = Threads /\ call'[t] = c /\ \A s \in Threads : s # t => call'[s] = call[s]
    BY <1>1
  <1>3. ASSUME NEW i
        PROVE  Cardinality(Unpinning(i))' = Cardinality(Unpinning(i)) + One(Unpins(c, i)) - One(Unpins(call[t], i))
    <2>1. \A y : y # t => (y \in Unpinning(i) <=> y \in Unpinning(i)')
      BY <1>2 DEF Unpinning
    <2>2. (t \in Unpinning(i) <=> Unpins(call[t], i)) /\ (t \in Unpinning(i)' <=> Unpins(c, i))
      BY <1>2 DEF Unpinning, Unpins
    <2>3. Cardinality(Unpinning(i)') = Cardinality(Unpinning(i)) + One(t \in Unpinning(i)') - One(t \in Unpinning(i))
      BY <2>1, CountersFinite, Toggled
    <2> QED
      BY <2>2, <2>3 DEF One
  <1>4. ASSUME NEW i
        PROVE  Cardinality(Unloading(i))' = Cardinality(Unloading(i)) + One(Unloads(c, i)) - One(Unloads(call[t], i))
    <2>1. \A y : y # t => (y \in Unloading(i) <=> y \in Unloading(i)')
      BY <1>2 DEF Unloading
    <2>2. (t \in Unloading(i) <=> Unloads(call[t], i)) /\ (t \in Unloading(i)' <=> Unloads(c, i))
      BY <1>2 DEF Unloading, Unloads
    <2>3. Cardinality(Unloading(i)') = Cardinality(Unloading(i)) + One(t \in Unloading(i)') - One(t \in Unloading(i))
      BY <2>1, CountersFinite, Toggled
    <2> QED
      BY <2>2, <2>3 DEF One
  <1>5. ASSUME NEW h
        PROVE  Cardinality(Beginning(t[1], h))'
                  = Cardinality(Beginning(t[1], h)) + One(Begins(c, h)) - One(Begins(call[t], h))
    <2> DEFINE B == Beginning(t[1], h)
    <2>1. \A y : y # t => (y \in B <=> y \in B')
      BY <1>2 DEF Beginning
    <2>2. (t \in B <=> Begins(call[t], h)) /\ (t \in B' <=> Begins(c, h))
      BY <1>2 DEF Beginning, Begins
    <2>3. IsFiniteSet(B)
      BY BeginningFinite
    <2> HIDE DEF B
    <2>4. Cardinality(B') = Cardinality(B) + One(t \in B') - One(t \in B)
      BY <2>1, <2>3, Toggled
    <2> QED
      BY <2>2, <2>4 DEF One, B
  <1>6. \A p, h : p # t[1] => Beginning(p, h)' = Beginning(p, h)
    BY <1>2 DEF Beginning
  <1> QED
    BY <1>2, <1>3, <1>4, <1>5, <1>6

\* A step that moves a node's counts and those counted in them alike.
LEMMA RefsMoved ==
    ASSUME IndexTyped, RefsExact, kills' = kills, Resident' = Resident, NEW S, NEW a \in Int, NEW b \in Int,
           \A i \in Resident : i \in S =>
              /\ nodes'[i].active = nodes[i].active + a /\ nodes'[i].pending = nodes[i].pending + b
              /\ Cardinality(Pins(i))' + Cardinality(Unpinning(i))' = Cardinality(Pins(i)) + Cardinality(Unpinning(i)) + a
              /\ Cardinality(Loading(i))' + Cardinality(Unloading(i))'
                    = Cardinality(Loading(i)) + Cardinality(Unloading(i)) + b,
           \A i \in Resident : i \notin S =>
              /\ nodes'[i].active = nodes[i].active /\ nodes'[i].pending = nodes[i].pending
              /\ Cardinality(Pins(i))' + Cardinality(Unpinning(i))' = Cardinality(Pins(i)) + Cardinality(Unpinning(i))
              /\ Cardinality(Loading(i))' + Cardinality(Unloading(i))'
                    = Cardinality(Loading(i)) + Cardinality(Unloading(i))
    PROVE  RefsExact'
  <1>1. ASSUME NEW i \in Resident
        PROVE  /\ nodes'[i].active >= Cardinality(Pins(i))' + Cardinality(Unpinning(i))'
               /\ nodes'[i].pending >= Cardinality(Loading(i))' + Cardinality(Unloading(i))'
               /\ kills' = 0 => /\ nodes'[i].active = Cardinality(Pins(i))' + Cardinality(Unpinning(i))'
                                /\ nodes'[i].pending = Cardinality(Loading(i))' + Cardinality(Unloading(i))'
    <2>1. /\ nodes[i].active >= Cardinality(Pins(i)) + Cardinality(Unpinning(i))
          /\ nodes[i].pending >= Cardinality(Loading(i)) + Cardinality(Unloading(i))
          /\ kills = 0 => /\ nodes[i].active = Cardinality(Pins(i)) + Cardinality(Unpinning(i))
                          /\ nodes[i].pending = Cardinality(Loading(i)) + Cardinality(Unloading(i))
      BY DEF RefsExact
    <2>2. /\ Cardinality(Pins(i)) \in Nat /\ Cardinality(Unpinning(i)) \in Nat
          /\ Cardinality(Loading(i)) \in Nat /\ Cardinality(Unloading(i)) \in Nat
      BY CountersFinite
    <2>3. nodes[i].active \in Nat /\ nodes[i].pending \in Nat
      BY DEF IndexTyped, Node
    <2>4. CASE i \in S
      BY <2>1, <2>2, <2>3, <2>4, SMTT(30)
    <2>5. CASE i \notin S
      BY <2>1, <2>2, <2>3, <2>5
    <2> QED
      BY <2>4, <2>5
  <1> QED
    BY <1>1 DEF RefsExact

\* A step after a death that forgets some of those counted.
LEMMA RefsLoosened ==
    ASSUME IndexTyped, RefsExact, kills' # 0, nodes' = nodes,
           \A i \in Resident :
              /\ Cardinality(Pins(i))' + Cardinality(Unpinning(i))' \in Int
              /\ Cardinality(Loading(i))' + Cardinality(Unloading(i))' \in Int
              /\ Cardinality(Pins(i))' + Cardinality(Unpinning(i))' <= Cardinality(Pins(i)) + Cardinality(Unpinning(i))
              /\ Cardinality(Loading(i))' + Cardinality(Unloading(i))'
                    <= Cardinality(Loading(i)) + Cardinality(Unloading(i))
    PROVE  RefsExact'
  <1>1. ASSUME NEW i \in Resident
        PROVE  /\ nodes'[i].active >= Cardinality(Pins(i))' + Cardinality(Unpinning(i))'
               /\ nodes'[i].pending >= Cardinality(Loading(i))' + Cardinality(Unloading(i))'
    <2>1. /\ nodes[i].active >= Cardinality(Pins(i)) + Cardinality(Unpinning(i))
          /\ nodes[i].pending >= Cardinality(Loading(i)) + Cardinality(Unloading(i))
      BY DEF RefsExact
    <2>2. /\ Cardinality(Pins(i)) \in Nat /\ Cardinality(Unpinning(i)) \in Nat
          /\ Cardinality(Loading(i)) \in Nat /\ Cardinality(Unloading(i)) \in Nat
      BY CountersFinite
    <2>3. nodes[i].active \in Nat /\ nodes[i].pending \in Nat
      BY DEF IndexTyped, Node
    <2> QED
      BY <2>1, <2>2, <2>3, SMTT(30)
  <1>2. Resident' = Resident
    BY DEF Resident
  <1> QED
    BY <1>1, <1>2 DEF RefsExact

\* Spans that are dropped, kept, or copied from an attachment into a call.
LEMMA SpansKept ==
    ASSUME SpansStay, \A i \in Resident : i \in Resident' /\ nodes'[i].pages = nodes[i].pages,
           \A q \in Procs : \A k : Attached(q, k)' => Attached(q, k) /\ Attachment(q, k)'.spans = Attachment(q, k).spans,
           \A s \in Threads : call'[s] # Ready =>
              \/ call[s] # Ready /\ call'[s].spans = call[s].spans
              \/ \E k : Attached(s[1], k) /\ call'[s].spans = Attachment(s[1], k).spans
    PROVE  SpansStay'
  <1>1. \A q \in Procs : \A k : Attached(q, k) => \A i \in DOMAIN Attachment(q, k).spans :
          i \in Resident /\ nodes[i].pages = Attachment(q, k).spans[i]
    BY DEF SpansStay, Attached
  <1>2. \A s \in Threads : call[s] # Ready => \A i \in DOMAIN call[s].spans :
          i \in Resident /\ nodes[i].pages = call[s].spans[i]
    BY DEF SpansStay
  <1>3. \A q \in Procs : \A k : Attached(q, k)' => \A i \in DOMAIN Attachment(q, k)'.spans :
          i \in Resident' /\ nodes'[i].pages = Attachment(q, k)'.spans[i]
    BY <1>1, SMTT(30)
  <1>4. \A s \in Threads : call'[s] # Ready => \A i \in DOMAIN call'[s].spans :
          i \in Resident' /\ nodes'[i].pages = call'[s].spans[i]
    BY <1>1, <1>2, SMTT(30) DEF Threads
  <1>5. \A q \in Procs : \A k \in DOMAIN local_attachments'[q] : \A i \in DOMAIN Attachment(q, k)'.spans :
          i \in Resident' /\ nodes'[i].pages = Attachment(q, k)'.spans[i]
    BY <1>3 DEF Attached
  <1> QED
    BY <1>4, <1>5 DEF SpansStay, Ready

\* A step that leaves the shared index alone.
LEMMA IndexKept ==
    ASSUME IndexTyped, IndexExact, UNCHANGED index
    PROVE  IndexTyped' /\ IndexExact' /\ Resident' = Resident
  BY SMTT(30) DEF IndexTyped, IndexExact, index, Resident, Usage, OnPage

\* The attachments after one is dropped.
LEMMA DetachView ==
    ASSUME WorkersTyped, NEW p \in Procs, NEW h,
           local_attachments' = [local_attachments EXCEPT ![p] = Without(@, h)]
    PROVE  /\ DOMAIN local_attachments' = Procs
           /\ \A q \in Procs : \A k : Attached(q, k)' <=> Attached(q, k) /\ (q # p \/ k # h)
           /\ \A q \in Procs : \A k : Attached(q, k)' => Attachment(q, k)' = Attachment(q, k)
  <1>1. DOMAIN local_attachments = Procs
    BY DEF WorkersTyped
  <1>2. DOMAIN local_attachments' = Procs /\ \A q \in Procs : q # p => local_attachments'[q] = local_attachments[q]
    BY <1>1
  <1>3. local_attachments'[p] = Without(local_attachments[p], h)
    BY <1>1
  <1>4. /\ DOMAIN local_attachments'[p] = DOMAIN local_attachments[p] \ {h}
        /\ \A k \in DOMAIN local_attachments[p] \ {h} : local_attachments'[p][k] = local_attachments[p][k]
    BY <1>3 DEF Without
  <1> QED
    BY <1>2, <1>4 DEF Attached, Attachment

\* The types of the workers after a step of one thread.
LEMMA WorkersTypedBy ==
    ASSUME WorkersTyped, NEW t \in Threads, DOMAIN local_attachments' = Procs,
           \A q \in Procs : \A k : Attached(q, k)' => k \in Handles /\ Attachment(q, k)' \in Attachments,
           loads' \in [Procs -> [Handles -> Nat]], DOMAIN call' = Threads,
           \A s \in Threads : s # t => call'[s] = call[s],
           \/ call'[t] = Ready \/ call'[t] = call[t]
           \/ call'[t] \in [op : {"release"}, spans : SpanSets]
           \/ call'[t] \in [op : {"begin"}, handle : Handles, spans : SpanSets]
           \/ call'[t] \in [op : {"end"}, spans : SpanSets, finalize : BOOLEAN],
           UNCHANGED <<mutex_dead, kills>>
    PROVE  WorkersTyped'
  <1>1. /\ \A q \in Procs : DOMAIN local_attachments'[q] \subseteq Handles
        /\ \A q \in Procs : \A k \in DOMAIN local_attachments'[q] : Attachment(q, k)' \in Attachments
    BY DEF Attached
  <1>2. \A s \in Threads :
          \/ call'[s] = Ready
          \/ call'[s] \in [op : {"release"}, spans : SpanSets]
          \/ call'[s] \in [op : {"begin"}, handle : Handles, spans : SpanSets]
          \/ call'[s] \in [op : {"end"}, spans : SpanSets, finalize : BOOLEAN]
    BY DEF WorkersTyped
  <1>3. Ready' = Ready
    BY DEF Ready
  <1> QED
    BY <1>1, <1>2, <1>3 DEF WorkersTyped

\* What the invariant says of one attachment.
LEMMA AttachmentFacts ==
    ASSUME WorkersTyped, LoadsCounted, NEW p \in Procs, NEW h, Attached(p, h)
    PROVE  /\ h \in Handles /\ Attachment(p, h) \in Attachments
           /\ Attachment(p, h).spans \in SpanSets /\ Attachment(p, h).pending \in Nat
           /\ loads[p][h] \in Nat /\ Cardinality(Beginning(p, h)) \in Nat
           /\ Attachment(p, h).pending = loads[p][h] + Cardinality(Beginning(p, h))
           /\ Attachment(p, h).pending <= MaxLoads
  <1>1. h \in Handles /\ Attachment(p, h) \in Attachments
    BY DEF WorkersTyped, Attached
  <1>2. Attachment(p, h).spans \in SpanSets /\ Attachment(p, h).pending \in Nat
    BY <1>1 DEF Attachments
  <1>3. loads[p][h] \in Nat /\ Cardinality(Beginning(p, h)) \in Nat
    BY <1>1, BeginningFinite, SMTT(30) DEF WorkersTyped
  <1>4. /\ Attachment(p, h).pending = loads[p][h] + Cardinality(Beginning(p, h))
        /\ Attachment(p, h).pending <= MaxLoads
    BY DEF LoadsCounted, Attached
  <1> QED
    BY <1>1, <1>2, <1>3, <1>4

\* Loads, attachments and begun calls after a step, in the words of the views.
LEMMA LoadsCountedBy ==
    ASSUME \A q \in Procs : \A k : Attached(q, k)' =>
              /\ Attachment(q, k)'.pending = loads'[q][k] + Cardinality(Beginning(q, k))'
              /\ Attachment(q, k)'.pending <= MaxLoads,
           \A q \in Procs, k \in Handles : ~Attached(q, k)' => loads'[q][k] = 0,
           \A s \in Threads : call'[s].op = "begin" =>
              \E k : /\ k = call'[s].handle /\ Attached(s[1], k)'
                     /\ call'[s].spans = Attachment(s[1], k)'.spans
    PROVE  LoadsCounted'
  <1>1. \A q \in Procs : \A k \in DOMAIN local_attachments'[q] :
          /\ Attachment(q, k)'.pending = loads'[q][k] + Cardinality(Beginning(q, k))'
          /\ Attachment(q, k)'.pending <= MaxLoads
    BY DEF Attached
  <1>2. \A s \in Threads : call'[s].op = "begin" =>
          /\ call'[s].handle \in DOMAIN local_attachments'[s[1]]
          /\ call'[s].spans = local_attachments'[s[1]][call'[s].handle].spans
    BY DEF Attached, Attachment
  <1> QED
    BY <1>1, <1>2 DEF LoadsCounted, Attached, Attachment

-----------------------------------------------------------------------------
(* Releases and loads. *)

\* ReleaseAttachment while a load is pending: only the request is recorded.
LEMMA ReleaseDeferredStep ==
    ASSUME CoordinatorInv, NEW t \in Threads, NEW h \in Handles, Attached(t[1], h),
           local_attachments' = [local_attachments EXCEPT ![t[1]][h].release_requested = TRUE],
           UNCHANGED <<call, index, loads, mutex_dead, kills>>
    PROVE  CoordinatorInv' /\ Resident' = Resident
  <1> DEFINE p == t[1]
             a == [Attachment(p, h) EXCEPT !.release_requested = TRUE]
  <1>0. /\ IndexTyped /\ WorkersTyped /\ SpansStay /\ LoadsCounted /\ RefsExact /\ IndexExact
        /\ p \in Procs /\ DOMAIN local_attachments = Procs /\ DOMAIN call = Threads
        /\ loads \in [Procs -> [Handles -> Nat]]
    BY DEF CoordinatorInv, Threads, WorkersTyped
  <1>1. /\ DOMAIN local_attachments' = Procs
        /\ \A q \in Procs : q # p => local_attachments'[q] = local_attachments[q]
        /\ DOMAIN local_attachments'[p] = DOMAIN local_attachments[p] /\ local_attachments'[p][h] = a
        /\ \A k \in DOMAIN local_attachments[p] : k # h => local_attachments'[p][k] = local_attachments[p][k]
    BY <1>0 DEF Attached, Attachment
  <1>2. Attachment(p, h) \in Attachments
    BY <1>0, AttachmentFacts
  <1>3. a \in Attachments /\ a.spans = Attachment(p, h).spans /\ a.pending = Attachment(p, h).pending
    BY <1>2 DEF Attachments
  <1> HIDE DEF a
  <1>4. Attached(p, h)
    OBVIOUS
  <1>5. /\ DOMAIN local_attachments' = Procs
        /\ \A q \in Procs : \A k : Attached(q, k)' <=> Attached(q, k)
        /\ \A q \in Procs : \A k : (q # p \/ k # h) /\ Attached(q, k) => Attachment(q, k)' = Attachment(q, k)
        /\ Attachment(p, h)' = a
    BY <1>0, <1>1, <1>4 DEF Attached, Attachment
  <1>6. \A q \in Procs : \A k : Attached(q, k) =>
          /\ Attachment(q, k)'.spans = Attachment(q, k).spans
          /\ Attachment(q, k)'.pending = Attachment(q, k).pending
          /\ Attachment(q, k)' \in Attachments /\ k \in Handles
    BY ONLY <1>0, <1>3, <1>5, AttachmentFacts, SMTT(30)
  <1>7. \A q, k : Beginning(q, k)' = Beginning(q, k)
    BY DEF Beginning
  <1>8. WorkersTyped'
    BY <1>0, <1>5, <1>6, WorkersTypedBy
  <1>9. LoadsCounted'
    <2>1. \A q \in Procs : \A k : Attached(q, k)' =>
              /\ Attachment(q, k)'.pending = loads'[q][k] + Cardinality(Beginning(q, k))'
              /\ Attachment(q, k)'.pending <= MaxLoads
      BY <1>0, <1>5, <1>6, <1>7, AttachmentFacts, SMTT(30)
    <2>2. \A q \in Procs, k \in Handles : ~Attached(q, k)' => loads'[q][k] = 0
      BY <1>0, <1>5 DEF LoadsCounted
    <2>3. \A s \in Threads : call'[s].op = "begin" =>
              \E k : /\ k = call'[s].handle /\ Attached(s[1], k)'
                     /\ call'[s].spans = Attachment(s[1], k)'.spans
      BY <1>0, <1>5, <1>6, SMTT(30) DEF LoadsCounted, Threads
    <2> QED
      BY <2>1, <2>2, <2>3, LoadsCountedBy
  <1>10. SpansStay'
    <2>1. \A i \in Resident : i \in Resident' /\ nodes'[i].pages = nodes[i].pages
      BY DEF Resident, index
    <2> QED
      BY <1>0, <1>5, <1>6, <2>1, SpansKept
  <1>11. RefsExact'
    <2>1. \A i : Pins(i)' = Pins(i)
      BY ONLY <1>5, <1>6, SMTT(30) DEF Pins
    <2>2. \A i : Unpinning(i)' = Unpinning(i) /\ Unloading(i)' = Unloading(i)
      BY DEF Unpinning, Unloading
    <2>3. \A i : Loading(i)' = Loading(i)
      BY <2>1 DEF Loading
    <2> QED
      BY <1>0, <2>1, <2>2, <2>3 DEF RefsExact, index, Resident
  <1> QED
    BY <1>0, <1>8, <1>9, <1>10, <1>11, IndexKept DEF CoordinatorInv

\* A dropped attachment is one pin less on each of its nodes.
LEMMA DetachCounts ==
    ASSUME WorkersTyped, NEW p \in Procs, NEW h \in Handles, Attached(p, h),
           local_attachments' = [local_attachments EXCEPT ![p] = Without(@, h)]
    PROVE  \A i : /\ i \in DOMAIN Attachment(p, h).spans =>
                       Cardinality(Pins(i))' = Cardinality(Pins(i)) - 1 /\ <<p, h>> \in Pins(i)
                  /\ i \notin DOMAIN Attachment(p, h).spans => Pins(i)' = Pins(i)
                  /\ Pins(i)' = Pins(i) \ {<<p, h>>}
  <1>1. /\ \A q \in Procs : \A k : Attached(q, k)' <=> Attached(q, k) /\ (q # p \/ k # h)
        /\ \A q \in Procs : \A k : Attached(q, k)' => Attachment(q, k)' = Attachment(q, k)
    BY DetachView
  <1>2. \A i : Pins(i)' = Pins(i) \ {<<p, h>>}
    BY ONLY <1>1, SMTT(30) DEF Pins
  <1>3. \A i : <<p, h>> \in Pins(i) <=> i \in DOMAIN Attachment(p, h).spans
    BY DEF Pins
  <1>4. ASSUME NEW i, i \in DOMAIN Attachment(p, h).spans
        PROVE  Cardinality(Pins(i))' = Cardinality(Pins(i)) - 1
    <2>1. Cardinality(Pins(i) \ {<<p, h>>}) = Cardinality(Pins(i)) - 1
      BY <1>3, <1>4, CountersFinite, CountRemove
    <2> QED
      BY <1>2, <2>1
  <1>5. ASSUME NEW i, i \notin DOMAIN Attachment(p, h).spans
        PROVE  Pins(i)' = Pins(i)
    <2>1. <<p, h>> \notin Pins(i)
      BY <1>3, <1>5
    <2> QED
      BY <1>2, <2>1
  <1> QED
    BY <1>2, <1>3, <1>4, <1>5

\* ReleaseAttachment with no load pending: the pin becomes a release under way.
LEMMA ReleaseStep ==
    ASSUME CoordinatorInv, NEW t \in Threads, NEW h \in Handles, call[t] = Ready, Attached(t[1], h),
           Attachment(t[1], h).pending = 0,
           local_attachments' = [local_attachments EXCEPT ![t[1]] = Without(@, h)],
           call' = [call EXCEPT ![t] = [op |-> "release", spans |-> Attachment(t[1], h).spans]],
           UNCHANGED <<index, loads, mutex_dead, kills>>
    PROVE  CoordinatorInv' /\ Resident' = Resident
  <1> DEFINE p == t[1]
             c == [op |-> "release", spans |-> Attachment(p, h).spans]
  <1>0. /\ IndexTyped /\ WorkersTyped /\ SpansStay /\ LoadsCounted /\ RefsExact /\ IndexExact
        /\ p \in Procs /\ loads \in [Procs -> [Handles -> Nat]]
    BY DEF CoordinatorInv, Threads, WorkersTyped
  <1>1. /\ Attachment(p, h).spans \in SpanSets /\ loads[p][h] \in Nat /\ Cardinality(Beginning(p, h)) \in Nat
        /\ Attachment(p, h).pending = loads[p][h] + Cardinality(Beginning(p, h))
    BY <1>0, AttachmentFacts
  <1>2. loads[p][h] = 0 /\ Cardinality(Beginning(p, h)) = 0
    BY <1>1, SMTT(30)
  <1>3. Beginning(p, h) = {}
    BY <1>2, BeginningFinite, FS_EmptySet
  <1>4. /\ DOMAIN local_attachments' = Procs
        /\ \A q \in Procs : \A k : Attached(q, k)' <=> Attached(q, k) /\ (q # p \/ k # h)
        /\ \A q \in Procs : \A k : Attached(q, k)' => Attachment(q, k)' = Attachment(q, k)
    BY <1>0, DetachView
  <1>5. \A i : /\ i \in DOMAIN Attachment(p, h).spans => Cardinality(Pins(i))' = Cardinality(Pins(i)) - 1
               /\ i \notin DOMAIN Attachment(p, h).spans => Pins(i)' = Pins(i)
               /\ Pins(i)' = Pins(i) \ {<<p, h>>}
    BY <1>0, DetachCounts
  <1>6. /\ c.op = "release" /\ c.spans = Attachment(p, h).spans /\ c \in [op : {"release"}, spans : SpanSets]
        /\ Ready.op = "ready"
    BY <1>1 DEF Ready
  <1>7. call' = [call EXCEPT ![t] = c]
    OBVIOUS
  <1> HIDE DEF c
  <1>8. /\ DOMAIN call' = Threads /\ call'[t] = c
        /\ \A s \in Threads : s # t => call'[s] = call[s]
        /\ \A i : Cardinality(Unpinning(i))'
                    = Cardinality(Unpinning(i)) + One(Unpins(c, i)) - One(Unpins(call[t], i))
        /\ \A i : Cardinality(Unloading(i))'
                    = Cardinality(Unloading(i)) + One(Unloads(c, i)) - One(Unloads(call[t], i))
    BY <1>0, <1>7, CallCounts
  <1>9. \A q, k : Beginning(q, k)' = Beginning(q, k)
    BY <1>6, <1>8 DEF Beginning
  <1>10. WorkersTyped'
    <2>1. \A q \in Procs : \A k : Attached(q, k)' => k \in Handles /\ Attachment(q, k)' \in Attachments
      BY ONLY <1>0, <1>4, AttachmentFacts, SMTT(30)
    <2> QED
      BY <1>0, <1>4, <1>6, <1>8, <2>1, WorkersTypedBy
  <1>11. LoadsCounted'
    <2>1. \A q \in Procs : \A k : Attached(q, k)' =>
              /\ Attachment(q, k)'.pending = loads'[q][k] + Cardinality(Beginning(q, k))'
              /\ Attachment(q, k)'.pending <= MaxLoads
      <3>1. loads' = loads
        OBVIOUS
      <3> QED
        BY ONLY <1>0, <1>4, <1>9, <3>1, AttachmentFacts, SMTT(30)
    <2>2. \A q \in Procs, k \in Handles : ~Attached(q, k)' => loads'[q][k] = 0
      BY <1>0, <1>2, <1>4 DEF LoadsCounted
    <2>3. ASSUME NEW s \in Threads, call'[s].op = "begin"
          PROVE  \E k : /\ k = call'[s].handle /\ Attached(s[1], k)'
                        /\ call'[s].spans = Attachment(s[1], k)'.spans
      <3>1. s # t /\ call'[s] = call[s] /\ s[1] \in Procs
        BY <1>6, <1>8, <2>3 DEF Threads
      <3>2. Attached(s[1], call[s].handle) /\ call[s].spans = Attachment(s[1], call[s].handle).spans
        BY <1>0, <2>3, <3>1 DEF LoadsCounted
      <3>3. ~(s[1] = p /\ call[s].handle = h)
        BY <1>3, <2>3, <3>1 DEF Beginning
      <3> QED
        BY <1>4, <3>1, <3>2, <3>3
    <2> QED
      BY <2>1, <2>2, <2>3, LoadsCountedBy
  <1>12. SpansStay'
    <2>1. \A i \in Resident : i \in Resident' /\ nodes'[i].pages = nodes[i].pages
      BY DEF Resident, index
    <2>2. \A s \in Threads : call'[s] # Ready =>
              \/ call[s] # Ready /\ call'[s].spans = call[s].spans
              \/ \E k : Attached(s[1], k) /\ call'[s].spans = Attachment(s[1], k).spans
      BY <1>6, <1>8
    <2> QED
      BY <1>0, <1>4, <2>1, <2>2, SpansKept
  <1>13. RefsExact'
    <2>1. \A i : Loading(i)' = Loading(i)
      <3>1. loads' = loads
        OBVIOUS
      <3> QED
        BY ONLY <1>2, <1>5, <3>1, SMTT(30) DEF Loading
    <2>2. ASSUME NEW i \in Resident
          PROVE  /\ Cardinality(Pins(i))' + Cardinality(Unpinning(i))' = Cardinality(Pins(i)) + Cardinality(Unpinning(i))
                 /\ Cardinality(Loading(i))' + Cardinality(Unloading(i))'
                       = Cardinality(Loading(i)) + Cardinality(Unloading(i))
      <3>1. One(Unpins(call[t], i)) = 0 /\ One(Unloads(call[t], i)) = 0 /\ One(Unloads(c, i)) = 0
        BY <1>6 DEF One, Unpins, Unloads
      <3>2. One(Unpins(c, i)) = IF i \in DOMAIN Attachment(p, h).spans THEN 1 ELSE 0
        BY <1>6 DEF One, Unpins
      <3>3. /\ Cardinality(Pins(i)) \in Nat /\ Cardinality(Unpinning(i)) \in Nat
            /\ Cardinality(Loading(i)) \in Nat /\ Cardinality(Unloading(i)) \in Nat
        BY CountersFinite
      <3>4. Cardinality(Loading(i))' = Cardinality(Loading(i))
        BY <2>1
      <3> QED
        BY ONLY <1>5, <1>8, <3>1, <3>2, <3>3, <3>4, SMTT(30)
    <2>3. nodes' = nodes /\ Resident' = Resident
      BY DEF index, Resident
    <2> QED
      BY <1>0, <2>2, <2>3 DEF RefsExact
  <1> QED
    BY <1>0, <1>10, <1>11, <1>12, <1>13, IndexKept DEF CoordinatorInv

\* It gives back what the call was counted as, and no count goes below zero.
\* With the mutex dead the counts stay as they are.
LEMMA GiveBackStep ==
    ASSUME CoordinatorInv, NEW t \in Threads, NEW a \in Int, NEW b \in Int, GivesBack(t, a, b)
    PROVE  CoordinatorInv' /\ Resident' = Resident
  <1> DEFINE S == DOMAIN call[t].spans
  <1>0. /\ IndexTyped /\ WorkersTyped /\ SpansStay /\ LoadsCounted /\ RefsExact /\ IndexExact
        /\ DOMAIN local_attachments = Procs /\ loads \in [Procs -> [Handles -> Nat]]
        /\ mutex_dead \in BOOLEAN /\ kills \in Nat /\ (mutex_dead => kills > 0)
        /\ call' = [call EXCEPT ![t] = Ready] /\ a \in {-1, 0} /\ b \in {-1, 0}
        /\ UNCHANGED <<last_access_epoch, next_entry, page_refs, local_attachments, loads, mutex_dead, kills>>
    <2>1. kills \in 0 .. MaxKills
      BY DEF CoordinatorInv, WorkersTyped
    <2>2. kills \in Nat
      BY ONLY <2>1, BoundsNat, SMTT(30)
    <2>3. a \in {-1, 0} /\ b \in {-1, 0}
      BY DEF GivesBack
    <2> QED
      BY <2>2, <2>3 DEF CoordinatorInv, WorkersTyped, GivesBack
  <1>1. Ready.op = "ready" /\ call[t] # Ready /\ call[t].op # "begin"
    BY SMTT(30) DEF Ready, GivesBack
  <1>2. /\ DOMAIN call' = Threads /\ call'[t] = Ready
        /\ \A s \in Threads : s # t => call'[s] = call[s]
        /\ \A i : Cardinality(Unpinning(i))'
                    = Cardinality(Unpinning(i)) + One(Unpins(Ready, i)) - One(Unpins(call[t], i))
        /\ \A i : Cardinality(Unloading(i))'
                    = Cardinality(Unloading(i)) + One(Unloads(Ready, i)) - One(Unloads(call[t], i))
    BY <1>0, CallCounts
  <1>3. /\ \A q, k : Attached(q, k)' <=> Attached(q, k)
        /\ \A q, k : Attachment(q, k)' = Attachment(q, k)
    BY <1>0 DEF Attached, Attachment
  <1>4. \A q, k : Beginning(q, k)' = Beginning(q, k)
    BY <1>1, <1>2 DEF Beginning
  <1>5. \A i : Pins(i)' = Pins(i)
    BY <1>3 DEF Pins
  <1>6. \A i : Loading(i)' = Loading(i)
    BY <1>0, <1>5 DEF Loading
  <1>7. WorkersTyped'
    <2>1. \A q \in Procs : \A k : Attached(q, k)' => k \in Handles /\ Attachment(q, k)' \in Attachments
      BY <1>0, <1>3, AttachmentFacts
    <2> QED
      BY <1>0, <1>2, <2>1, WorkersTypedBy
  <1>8. LoadsCounted'
    <2>1. \A q \in Procs : \A k : Attached(q, k)' =>
              /\ Attachment(q, k)'.pending = loads'[q][k] + Cardinality(Beginning(q, k))'
              /\ Attachment(q, k)'.pending <= MaxLoads
      BY <1>0, <1>3, <1>4, AttachmentFacts
    <2>2. \A q \in Procs, k \in Handles : ~Attached(q, k)' => loads'[q][k] = 0
      BY <1>0, <1>3 DEF LoadsCounted
    <2>3. ASSUME NEW s \in Threads, call'[s].op = "begin"
          PROVE  \E k : /\ k = call'[s].handle /\ Attached(s[1], k)'
                        /\ call'[s].spans = Attachment(s[1], k)'.spans
      <3>1. call'[s] = call[s]
        BY <1>1, <1>2, <2>3
      <3> QED
        BY <1>0, <1>3, <2>3, <3>1 DEF LoadsCounted
    <2> QED
      BY <2>1, <2>2, <2>3, LoadsCountedBy
  <1>9. ASSUME NEW i \in Resident
        PROVE  /\ One(Unpins(Ready, i)) = 0 /\ One(Unloads(Ready, i)) = 0
               /\ i \in S => One(Unpins(call[t], i)) = 0 - a /\ One(Unloads(call[t], i)) = 0 - b
               /\ i \notin S => One(Unpins(call[t], i)) = 0 /\ One(Unloads(call[t], i)) = 0
    BY <1>1, SMTT(30) DEF One, Unpins, Unloads, GivesBack
  <1>10. \A i : /\ Cardinality(Pins(i)) \in Nat /\ Cardinality(Unpinning(i)) \in Nat
                /\ Cardinality(Loading(i)) \in Nat /\ Cardinality(Unloading(i)) \in Nat
    BY CountersFinite
  <1>11. ASSUME NEW i \in Resident
         PROVE  /\ i \in S => /\ Cardinality(Unpinning(i))' = Cardinality(Unpinning(i)) + a
                              /\ Cardinality(Unloading(i))' = Cardinality(Unloading(i)) + b
                /\ i \notin S => /\ Cardinality(Unpinning(i))' = Cardinality(Unpinning(i))
                                 /\ Cardinality(Unloading(i))' = Cardinality(Unloading(i))
                /\ Cardinality(Pins(i))' = Cardinality(Pins(i)) /\ Cardinality(Loading(i))' = Cardinality(Loading(i))
    BY ONLY <1>2, <1>5, <1>6, <1>9, <1>10, SMTT(30)
  <1> HIDE DEF S
  <1>12. \A s \in Threads : call'[s] # Ready =>
              \/ call[s] # Ready /\ call'[s].spans = call[s].spans
              \/ \E k : Attached(s[1], k) /\ call'[s].spans = Attachment(s[1], k).spans
    BY <1>2
  <1>13. CASE mutex_dead
    <2>1. nodes' = nodes /\ UNCHANGED index
      BY <1>0, <1>13 DEF index, GivesBack
    <2>2. IndexTyped' /\ IndexExact' /\ Resident' = Resident
      BY <1>0, <2>1, IndexKept
    <2>3. SpansStay'
      BY <1>0, <1>3, <1>12, <2>1, <2>2, SpansKept
    <2>4. RefsExact'
      <3>2. kills' # 0
        BY ONLY <1>0, <1>13, SMTT(30)
      <3>3. \A i \in Resident :
              /\ Cardinality(Pins(i))' + Cardinality(Unpinning(i))' \in Int
              /\ Cardinality(Loading(i))' + Cardinality(Unloading(i))' \in Int
              /\ Cardinality(Pins(i))' + Cardinality(Unpinning(i))' <= Cardinality(Pins(i)) + Cardinality(Unpinning(i))
              /\ Cardinality(Loading(i))' + Cardinality(Unloading(i))'
                    <= Cardinality(Loading(i)) + Cardinality(Unloading(i))
        BY ONLY <1>0, <1>10, <1>11, SMTT(30)
      <3> QED
        BY <1>0, <2>1, <3>2, <3>3, RefsLoosened
    <2> QED
      BY <1>7, <1>8, <2>2, <2>3, <2>4 DEF CoordinatorInv
  <1>14. CASE ~mutex_dead
    <2>1. nodes' = NodesAdding(S, a, b)
      BY <1>14 DEF S, GivesBack
    <2>2. ASSUME NEW i \in Resident, i \in S
          PROVE  nodes[i].active + a \in Nat /\ nodes[i].pending + b \in Nat
      <3>1. /\ nodes[i].active >= Cardinality(Pins(i)) + Cardinality(Unpinning(i))
            /\ nodes[i].pending >= Cardinality(Loading(i)) + Cardinality(Unloading(i))
        BY <1>0 DEF RefsExact
      <3>2. nodes[i].active \in Nat /\ nodes[i].pending \in Nat
        BY <1>0 DEF IndexTyped, Node
      <3>3. a # 0 => t \in Unpinning(i)
        BY <2>2 DEF Unpinning, S, GivesBack
      <3>4. b # 0 => t \in Unloading(i)
        BY <2>2 DEF Unloading, S, GivesBack
      <3>5. a # 0 => Cardinality(Unpinning(i)) > 0
        BY <3>3, CountersFinite, CountRemove
      <3>6. b # 0 => Cardinality(Unloading(i)) > 0
        BY <3>4, CountersFinite, CountRemove
      <3> QED
        BY ONLY <1>0, <1>10, <3>1, <3>2, <3>5, <3>6, SMTT(30)
    <2>3. last_access_epoch' \in [Resident -> 0 .. MaxNodes - 1]
      BY <1>0 DEF IndexTyped
    <2>4. /\ IndexTyped' /\ IndexExact' /\ Resident' = Resident
          /\ \A i \in Resident :
                /\ nodes'[i].pages = nodes[i].pages
                /\ i \in S => nodes'[i].active = nodes[i].active + a /\ nodes'[i].pending = nodes[i].pending + b
                /\ i \notin S => nodes'[i] = nodes[i]
      BY ONLY <1>0, <2>1, <2>2, <2>3, CountsChanged, SMTT(30)
    <2>5. SpansStay'
      BY <1>0, <1>3, <1>12, <2>4, SpansKept
    <2>6. \A i \in Resident : i \in S =>
              /\ nodes'[i].active = nodes[i].active + a /\ nodes'[i].pending = nodes[i].pending + b
              /\ Cardinality(Pins(i))' + Cardinality(Unpinning(i))' = Cardinality(Pins(i)) + Cardinality(Unpinning(i)) + a
              /\ Cardinality(Loading(i))' + Cardinality(Unloading(i))'
                    = Cardinality(Loading(i)) + Cardinality(Unloading(i)) + b
      BY ONLY <1>10, <1>11, <2>4, SMTT(30)
    <2>7. \A i \in Resident : i \notin S =>
              /\ nodes'[i].active = nodes[i].active /\ nodes'[i].pending = nodes[i].pending
              /\ Cardinality(Pins(i))' + Cardinality(Unpinning(i))' = Cardinality(Pins(i)) + Cardinality(Unpinning(i))
              /\ Cardinality(Loading(i))' + Cardinality(Unloading(i))'
                    = Cardinality(Loading(i)) + Cardinality(Unloading(i))
      BY <1>10, <1>11, <2>4
    <2>8. IndexTyped /\ RefsExact /\ kills' = kills /\ Resident' = Resident
      BY <1>0, <2>4
    <2>9. RefsExact'
      BY <2>6, <2>7, <2>8, RefsMoved
    <2> QED
      BY <1>7, <1>8, <2>4, <2>5, <2>9 DEF CoordinatorInv
  <1> QED
    BY <1>0, <1>13, <1>14

\* BeginAttachmentLoad, local section: the local count and the begun call.
LEMMA BeginStep ==
    ASSUME CoordinatorInv, NEW t \in Threads, NEW h \in Handles, BeginAttachmentLoad(t, h)
    PROVE  CoordinatorInv' /\ Resident' = Resident
  <1> DEFINE p == t[1]
             a == [Attachment(p, h) EXCEPT !.pending = @ + 1]
             c == [op |-> "begin", handle |-> h, spans |-> Attachment(p, h).spans]
  <1>0. /\ IndexTyped /\ WorkersTyped /\ SpansStay /\ LoadsCounted /\ RefsExact /\ IndexExact
        /\ p \in Procs /\ loads \in [Procs -> [Handles -> Nat]] /\ DOMAIN local_attachments = Procs
        /\ call[t] = Ready /\ Attached(p, h) /\ Attachment(p, h).pending < MaxLoads
        /\ call' = [call EXCEPT ![t] = c]
        /\ UNCHANGED <<index, loads, mutex_dead, kills>>
    BY DEF CoordinatorInv, Threads, WorkersTyped, BeginAttachmentLoad
  <1>1. /\ DOMAIN local_attachments' = Procs
        /\ \A q \in Procs : q # p => local_attachments'[q] = local_attachments[q]
        /\ DOMAIN local_attachments'[p] = DOMAIN local_attachments[p] /\ local_attachments'[p][h] = a
        /\ \A k \in DOMAIN local_attachments[p] : k # h => local_attachments'[p][k] = local_attachments[p][k]
    BY <1>0 DEF Attached, Attachment, BeginAttachmentLoad
  <1>2. /\ Attachment(p, h) \in Attachments /\ Attachment(p, h).spans \in SpanSets
        /\ Attachment(p, h).pending \in Nat /\ loads[p][h] \in Nat /\ Cardinality(Beginning(p, h)) \in Nat
        /\ Attachment(p, h).pending = loads[p][h] + Cardinality(Beginning(p, h))
    BY <1>0, AttachmentFacts
  <1>3. a \in Attachments /\ a.spans = Attachment(p, h).spans /\ a.pending = Attachment(p, h).pending + 1
    BY ONLY <1>2, SMTT(30) DEF Attachments
  <1>4. /\ c.op = "begin" /\ c.handle = h /\ c.spans = Attachment(p, h).spans
        /\ c \in [op : {"begin"}, handle : Handles, spans : SpanSets]
        /\ Ready.op = "ready"
    BY <1>2 DEF Ready
  <1> HIDE DEF a, c
  <1>5. /\ \A q \in Procs : \A k : Attached(q, k)' <=> Attached(q, k)
        /\ \A q \in Procs : \A k : (q # p \/ k # h) /\ Attached(q, k) => Attachment(q, k)' = Attachment(q, k)
        /\ Attachment(p, h)' = a
    BY <1>0, <1>1 DEF Attached, Attachment
  <1>6. \A q \in Procs : \A k : Attached(q, k) =>
          /\ Attachment(q, k)'.spans = Attachment(q, k).spans
          /\ Attachment(q, k)' \in Attachments /\ k \in Handles
    BY ONLY <1>0, <1>3, <1>5, AttachmentFacts, SMTT(30)
  <1>7. /\ DOMAIN call' = Threads /\ call'[t] = c
        /\ \A s \in Threads : s # t => call'[s] = call[s]
        /\ \A k : Cardinality(Beginning(p, k))'
                    = Cardinality(Beginning(p, k)) + One(Begins(c, k)) - One(Begins(call[t], k))
        /\ \A q, k : q # p => Beginning(q, k)' = Beginning(q, k)
    BY <1>0, CallCounts
  <1>8. WorkersTyped'
    <2>1. \A q \in Procs : \A k : Attached(q, k)' => k \in Handles /\ Attachment(q, k)' \in Attachments
      BY <1>5, <1>6
    <2>2. loads' \in [Procs -> [Handles -> Nat]]
      BY <1>0
    <2> QED
      BY <1>0, <1>1, <1>4, <1>7, <2>1, <2>2, WorkersTypedBy
  <1>9. LoadsCounted'
    <2>1. ASSUME NEW q \in Procs, NEW k, Attached(q, k)'
          PROVE  /\ Attachment(q, k)'.pending = loads'[q][k] + Cardinality(Beginning(q, k))'
                 /\ Attachment(q, k)'.pending <= MaxLoads
      <3>1. Attached(q, k)
        BY <1>5, <2>1
      <3>2. /\ Attachment(q, k).pending = loads[q][k] + Cardinality(Beginning(q, k))
            /\ Attachment(q, k).pending <= MaxLoads /\ loads'[q][k] = loads[q][k]
            /\ loads[q][k] \in Nat /\ Cardinality(Beginning(q, k)) \in Nat
        BY <1>0, <3>1, AttachmentFacts
      <3>3. CASE q # p
        BY <1>5, <1>7, <3>1, <3>2, <3>3
      <3>4. CASE q = p /\ k # h
        <4>1. One(Begins(c, k)) = 0 /\ One(Begins(call[t], k)) = 0
          BY <1>0, <1>4, <3>4 DEF One, Begins
        <4>2. Cardinality(Beginning(p, k))' = Cardinality(Beginning(p, k))
          BY ONLY <1>7, <3>2, <3>4, <4>1, SMTT(30)
        <4> QED
          BY <1>5, <3>1, <3>2, <3>4, <4>2
      <3>5. CASE q = p /\ k = h
        <4>1. One(Begins(c, h)) = 1 /\ One(Begins(call[t], h)) = 0
          BY <1>0, <1>4 DEF One, Begins
        <4>2. Cardinality(Beginning(p, h))' = Cardinality(Beginning(p, h)) + 1
          BY ONLY <1>2, <1>7, <4>1, SMTT(30)
        <4>3. Attachment(p, h)'.pending = loads[p][h] + Cardinality(Beginning(p, h))'
          BY ONLY <1>2, <1>3, <1>5, <4>2, SMTT(30)
        <4>4. Attachment(p, h)'.pending <= MaxLoads
          BY ONLY <1>0, <1>2, <1>3, <1>5, BoundsNat, SMTT(30)
        <4> QED
          BY <3>2, <3>5, <4>3, <4>4
      <3> QED
        BY <3>3, <3>4, <3>5
    <2>2. \A q \in Procs, k \in Handles : ~Attached(q, k)' => loads'[q][k] = 0
      BY <1>0, <1>5 DEF LoadsCounted
    <2>3. ASSUME NEW s \in Threads, call'[s].op = "begin"
          PROVE  \E k : /\ k = call'[s].handle /\ Attached(s[1], k)'
                        /\ call'[s].spans = Attachment(s[1], k)'.spans
      <3>1. CASE s = t
        <4>1. h = call'[s].handle /\ Attached(s[1], h)' /\ call'[s].spans = Attachment(s[1], h)'.spans
          BY <1>0, <1>3, <1>4, <1>5, <1>7, <3>1
        <4> QED
          BY <4>1
      <3>2. CASE s # t
        <4>1. call'[s] = call[s] /\ s[1] \in Procs
          BY <1>7, <3>2 DEF Threads
        <4>2. Attached(s[1], call[s].handle) /\ call[s].spans = Attachment(s[1], call[s].handle).spans
          BY <1>0, <2>3, <4>1 DEF LoadsCounted
        <4> QED
          BY <1>5, <1>6, <4>1, <4>2
      <3> QED
        BY <3>1, <3>2
    <2> QED
      BY <2>1, <2>2, <2>3, LoadsCountedBy
  <1>10. SpansStay'
    <2>1. \A i \in Resident : i \in Resident' /\ nodes'[i].pages = nodes[i].pages
      BY <1>0 DEF Resident, index
    <2>2. \A s \in Threads : call'[s] # Ready =>
              \/ call[s] # Ready /\ call'[s].spans = call[s].spans
              \/ \E k : Attached(s[1], k) /\ call'[s].spans = Attachment(s[1], k).spans
      BY ONLY <1>0, <1>4, <1>7, SMTT(30)
    <2> QED
      BY <1>0, <1>5, <1>6, <2>1, <2>2, SpansKept
  <1>11. RefsExact'
    <2>1. \A i : Pins(i)' = Pins(i)
      BY <1>5, <1>6 DEF Pins
    <2>2. \A i : Unpinning(i)' = Unpinning(i) /\ Unloading(i)' = Unloading(i)
      BY <1>0, <1>4, <1>7 DEF Unpinning, Unloading
    <2>3. \A i : Loading(i)' = Loading(i)
      BY <1>0, <2>1 DEF Loading
    <2>4. nodes' = nodes /\ Resident' = Resident /\ kills' = kills
      BY <1>0 DEF index, Resident
    <2> QED
      BY <1>0, <2>1, <2>2, <2>3, <2>4 DEF RefsExact
  <1> QED
    BY <1>0, <1>8, <1>9, <1>10, <1>11, IndexKept DEF CoordinatorInv

\* BeginAttachmentLoad, shared section: the begun call becomes a load and one
\* more pending reference on each node, or is taken back with the mutex dead.
LEMMA BeginSharedStep ==
    ASSUME CoordinatorInv, NEW t \in Threads, BeginAttachmentLoadShared(t)
    PROVE  CoordinatorInv' /\ Resident' = Resident
  <1> DEFINE p == t[1]
  <1>0. /\ IndexTyped /\ WorkersTyped /\ SpansStay /\ LoadsCounted /\ RefsExact /\ IndexExact
        /\ p \in Procs /\ loads \in [Procs -> [Handles -> Nat]] /\ DOMAIN local_attachments = Procs
        /\ mutex_dead \in BOOLEAN
        /\ call[t].op = "begin" /\ call' = [call EXCEPT ![t] = Ready]
        /\ UNCHANGED <<last_access_epoch, next_entry, page_refs, mutex_dead, kills>>
        /\ Ready.op = "ready" /\ call[t] # Ready
    BY SMTT(30) DEF CoordinatorInv, Threads, WorkersTyped, BeginAttachmentLoadShared, Ready
  <1>1. PICK h \in Handles : h = call[t].handle
    <2>1. call[t] \in [op : {"begin"}, handle : Handles, spans : SpanSets]
      BY <1>0 DEF WorkersTyped
    <2> QED
      BY <2>1
  <1>2. /\ mutex_dead => /\ local_attachments' = [local_attachments EXCEPT ![p][h].pending = @ - 1]
                         /\ UNCHANGED <<nodes, loads>>
        /\ ~mutex_dead => /\ nodes' = NodesAdding(DOMAIN call[t].spans, 0, 1)
                          /\ loads' = [loads EXCEPT ![p][h] = @ + 1]
                          /\ UNCHANGED local_attachments
    BY <1>1 DEF BeginAttachmentLoadShared
  <1>3. Attached(p, h) /\ call[t].spans = Attachment(p, h).spans
    BY <1>0, <1>1 DEF LoadsCounted
  <1>4. /\ Attachment(p, h) \in Attachments /\ Attachment(p, h).spans \in SpanSets
        /\ Attachment(p, h).pending \in Nat /\ loads[p][h] \in Nat /\ Cardinality(Beginning(p, h)) \in Nat
        /\ Attachment(p, h).pending = loads[p][h] + Cardinality(Beginning(p, h))
        /\ Attachment(p, h).pending <= MaxLoads
    BY <1>0, <1>3, AttachmentFacts
  <1>5. /\ DOMAIN call' = Threads /\ call'[t] = Ready
        /\ \A s \in Threads : s # t => call'[s] = call[s]
        /\ \A k : Cardinality(Beginning(p, k))'
                    = Cardinality(Beginning(p, k)) + One(Begins(Ready, k)) - One(Begins(call[t], k))
        /\ \A q, k : q # p => Beginning(q, k)' = Beginning(q, k)
    BY <1>0, CallCounts
  <1>6. Cardinality(Beginning(p, h)) > 0
    <2>1. t \in Beginning(p, h)
      BY <1>0, <1>1 DEF Beginning
    <2> QED
      BY <2>1, BeginningFinite, CountRemove
  <1>7. /\ Cardinality(Beginning(p, h))' = Cardinality(Beginning(p, h)) - 1
        /\ \A q, k : q # p \/ k # h => Cardinality(Beginning(q, k))' = Cardinality(Beginning(q, k))
    <2>1. One(Begins(Ready, h)) = 0 /\ One(Begins(call[t], h)) = 1
      BY <1>0, <1>1 DEF One, Begins
    <2>2. \A k : k # h => One(Begins(Ready, k)) = 0 /\ One(Begins(call[t], k)) = 0
      BY <1>0, <1>1 DEF One, Begins
    <2>3. \A k : Cardinality(Beginning(p, k)) \in Nat
      BY BeginningFinite
    <2>4. \A k : k # h => Cardinality(Beginning(p, k))' = Cardinality(Beginning(p, k))
      BY ONLY <1>5, <2>2, <2>3, SMTT(30)
    <2>5. \A q, k : q # p => Cardinality(Beginning(q, k))' = Cardinality(Beginning(q, k))
      BY <1>5
    <2> QED
      BY ONLY <1>5, <2>1, <2>3, <2>4, <2>5, SMTT(30)
  <1>8. \A i : Unpinning(i)' = Unpinning(i) /\ Unloading(i)' = Unloading(i)
    BY <1>0, <1>5 DEF Unpinning, Unloading
  <1>9. ASSUME NEW s \in Threads, call'[s].op = "begin",
               \A q \in Procs : \A k : Attached(q, k) =>
                  Attached(q, k)' /\ Attachment(q, k)'.spans = Attachment(q, k).spans
        PROVE  \E k : /\ k = call'[s].handle /\ Attached(s[1], k)'
                      /\ call'[s].spans = Attachment(s[1], k)'.spans
    <2>1. call'[s] = call[s] /\ s[1] \in Procs
      BY <1>0, <1>5, <1>9 DEF Threads
    <2>2. Attached(s[1], call[s].handle) /\ call[s].spans = Attachment(s[1], call[s].handle).spans
      BY <1>0, <1>9, <2>1 DEF LoadsCounted
    <2> QED
      BY <1>9, <2>1, <2>2
  <1>10. \A s \in Threads : call'[s] # Ready =>
              \/ call[s] # Ready /\ call'[s].spans = call[s].spans
              \/ \E k : Attached(s[1], k) /\ call'[s].spans = Attachment(s[1], k).spans
    BY <1>5
  <1>11. CASE mutex_dead
    <2> DEFINE a == [Attachment(p, h) EXCEPT !.pending = @ - 1]
    <2>1. /\ DOMAIN local_attachments' = Procs
          /\ \A q \in Procs : q # p => local_attachments'[q] = local_attachments[q]
          /\ DOMAIN local_attachments'[p] = DOMAIN local_attachments[p] /\ local_attachments'[p][h] = a
          /\ \A k \in DOMAIN local_attachments[p] : k # h => local_attachments'[p][k] = local_attachments[p][k]
      BY <1>0, <1>2, <1>3, <1>11 DEF Attached, Attachment
    <2>2. a \in Attachments /\ a.spans = Attachment(p, h).spans /\ a.pending = Attachment(p, h).pending - 1
      BY ONLY <1>4, <1>6, SMTT(30) DEF Attachments
    <2> HIDE DEF a
    <2>3. /\ \A q \in Procs : \A k : Attached(q, k)' <=> Attached(q, k)
          /\ \A q \in Procs : \A k : (q # p \/ k # h) /\ Attached(q, k) => Attachment(q, k)' = Attachment(q, k)
          /\ Attachment(p, h)' = a
      BY <1>0, <2>1 DEF Attached, Attachment
    <2>4. \A q \in Procs : \A k : Attached(q, k) =>
            /\ Attachment(q, k)'.spans = Attachment(q, k).spans
            /\ Attachment(q, k)' \in Attachments /\ k \in Handles
      BY ONLY <1>0, <2>2, <2>3, AttachmentFacts, SMTT(30)
    <2>5. nodes' = nodes /\ loads' = loads /\ UNCHANGED index
      BY <1>0, <1>2, <1>11 DEF index
    <2>6. WorkersTyped'
      <3>1. \A q \in Procs : \A k : Attached(q, k)' => k \in Handles /\ Attachment(q, k)' \in Attachments
        BY <2>3, <2>4
      <3>2. loads' \in [Procs -> [Handles -> Nat]]
        BY <1>0, <2>5
      <3> QED
        BY <1>0, <1>5, <2>1, <3>1, <3>2, WorkersTypedBy
    <2>7. LoadsCounted'
      <3>1. ASSUME NEW q \in Procs, NEW k, Attached(q, k)'
            PROVE  /\ Attachment(q, k)'.pending = loads'[q][k] + Cardinality(Beginning(q, k))'
                   /\ Attachment(q, k)'.pending <= MaxLoads
        <4>1. /\ Attachment(q, k).pending = loads[q][k] + Cardinality(Beginning(q, k))
              /\ Attachment(q, k).pending <= MaxLoads
          BY <1>0, <2>3, <3>1, AttachmentFacts
        <4>2. CASE q # p \/ k # h
          BY <1>7, <2>3, <2>5, <3>1, <4>1, <4>2
        <4>3. CASE q = p /\ k = h
          <5> DEFINE x == loads[p][h]
                     y == Cardinality(Beginning(p, h))
          <5>0. (x + y) - 1 = x + (y - 1) /\ (x + y) - 1 <= MaxLoads
            <6>1. x \in Nat /\ y \in Nat /\ MaxLoads \in Nat /\ x + y <= MaxLoads
              BY <1>4, CoordinatorAssumption
            <6> HIDE DEF x, y
            <6> QED
              BY <6>1, OneLess
          <5>1. Attachment(p, h)'.pending = loads[p][h] + Cardinality(Beginning(p, h))'
            BY <1>4, <1>7, <2>2, <2>3, <5>0
          <5>2. Attachment(p, h)'.pending <= MaxLoads
            BY <1>4, <2>2, <2>3, <5>0
          <5> QED
            BY <2>5, <4>3, <5>1, <5>2
        <4> QED
          BY <4>2, <4>3
      <3>2. \A q \in Procs, k \in Handles : ~Attached(q, k)' => loads'[q][k] = 0
        BY <1>0, <2>3, <2>5 DEF LoadsCounted
      <3>3. \A q \in Procs : \A k : Attached(q, k) => Attached(q, k)' /\ Attachment(q, k)'.spans = Attachment(q, k).spans
        BY <2>3, <2>4
      <3> QED
        BY <1>9, <3>1, <3>2, <3>3, LoadsCountedBy
    <2>8. \A i \in Resident : i \in Resident' /\ nodes'[i].pages = nodes[i].pages
      BY <2>5 DEF Resident
    <2>9. SpansStay'
      BY <1>0, <1>10, <2>3, <2>4, <2>8, SpansKept
    <2>10. RefsExact'
      <3>1. \A i : Pins(i)' = Pins(i)
        BY <2>3, <2>4 DEF Pins
      <3>2. \A i : Loading(i)' = Loading(i)
        BY <2>5, <3>1 DEF Loading
      <3>3. Resident' = Resident /\ kills' = kills
        BY <1>0, <2>5 DEF Resident
      <3> QED
        BY <1>0, <1>8, <2>5, <3>1, <3>2, <3>3 DEF RefsExact
    <2> QED
      BY <1>0, <2>5, <2>6, <2>7, <2>9, <2>10, IndexKept DEF CoordinatorInv
  <1>12. CASE ~mutex_dead
    <2> DEFINE S == DOMAIN call[t].spans
               n == loads[p][h]
    <2>1. /\ \A q, k : Attached(q, k)' <=> Attached(q, k)
          /\ \A q, k : Attachment(q, k)' = Attachment(q, k)
          /\ DOMAIN local_attachments' = Procs
      BY <1>0, <1>2, <1>12 DEF Attached, Attachment
    <2>2. /\ loads' \in [Procs -> [Handles -> Nat]] /\ loads'[p][h] = n + 1
          /\ \A q \in Procs, k \in Handles : q # p \/ k # h => loads'[q][k] = loads[q][k]
      <3>1. loads' = [loads EXCEPT ![p][h] = n + 1] /\ n + 1 \in Nat
        BY ONLY <1>0, <1>2, <1>12, SMTT(30)
      <3> HIDE DEF n
      <3>2. loads'[p] = [loads[p] EXCEPT ![h] = n + 1] /\ \A q \in Procs : q # p => loads'[q] = loads[q]
        BY <1>0, <3>1
      <3>3. loads[p] \in [Handles -> Nat]
        BY <1>0
      <3>4. loads'[p] \in [Handles -> Nat] /\ loads'[p][h] = n + 1 /\ \A k \in Handles : k # h => loads'[p][k] = loads[p][k]
        BY ONLY <3>1, <3>2, <3>3, SMTT(30)
      <3> QED
        BY <1>0, <3>1, <3>2, <3>4
    <2>3. nodes' = NodesAdding(S, 0, 1)
      BY <1>2, <1>12
    <2>4. n \in Nat /\ n + 1 <= MaxLoads
      BY ONLY <1>4, <1>6, BoundsNat, SMTT(30)
    <2>5. S = DOMAIN Attachment(p, h).spans
      BY <1>3
    <2> HIDE DEF S, n
    <2>6. WorkersTyped'
      <3>1. \A q \in Procs : \A k : Attached(q, k)' => k \in Handles /\ Attachment(q, k)' \in Attachments
        BY <1>0, <2>1, AttachmentFacts
      <3> QED
        BY <1>0, <1>5, <2>1, <2>2, <3>1, WorkersTypedBy
    <2>7. LoadsCounted'
      <3>1. ASSUME NEW q \in Procs, NEW k, Attached(q, k)'
            PROVE  /\ Attachment(q, k)'.pending = loads'[q][k] + Cardinality(Beginning(q, k))'
                   /\ Attachment(q, k)'.pending <= MaxLoads
        <4>1. /\ Attachment(q, k).pending = loads[q][k] + Cardinality(Beginning(q, k))
              /\ Attachment(q, k).pending <= MaxLoads /\ k \in Handles
          BY <1>0, <2>1, <3>1, AttachmentFacts
        <4>2. CASE q # p \/ k # h
          BY <1>7, <2>1, <2>2, <3>1, <4>1, <4>2
        <4>3. CASE q = p /\ k = h
          <5>1. Attachment(p, h).pending = (n + 1) + (Cardinality(Beginning(p, h)) - 1)
            BY ONLY <1>4, <2>4, SMTT(30) DEF n
          <5> QED
            BY <1>7, <2>1, <2>2, <4>1, <4>3, <5>1
        <4> QED
          BY <4>2, <4>3
      <3>2. \A q \in Procs, k \in Handles : ~Attached(q, k)' => loads'[q][k] = 0
        BY ONLY <1>0, <1>3, <2>1, <2>2, SMTT(30) DEF LoadsCounted
      <3> QED
        BY <1>9, <2>1, <3>1, <3>2, LoadsCountedBy
    <2>8. /\ IndexTyped' /\ IndexExact' /\ Resident' = Resident
          /\ \A i \in Resident :
                /\ nodes'[i].pages = nodes[i].pages
                /\ i \in S => nodes'[i].active = nodes[i].active + 0 /\ nodes'[i].pending = nodes[i].pending + 1
                /\ i \notin S => nodes'[i] = nodes[i]
      <3>1. \A i \in Resident : nodes[i].active + 0 \in Nat /\ nodes[i].pending + 1 \in Nat
        BY ONLY <1>0, SMTT(30) DEF IndexTyped, Node
      <3>2. last_access_epoch' \in [Resident -> 0 .. MaxNodes - 1] /\ UNCHANGED <<next_entry, page_refs>>
        BY <1>0 DEF IndexTyped
      <3> QED
        BY ONLY <1>0, <2>3, <3>1, <3>2, CountsChanged, SMTT(30)
    <2>9. SpansStay'
      BY <1>0, <1>10, <2>1, <2>8, SpansKept
    <2>10. \A i : Pins(i)' = Pins(i)
      BY <2>1 DEF Pins
    <2>11. ASSUME NEW i \in Resident
           PROVE  /\ i \in S => Cardinality(Loading(i))' = Cardinality(Loading(i)) + 1
                  /\ i \notin S => Loading(i)' = Loading(i)
      <3> DEFINE x == <<<<p, h>>, n + 1>>
      <3>1. <<p, h>> \in Pins(i) <=> i \in S
        BY <1>0, <1>3, <2>5 DEF Pins
      <3>2. Pins(i) \subseteq Procs \X Handles
        BY DEF Pins
      <3>3. \A y : y # x => (y \in Loading(i) <=> y \in Loading(i)')
        <4>1. ASSUME NEW a \in Procs \X Handles, NEW m \in 1 .. MaxLoads, <<a, m>> # x
              PROVE  m <= loads'[a[1]][a[2]] <=> m <= loads[a[1]][a[2]]
          <5>1. CASE a = <<p, h>>
            <6>1. m # n + 1
              BY <4>1, <5>1
            <6>2. loads'[a[1]][a[2]] = n + 1 /\ loads[a[1]][a[2]] = n
              BY <2>2, <5>1 DEF n
            <6> QED
              BY ONLY <2>4, <6>1, <6>2, SMTT(30)
          <5>2. CASE a # <<p, h>>
            BY ONLY <2>2, <5>2, SMTT(30)
          <5> QED
            BY <5>1, <5>2
        <4> QED
          BY ONLY <2>10, <3>2, <4>1, SMTT(30) DEF Loading
      <3>4. x \notin Loading(i)
        BY ONLY <2>4, SMTT(30) DEF Loading, n
      <3>5. x \in Loading(i)' <=> i \in S
        <4>1. n + 1 \in 1 .. MaxLoads /\ n + 1 <= loads'[p][h]
          BY ONLY <2>2, <2>4, BoundsNat, SMTT(30)
        <4>2. x[1] = <<p, h>> /\ x[2] = n + 1 /\ x[1][1] = p /\ x[1][2] = h
          OBVIOUS
        <4>3. x \in Pins(i) \X (1 .. MaxLoads) <=> i \in S
          BY <3>1, <4>1
        <4>4. x \in Loading(i)' <=> x \in Pins(i) \X (1 .. MaxLoads) /\ x[2] <= loads'[x[1][1]][x[1][2]]
          BY <2>10 DEF Loading
        <4> QED
          BY <4>1, <4>2, <4>3, <4>4
      <3> HIDE DEF x
      <3>6. Cardinality(Loading(i)') = Cardinality(Loading(i)) + One(x \in Loading(i)') - One(x \in Loading(i))
            /\ Cardinality(Loading(i)) \in Nat
        BY <3>3, CountersFinite, Toggled
      <3>7. i \in S => Cardinality(Loading(i))' = Cardinality(Loading(i)) + 1
        BY ONLY <3>4, <3>5, <3>6, SMTT(30) DEF One
      <3>8. i \notin S => Loading(i)' = Loading(i)
        BY ONLY <3>3, <3>4, <3>5, SMTT(30)
      <3> QED
        BY <3>7, <3>8
    <2>12. RefsExact'
      <3>1. \A i : /\ Cardinality(Pins(i)) \in Nat /\ Cardinality(Unpinning(i)) \in Nat
                   /\ Cardinality(Loading(i)) \in Nat /\ Cardinality(Unloading(i)) \in Nat
        BY CountersFinite
      <3>2. \A i \in Resident : i \in S =>
              /\ nodes'[i].active = nodes[i].active + 0 /\ nodes'[i].pending = nodes[i].pending + 1
              /\ Cardinality(Pins(i))' + Cardinality(Unpinning(i))' = Cardinality(Pins(i)) + Cardinality(Unpinning(i)) + 0
              /\ Cardinality(Loading(i))' + Cardinality(Unloading(i))'
                    = Cardinality(Loading(i)) + Cardinality(Unloading(i)) + 1
        BY ONLY <1>8, <2>8, <2>10, <2>11, <3>1, SMTT(30)
      <3>3. \A i \in Resident : i \notin S =>
              /\ nodes'[i].active = nodes[i].active /\ nodes'[i].pending = nodes[i].pending
              /\ Cardinality(Pins(i))' + Cardinality(Unpinning(i))' = Cardinality(Pins(i)) + Cardinality(Unpinning(i))
              /\ Cardinality(Loading(i))' + Cardinality(Unloading(i))'
                    = Cardinality(Loading(i)) + Cardinality(Unloading(i))
        BY <1>8, <2>8, <2>10, <2>11
      <3>4. IndexTyped /\ RefsExact /\ kills' = kills /\ Resident' = Resident
        BY <1>0, <2>8
      <3> QED
        BY ONLY <3>2, <3>3, <3>4, RefsMoved, SMTT(30)
    <2> QED
      BY <2>6, <2>7, <2>8, <2>9, <2>12 DEF CoordinatorInv
  <1> QED
    BY <1>0, <1>11, <1>12

\* A load that ends leaves one load less on each node of its attachment, also
\* when the attachment goes with its last load.
LEMMA LoadEnded ==
    ASSUME NEW p \in Procs, NEW h \in Handles, Attached(p, h), NEW n \in Nat, n > 0, n <= MaxLoads, NEW i,
           loads \in [Procs -> [Handles -> Nat]], loads[p][h] = n, loads'[p][h] = n - 1,
           \A q \in Procs, k \in Handles : q # p \/ k # h => loads'[q][k] = loads[q][k],
           Pins(i)' = Pins(i) \/ (Pins(i)' = Pins(i) \ {<<p, h>>} /\ n = 1)
    PROVE  /\ i \in DOMAIN Attachment(p, h).spans => Cardinality(Loading(i))' = Cardinality(Loading(i)) - 1
           /\ i \notin DOMAIN Attachment(p, h).spans => Cardinality(Loading(i))' = Cardinality(Loading(i))
  <1> DEFINE x == <<<<p, h>>, n>>
  <1>1. <<p, h>> \in Pins(i) <=> i \in DOMAIN Attachment(p, h).spans
    BY DEF Pins
  <1>2. Pins(i) \subseteq Procs \X Handles /\ n \in 1 .. MaxLoads
    <2>1. n \in 1 .. MaxLoads
      BY ONLY BoundsNat, n \in Nat, n > 0, n <= MaxLoads, SMTT(30)
    <2> QED
      BY <2>1 DEF Pins
  <1>3. x[1] = <<p, h>> /\ x[2] = n /\ x[1][1] = p /\ x[1][2] = h
    OBVIOUS
  <1>4. /\ \A a, m : <<a, m>> \in Loading(i) <=> a \in Pins(i) /\ m \in 1 .. MaxLoads /\ m <= loads[a[1]][a[2]]
        /\ \A a, m : <<a, m>> \in Loading(i)' <=> a \in Pins(i)' /\ m \in 1 .. MaxLoads /\ m <= loads'[a[1]][a[2]]
    BY DEF Loading
  <1>5. ASSUME NEW a, NEW m, <<a, m>> # x
        PROVE  <<a, m>> \in Loading(i) <=> <<a, m>> \in Loading(i)'
    <2>1. CASE a = <<p, h>>
      <3>1. m # n /\ loads[a[1]][a[2]] = n /\ loads'[a[1]][a[2]] = n - 1
        BY <1>5, <2>1
      <3>2. m \in 1 .. MaxLoads => (m <= n <=> m <= n - 1)
        BY ONLY <3>1, SMTT(30)
      <3>3. m \in 1 .. MaxLoads /\ n = 1 => ~(m <= n)
        BY ONLY <3>1, SMTT(30)
      <3> QED
        BY <1>4, <2>1, <3>1, <3>2, <3>3
    <2>2. CASE a # <<p, h>>
      <3>1. a \in Pins(i) <=> a \in Pins(i)'
        BY <2>2
      <3>2. a \in Pins(i) => loads'[a[1]][a[2]] = loads[a[1]][a[2]]
        BY <1>2, <2>2, SMTT(30)
      <3> QED
        BY <1>4, <3>1, <3>2
    <2> QED
      BY <2>1, <2>2
  <1>6. \A y : y # x => (y \in Loading(i) <=> y \in Loading(i)')
    <2>1. \A y : y \in Loading(i) \/ y \in Loading(i)' => y = <<y[1], y[2]>>
      BY ONLY SMTT(30) DEF Loading
    <2> HIDE DEF x
    <2> QED
      BY ONLY <1>5, <2>1, SMTT(30)
  <1>7. x \notin Loading(i)'
    <2>1. ~(n <= n - 1)
      BY ONLY n \in Nat, SMTT(30)
    <2>2. ~(n <= loads'[<<p, h>>[1]][<<p, h>>[2]])
      BY <2>1
    <2> QED
      BY <1>4, <2>2
  <1>8. x \in Loading(i) <=> i \in DOMAIN Attachment(p, h).spans
    <2>1. n <= n
      BY ONLY n \in Nat, SMTT(30)
    <2>2. n <= loads[<<p, h>>[1]][<<p, h>>[2]]
      BY <2>1
    <2> QED
      BY <1>1, <1>2, <1>4, <2>2
  <1> HIDE DEF x
  <1>9. Cardinality(Loading(i)') = Cardinality(Loading(i)) + One(x \in Loading(i)') - One(x \in Loading(i))
        /\ Cardinality(Loading(i)) \in Nat
    BY <1>6, CountersFinite, Toggled
  <1> QED
    BY ONLY <1>7, <1>8, <1>9, SMTT(30) DEF One

\* EndAttachmentLoad, local section: the load becomes the end of a load under
\* way, and a deferred release goes along with the last one.
LEMMA EndStep ==
    ASSUME CoordinatorInv, NEW t \in Threads, NEW h \in Handles, EndAttachmentLoad(t, h)
    PROVE  CoordinatorInv' /\ Resident' = Resident
  <1> DEFINE p == t[1]
             a == [Attachment(p, h) EXCEPT !.pending = Attachment(p, h).pending - 1]
             fin == Attachment(p, h).release_requested /\ Attachment(p, h).pending = 1
             c == [op |-> "end", spans |-> Attachment(p, h).spans, finalize |-> fin]
             n == loads[p][h]
             S == DOMAIN Attachment(p, h).spans
  <1>0. /\ IndexTyped /\ WorkersTyped /\ SpansStay /\ LoadsCounted /\ RefsExact /\ IndexExact
        /\ p \in Procs /\ loads \in [Procs -> [Handles -> Nat]] /\ DOMAIN local_attachments = Procs
        /\ call[t] = Ready /\ Attached(p, h) /\ n > 0 /\ Attachment(p, h).pending > 0
        /\ call' = [call EXCEPT ![t] = c]
        /\ loads' = [loads EXCEPT ![p][h] = n - 1]
        /\ UNCHANGED <<index, mutex_dead, kills>>
    BY DEF CoordinatorInv, Threads, WorkersTyped, EndAttachmentLoad
  <1>1. /\ fin => local_attachments' = [local_attachments EXCEPT ![p] = Without(@, h)]
        /\ ~fin => local_attachments' = [local_attachments EXCEPT ![p] =
                                            [@ EXCEPT ![h].pending = Attachment(p, h).pending - 1]]
    BY DEF EndAttachmentLoad
  <1>2. /\ Attachment(p, h) \in Attachments /\ Attachment(p, h).spans \in SpanSets
        /\ Attachment(p, h).pending \in Nat /\ n \in Nat /\ Cardinality(Beginning(p, h)) \in Nat
        /\ Attachment(p, h).pending = n + Cardinality(Beginning(p, h))
        /\ Attachment(p, h).pending <= MaxLoads
    BY <1>0, AttachmentFacts
  <1>3. n <= MaxLoads /\ n - 1 \in Nat /\ fin \in BOOLEAN
    <2>1. MaxLoads \in Nat /\ n > 0
      BY <1>0, CoordinatorAssumption
    <2>2. fin \in BOOLEAN
      OBVIOUS
    <2> DEFINE y == Cardinality(Beginning(p, h))
    <2>3. y \in Nat /\ n \in Nat /\ n + y <= MaxLoads
      BY <1>2
    <2> HIDE DEF n, fin, y
    <2>4. n <= MaxLoads /\ n - 1 \in Nat
      BY <2>1, <2>3, OneLess
    <2> QED
      BY <2>2, <2>4
  <1>4. /\ a \in Attachments /\ a.spans = Attachment(p, h).spans /\ a.pending = Attachment(p, h).pending - 1
    BY ONLY <1>0, <1>2, SMTT(30) DEF Attachments
  <1>5. /\ c.op = "end" /\ c.spans = Attachment(p, h).spans /\ c.finalize = fin
        /\ c \in [op : {"end"}, spans : SpanSets, finalize : BOOLEAN]
        /\ Ready.op = "ready"
    BY <1>2, <1>3 DEF Ready
  <1>6. fin => n = 1 /\ Beginning(p, h) = {}
    <2>0. fin => Attachment(p, h).pending = 1
      OBVIOUS
    <2> DEFINE y == Cardinality(Beginning(p, h))
    <2> HIDE DEF n, fin
    <2>1. n \in Nat /\ n > 0 /\ y \in Nat /\ (fin => n + y = 1)
      BY <1>0, <1>2, <2>0
    <2> HIDE DEF y
    <2>2. fin => n = 1 /\ y = 0
      BY ONLY <2>1, SMTT(30)
    <2> QED
      BY <2>2, BeginningFinite, FS_EmptySet DEF y
  <1> HIDE DEF a, c, n
  <1>7. /\ loads' \in [Procs -> [Handles -> Nat]] /\ loads'[p][h] = n - 1
        /\ \A q \in Procs, k \in Handles : q # p \/ k # h => loads'[q][k] = loads[q][k]
    <2>0. loads' = [loads EXCEPT ![p][h] = n - 1] /\ loads \in [Procs -> [Handles -> Nat]] /\ p \in Procs
      BY <1>0
    <2>1. loads'[p] = [loads[p] EXCEPT ![h] = n - 1] /\ \A q \in Procs : q # p => loads'[q] = loads[q]
      BY <2>0
    <2>2. loads[p] \in [Handles -> Nat]
      BY <1>0
    <2>3. /\ loads'[p] \in [Handles -> Nat] /\ loads'[p][h] = n - 1
          /\ \A k \in Handles : k # h => loads'[p][k] = loads[p][k]
      BY <1>3, <2>1, <2>2
    <2> QED
      BY <1>0, <2>1, <2>3
  <1>8. /\ DOMAIN call' = Threads /\ call'[t] = c
        /\ \A s \in Threads : s # t => call'[s] = call[s]
        /\ \A i : Cardinality(Unpinning(i))'
                    = Cardinality(Unpinning(i)) + One(Unpins(c, i)) - One(Unpins(call[t], i))
        /\ \A i : Cardinality(Unloading(i))'
                    = Cardinality(Unloading(i)) + One(Unloads(c, i)) - One(Unloads(call[t], i))
    BY <1>0, CallCounts
  <1>9. \A q, k : Beginning(q, k)' = Beginning(q, k)
    BY <1>0, <1>5, <1>8 DEF Beginning
  <1> HIDE DEF fin
  <1>10. /\ DOMAIN local_attachments' = Procs
         /\ \A q \in Procs : \A k : Attached(q, k)' <=> Attached(q, k) /\ (q # p \/ k # h \/ ~fin)
         /\ \A q \in Procs : \A k : (q # p \/ k # h) /\ Attached(q, k) => Attachment(q, k)' = Attachment(q, k)
         /\ ~fin => Attachment(p, h)' = a
    <2>1. CASE fin
      <3>1. local_attachments' = [local_attachments EXCEPT ![p] = Without(@, h)]
        BY <1>1, <2>1
      <3>2. /\ DOMAIN local_attachments' = Procs
            /\ \A q \in Procs : \A k : Attached(q, k)' <=> Attached(q, k) /\ (q # p \/ k # h)
            /\ \A q \in Procs : \A k : Attached(q, k)' => Attachment(q, k)' = Attachment(q, k)
        BY <1>0, <3>1, DetachView
      <3> QED
        BY <2>1, <3>2
    <2>2. CASE ~fin
      <3>1. /\ DOMAIN local_attachments' = Procs
            /\ \A q \in Procs : q # p => local_attachments'[q] = local_attachments[q]
            /\ DOMAIN local_attachments'[p] = DOMAIN local_attachments[p] /\ local_attachments'[p][h] = a
            /\ \A k \in DOMAIN local_attachments[p] : k # h => local_attachments'[p][k] = local_attachments[p][k]
        BY <1>0, <1>1, <2>2 DEF Attached, Attachment, a
      <3> QED
        BY <1>0, <2>2, <3>1 DEF Attached, Attachment
    <2> QED
      BY <2>1, <2>2
  <1>11. \A q \in Procs : \A k : Attached(q, k)' =>
           /\ Attached(q, k) /\ Attachment(q, k)'.spans = Attachment(q, k).spans
           /\ Attachment(q, k)' \in Attachments /\ k \in Handles
    <2>1. \A q \in Procs : \A k : Attached(q, k) => Attachment(q, k) \in Attachments /\ k \in Handles
      BY <1>0, AttachmentFacts
    <2> QED
      BY <1>4, <1>10, <2>1
  <1>12. WorkersTyped'
    BY <1>0, <1>5, <1>7, <1>8, <1>10, <1>11, WorkersTypedBy
  <1>13. LoadsCounted'
    <2>1. ASSUME NEW q \in Procs, NEW k, Attached(q, k)'
          PROVE  /\ Attachment(q, k)'.pending = loads'[q][k] + Cardinality(Beginning(q, k))'
                 /\ Attachment(q, k)'.pending <= MaxLoads
      <3>1. /\ Attachment(q, k).pending = loads[q][k] + Cardinality(Beginning(q, k))
            /\ Attachment(q, k).pending <= MaxLoads /\ Attached(q, k) /\ k \in Handles
        BY <1>0, <1>11, <2>1, AttachmentFacts
      <3>2. CASE q # p \/ k # h
        BY <1>7, <1>9, <1>10, <3>1, <3>2
      <3>3. CASE q = p /\ k = h
        <4>1. ~fin /\ Attachment(p, h)' = a
          BY <1>10, <2>1, <3>3
        <4>2. Attachment(p, h)'.pending = (n - 1) + Cardinality(Beginning(p, h))
          BY ONLY <1>2, <1>4, <4>1, SMTT(30)
        <4>3. Attachment(p, h)'.pending <= MaxLoads
          BY ONLY <1>2, <1>4, <4>1, BoundsNat, SMTT(30)
        <4> QED
          BY <1>7, <1>9, <3>3, <4>2, <4>3
      <3> QED
        BY <3>2, <3>3
    <2>2. ASSUME NEW q \in Procs, NEW k \in Handles, ~Attached(q, k)'
          PROVE  loads'[q][k] = 0
      <3>1. CASE q # p \/ k # h
        <4>1. ~Attached(q, k)
          BY <1>10, <2>2, <3>1
        <4>2. loads[q][k] = 0
          BY <1>0, <4>1 DEF LoadsCounted
        <4> QED
          BY <1>7, <3>1, <4>2
      <3>2. CASE q = p /\ k = h
        <4>1. fin
          BY <1>0, <1>10, <2>2, <3>2
        <4>2. loads'[q][k] = 1 - 1
          BY <1>6, <1>7, <3>2, <4>1
        <4> QED
          BY ONLY <4>2, SMTT(30)
      <3> QED
        BY <3>1, <3>2
    <2>3. ASSUME NEW s \in Threads, call'[s].op = "begin"
          PROVE  \E k : /\ k = call'[s].handle /\ Attached(s[1], k)'
                        /\ call'[s].spans = Attachment(s[1], k)'.spans
      <3>1. s # t /\ call'[s] = call[s] /\ s[1] \in Procs
        BY <1>5, <1>8, <2>3 DEF Threads
      <3>2. Attached(s[1], call[s].handle) /\ call[s].spans = Attachment(s[1], call[s].handle).spans
        BY <1>0, <2>3, <3>1 DEF LoadsCounted
      <3>3. fin => ~(s[1] = p /\ call[s].handle = h)
        BY <1>6, <2>3, <3>1 DEF Beginning
      <3> QED
        BY ONLY <1>10, <1>11, <3>1, <3>2, <3>3, SMTT(30)
    <2> QED
      BY <2>1, <2>2, <2>3, LoadsCountedBy
  <1>14. nodes' = nodes /\ Resident' = Resident /\ kills' = kills
    BY <1>0 DEF Resident, index
  <1>15. SpansStay'
    <2>1. \A s \in Threads : call'[s] # Ready =>
              \/ call[s] # Ready /\ call'[s].spans = call[s].spans
              \/ \E k : Attached(s[1], k) /\ call'[s].spans = Attachment(s[1], k).spans
      BY <1>0, <1>5, <1>8
    <2> QED
      BY <1>0, <1>11, <1>14, <2>1, SpansKept
  <1>16. ASSUME NEW i
         PROVE  /\ ~fin => Pins(i)' = Pins(i)
                /\ fin => /\ Pins(i)' = Pins(i) \ {<<p, h>>}
                          /\ i \in S => Cardinality(Pins(i))' = Cardinality(Pins(i)) - 1
                          /\ i \notin S => Pins(i)' = Pins(i)
    <2>1. CASE ~fin
      <3>1. \A q \in Procs : \A k : Attached(q, k)' <=> Attached(q, k)
        BY <1>10, <2>1
      <3>2. \A q \in Procs : \A k : Attached(q, k) => Attachment(q, k)'.spans = Attachment(q, k).spans
        BY <1>11, <3>1
      <3>3. Pins(i)' = Pins(i)
        BY <3>1, <3>2 DEF Pins
      <3> QED
        BY <2>1, <3>3
    <2>2. CASE fin
      <3>1. local_attachments' = [local_attachments EXCEPT ![p] = Without(@, h)]
        BY <1>1, <2>2
      <3> QED
        BY <1>0, <2>2, <3>1, DetachCounts
    <2> QED
      BY <2>1, <2>2
  <1>17. ASSUME NEW i \in Resident
         PROVE  /\ Cardinality(Pins(i))' + Cardinality(Unpinning(i))' = Cardinality(Pins(i)) + Cardinality(Unpinning(i))
                /\ Cardinality(Loading(i))' + Cardinality(Unloading(i))'
                      = Cardinality(Loading(i)) + Cardinality(Unloading(i))
    <2>1. /\ Cardinality(Pins(i)) \in Nat /\ Cardinality(Unpinning(i)) \in Nat
          /\ Cardinality(Loading(i)) \in Nat /\ Cardinality(Unloading(i)) \in Nat
      BY CountersFinite
    <2>2. One(Unpins(call[t], i)) = 0 /\ One(Unloads(call[t], i)) = 0
      BY <1>0, <1>5 DEF One, Unpins, Unloads
    <2>3. One(Unloads(c, i)) = IF i \in S THEN 1 ELSE 0
      BY <1>5 DEF One, Unloads
    <2>4. One(Unpins(c, i)) = IF fin /\ i \in S THEN 1 ELSE 0
      BY <1>5 DEF One, Unpins
    <2>5. Pins(i)' = Pins(i) \/ (Pins(i)' = Pins(i) \ {<<p, h>>} /\ n = 1)
      BY <1>6, <1>16
    <2>6. n > 0 /\ n \in Nat /\ n <= MaxLoads /\ loads[p][h] = n
      BY <1>0, <1>2, <1>3 DEF n
    <2>7. /\ i \in S => Cardinality(Loading(i))' = Cardinality(Loading(i)) - 1
          /\ i \notin S => Cardinality(Loading(i))' = Cardinality(Loading(i))
      <3>1. p \in Procs /\ Attached(p, h) /\ loads \in [Procs -> [Handles -> Nat]]
        BY <1>0
      <3>2. /\ loads'[p][h] = n - 1
            /\ \A q \in Procs, k \in Handles : q # p \/ k # h => loads'[q][k] = loads[q][k]
        BY <1>7
      <3> HIDE DEF p
      <3> QED
        BY ONLY h \in Handles, <2>5, <2>6, <3>1, <3>2, LoadEnded, ZenonT(60) DEF S
    <2>8. Cardinality(Pins(i))' = Cardinality(Pins(i)) - IF fin /\ i \in S THEN 1 ELSE 0
      BY ONLY <1>16, <2>1, SMTT(30)
    <2> HIDE DEF S
    <2> QED
      BY ONLY <1>8, <2>1, <2>2, <2>3, <2>4, <2>7, <2>8, SMTT(30)
  <1>18. RefsExact'
    BY <1>0, <1>14, <1>17 DEF RefsExact
  <1> QED
    BY <1>0, <1>12, <1>13, <1>15, <1>18, IndexKept DEF CoordinatorInv

-----------------------------------------------------------------------------
(* Deaths, and the inductive invariant. *)

\* A death forgets readers and keeps the counts: they can only be too high.
LEMMA KillStep ==
    ASSUME CoordinatorInv, NEW p \in Procs, NEW holding_mutex \in BOOLEAN, Kill(p, holding_mutex)
    PROVE  CoordinatorInv' /\ Resident' = Resident
  <1>0. /\ IndexTyped /\ WorkersTyped /\ SpansStay /\ LoadsCounted /\ RefsExact /\ IndexExact
        /\ loads \in [Procs -> [Handles -> Nat]] /\ DOMAIN local_attachments = Procs
        /\ kills \in 0 .. MaxKills /\ mutex_dead \in BOOLEAN /\ MaxKills \in Nat
        /\ UNCHANGED index
    BY CoordinatorAssumption DEF CoordinatorInv, WorkersTyped, Kill
  <1>1. /\ kills' \in 0 .. MaxKills /\ kills' > 0 /\ mutex_dead' \in BOOLEAN
    BY <1>0, SMTT(30) DEF Kill
  <1>2. /\ DOMAIN call' = Threads
        /\ \A t \in Threads : t[1] = p => call'[t] = Ready
        /\ \A t \in Threads : t[1] # p => call'[t] = call[t]
        /\ Ready.op = "ready"
    BY DEF Kill, Ready
  <1>3. /\ loads' \in [Procs -> [Handles -> Nat]]
        /\ \A h \in Handles : loads'[p][h] = 0
        /\ \A q \in Procs : q # p => loads'[q] = loads[q]
    BY <1>0 DEF Kill
  <1>4. /\ DOMAIN local_attachments' = Procs /\ DOMAIN local_attachments'[p] = {}
        /\ \A q \in Procs : q # p => local_attachments'[q] = local_attachments[q]
    BY <1>0, SMTT(30) DEF Kill
  <1>5. /\ \A q \in Procs : \A k : Attached(q, k)' <=> Attached(q, k) /\ q # p
        /\ \A q \in Procs : \A k : Attached(q, k)' => Attachment(q, k)' = Attachment(q, k)
    BY <1>4 DEF Attached, Attachment
  <1>6. \A q, k : q # p => Beginning(q, k)' = Beginning(q, k)
    BY <1>2 DEF Beginning
  <1>7. WorkersTyped'
    <2>1. \A q \in Procs : \A k : Attached(q, k)' => k \in Handles /\ Attachment(q, k)' \in Attachments
      BY ONLY <1>0, <1>5, AttachmentFacts, SMTT(30)
    <2>2. /\ \A q \in Procs : DOMAIN local_attachments'[q] \subseteq Handles
          /\ \A q \in Procs : \A k \in DOMAIN local_attachments'[q] : Attachment(q, k)' \in Attachments
      BY <2>1 DEF Attached
    <2>3. \A s \in Threads :
            \/ call'[s] = Ready
            \/ call'[s] \in [op : {"release"}, spans : SpanSets]
            \/ call'[s] \in [op : {"begin"}, handle : Handles, spans : SpanSets]
            \/ call'[s] \in [op : {"end"}, spans : SpanSets, finalize : BOOLEAN]
      BY <1>0, <1>2 DEF WorkersTyped
    <2>4. Ready' = Ready
      BY DEF Ready
    <2> QED
      BY <1>1, <1>2, <1>3, <1>4, <2>2, <2>3, <2>4 DEF WorkersTyped
  <1>8. LoadsCounted'
    <2>1. \A q \in Procs : \A k : Attached(q, k)' =>
              /\ Attachment(q, k)'.pending = loads'[q][k] + Cardinality(Beginning(q, k))'
              /\ Attachment(q, k)'.pending <= MaxLoads
      BY ONLY <1>0, <1>3, <1>5, <1>6, AttachmentFacts, SMTT(30)
    <2>2. \A q \in Procs, k \in Handles : ~Attached(q, k)' => loads'[q][k] = 0
      BY ONLY <1>0, <1>3, <1>5, SMTT(30) DEF LoadsCounted
    <2>3. ASSUME NEW s \in Threads, call'[s].op = "begin"
          PROVE  \E k : /\ k = call'[s].handle /\ Attached(s[1], k)'
                        /\ call'[s].spans = Attachment(s[1], k)'.spans
      <3>1. s[1] # p /\ call'[s] = call[s] /\ s[1] \in Procs
        BY <1>2, <2>3 DEF Threads
      <3>2. Attached(s[1], call[s].handle) /\ call[s].spans = Attachment(s[1], call[s].handle).spans
        BY <1>0, <2>3, <3>1 DEF LoadsCounted
      <3> QED
        BY <1>5, <3>1, <3>2
    <2> QED
      BY <2>1, <2>2, <2>3, LoadsCountedBy
  <1>9. nodes' = nodes /\ Resident' = Resident
    BY <1>0 DEF Resident, index
  <1>10. SpansStay'
    <2>1. \A s \in Threads : call'[s] # Ready =>
              \/ call[s] # Ready /\ call'[s].spans = call[s].spans
              \/ \E k : Attached(s[1], k) /\ call'[s].spans = Attachment(s[1], k).spans
      BY <1>2
    <2> QED
      BY <1>0, <1>5, <1>9, <2>1, SpansKept
  <1>11. ASSUME NEW i
         PROVE  /\ Cardinality(Pins(i))' \in Nat /\ Cardinality(Pins(i))' <= Cardinality(Pins(i))
                /\ Cardinality(Unpinning(i))' \in Nat /\ Cardinality(Unpinning(i))' <= Cardinality(Unpinning(i))
                /\ Cardinality(Loading(i))' \in Nat /\ Cardinality(Loading(i))' <= Cardinality(Loading(i))
                /\ Cardinality(Unloading(i))' \in Nat /\ Cardinality(Unloading(i))' <= Cardinality(Unloading(i))
    <2>1. Pins(i)' \subseteq Pins(i)
      BY <1>5 DEF Pins
    <2>2. Unpinning(i)' \subseteq Unpinning(i) /\ Unloading(i)' \subseteq Unloading(i)
      BY <1>2 DEF Unpinning, Unloading
    <2>3. Loading(i)' \subseteq Loading(i)
      <3>1. ASSUME NEW load \in Loading(i)'
            PROVE  load \in Loading(i)
        <4>1. load \in Pins(i)' \X (1 .. MaxLoads) /\ load[2] <= loads'[load[1][1]][load[1][2]]
          BY <3>1 DEF Loading
        <4>2. load[1] \in Pins(i)' /\ load[1][1] # p /\ load[1][1] \in Procs
          BY <1>5, <4>1 DEF Pins
        <4> QED
          BY <1>3, <2>1, <4>1, <4>2 DEF Loading
      <3> QED
        BY <3>1
    <2>4. ASSUME NEW A, NEW B, B \subseteq A, IsFiniteSet(A)
          PROVE  Cardinality(B) \in Nat /\ Cardinality(B) <= Cardinality(A)
      BY <2>4, FS_Subset, FS_CardinalityType
    <2> QED
      BY <2>1, <2>2, <2>3, <2>4, CountersFinite
  <1>12. RefsExact'
    <2>1. \A i \in Resident :
            /\ Cardinality(Pins(i))' + Cardinality(Unpinning(i))' \in Int
            /\ Cardinality(Loading(i))' + Cardinality(Unloading(i))' \in Int
            /\ Cardinality(Pins(i))' + Cardinality(Unpinning(i))' <= Cardinality(Pins(i)) + Cardinality(Unpinning(i))
            /\ Cardinality(Loading(i))' + Cardinality(Unloading(i))'
                  <= Cardinality(Loading(i)) + Cardinality(Unloading(i))
      <3>1. \A i : /\ Cardinality(Pins(i)) \in Nat /\ Cardinality(Unpinning(i)) \in Nat
                   /\ Cardinality(Loading(i)) \in Nat /\ Cardinality(Unloading(i)) \in Nat
        BY CountersFinite
      <3> QED
        BY ONLY <1>11, <3>1, SMTT(30)
    <2>2. kills' # 0
      BY ONLY <1>1, SMTT(30)
    <2> QED
      BY <1>0, <1>9, <2>1, <2>2, RefsLoosened
  <1> QED
    BY <1>0, <1>7, <1>8, <1>10, <1>12, IndexKept DEF CoordinatorInv

\* The invariant holds of the empty index.
LEMMA CoordinatorInit == Init => CoordinatorInv
  <1> SUFFICES ASSUME Init PROVE CoordinatorInv
    OBVIOUS
  <1>1. Resident = {} /\ \A p \in Procs : DOMAIN local_attachments[p] = {}
    BY SMTT(30) DEF Init, Resident
  <1>2. Ready.op = "ready" /\ \A t \in Threads : call[t] = Ready
    BY DEF Init, Ready
  <1>3. Cardinality({}) = 0
    BY FS_EmptySet
  <1>4. Usage(Resident) = 0
    <2>1. Cardinality(Groups) \in Nat
      BY CoordinatorAssumption, FS_CardinalityType
    <2> QED
      BY ONLY <1>1, <1>3, <2>1, SMTT(30) DEF Usage
  <1>5. IndexTyped
    <2>1. last_access_epoch \in [Resident -> 0 .. MaxNodes - 1]
      BY <1>1, SMTT(30) DEF Init
    <2>2. next_entry \in 0 .. MaxEntries /\ Usage(Resident) <= next_entry
      BY <1>4, BoundsNat, SMTT(30) DEF Init
    <2>3. page_refs \in [Groups -> [PageIds -> Nat]]
      BY DEF Init
    <2> QED
      BY <1>1, <2>1, <2>2, <2>3 DEF IndexTyped
  <1>6. WorkersTyped
    <2>1. DOMAIN local_attachments = Procs /\ DOMAIN call = Threads
      BY DEF Init
    <2>2. loads \in [Procs -> [Handles -> Nat]]
      BY DEF Init
    <2>3. mutex_dead = FALSE /\ kills \in 0 .. MaxKills
      BY BoundsNat, SMTT(30) DEF Init
    <2> QED
      BY <1>1, <1>2, <2>1, <2>2, <2>3 DEF WorkersTyped
  <1>7. SpansStay
    BY <1>1, <1>2 DEF SpansStay
  <1>8. LoadsCounted
    BY <1>1, <1>2 DEF LoadsCounted, Init
  <1>9. RefsExact
    BY <1>1 DEF RefsExact
  <1>10. IndexExact
    <2>1. \A g \in Groups, page \in PageIds : page_refs[g][page] = 0
      BY DEF Init
    <2>2. \A g, page : {i \in Resident : nodes[i].pages[g] = page} = {}
      BY <1>1
    <2> QED
      BY <1>1, <1>3, <2>1, <2>2 DEF IndexExact, OnPage
  <1> QED
    BY <1>5, <1>6, <1>7, <1>8, <1>9, <1>10 DEF CoordinatorInv

\* Every step keeps the invariant and the order of evictions.
LEMMA CoordinatorNext == CoordinatorInv /\ [Next]_vars => CoordinatorInv' /\ (OldestFirst \/ UNCHANGED vars)
  <1> SUFFICES ASSUME CoordinatorInv, [Next]_vars
               PROVE  CoordinatorInv' /\ (OldestFirst \/ UNCHANGED vars)
    OBVIOUS
  <1>0. ASSUME Resident \subseteq Resident'
        PROVE  OldestFirst
    BY <1>0 DEF OldestFirst, Resident
  <1>1. ASSUME NEW t \in Threads, Step(t)
        PROVE  CoordinatorInv' /\ OldestFirst
    <2>1. CASE Commit(t)
      BY <1>0, <2>1, CommitStep DEF Commit
    <2>2. CASE \E prompt \in Prompts, h \in Handles : LookupAndAttach(t, prompt, h)
      BY <1>0, <2>2, LookupStep
    <2>3. CASE Evict(t)
      BY <2>3, EvictStep
    <2>4. ASSUME NEW h \in Handles, ReleaseAttachment(t, h)
          PROVE  CoordinatorInv' /\ OldestFirst
      <3>1. call[t] = Ready /\ Attached(t[1], h) /\ UNCHANGED <<index, loads, mutex_dead, kills>>
        BY <2>4 DEF ReleaseAttachment
      <3>2. CASE Attachment(t[1], h).pending # 0
        <4>1. /\ local_attachments' = [local_attachments EXCEPT ![t[1]][h].release_requested = TRUE]
              /\ UNCHANGED <<call, index, loads, mutex_dead, kills>>
          BY <2>4, <3>1, <3>2 DEF ReleaseAttachment
        <4> QED
          BY <1>0, <3>1, <4>1, ReleaseDeferredStep
      <3>3. CASE Attachment(t[1], h).pending = 0
        <4>1. /\ local_attachments' = [local_attachments EXCEPT ![t[1]] = Without(@, h)]
              /\ call' = [call EXCEPT ![t] = [op |-> "release", spans |-> Attachment(t[1], h).spans]]
          BY <2>4, <3>3 DEF ReleaseAttachment
        <4> QED
          BY <1>0, <3>1, <3>3, <4>1, ReleaseStep
      <3> QED
        BY <3>2, <3>3
    <2>5. ASSUME NEW h \in Handles, BeginAttachmentLoad(t, h)
          PROVE  CoordinatorInv' /\ OldestFirst
      BY <1>0, <2>5, BeginStep
    <2>6. ASSUME NEW h \in Handles, EndAttachmentLoad(t, h)
          PROVE  CoordinatorInv' /\ OldestFirst
      BY <1>0, <2>6, EndStep
    <2>7. CASE ReleaseAttachmentShared(t)
      <3>1. GivesBack(t, -1, 0)
        BY <2>7 DEF GivesBack, ReleaseAttachmentShared
      <3>2. CoordinatorInv' /\ Resident' = Resident
        BY <3>1, GiveBackStep, SMTT(30)
      <3> QED
        BY <1>0, <3>2
    <2>8. CASE BeginAttachmentLoadShared(t)
      BY <1>0, <2>8, BeginSharedStep
    <2>9. CASE EndAttachmentLoadShared(t)
      <3>1. CASE call[t].finalize
        <4>1. GivesBack(t, -1, -1)
          BY <2>9, <3>1 DEF GivesBack, EndAttachmentLoadShared
        <4>2. CoordinatorInv' /\ Resident' = Resident
          BY <4>1, GiveBackStep, SMTT(30)
        <4> QED
          BY <1>0, <4>2
      <3>2. CASE ~call[t].finalize
        <4>1. GivesBack(t, 0, -1)
          BY <2>9, <3>2 DEF GivesBack, EndAttachmentLoadShared
        <4>2. CoordinatorInv' /\ Resident' = Resident
          BY <4>1, GiveBackStep, SMTT(30)
        <4> QED
          BY <1>0, <4>2
      <3> QED
        BY <3>1, <3>2
    <2> QED
      BY <1>1, <2>1, <2>2, <2>3, <2>4, <2>5, <2>6, <2>7, <2>8, <2>9 DEF Step, SharedSection
  <1>2. ASSUME NEW p \in Procs, NEW holding_mutex \in BOOLEAN, Kill(p, holding_mutex)
        PROVE  CoordinatorInv' /\ OldestFirst
    BY <1>0, <1>2, KillStep
  <1>3. CASE UNCHANGED vars
    <2>1. /\ UNCHANGED <<local_attachments, loads, call, mutex_dead, kills>> /\ UNCHANGED index
          /\ nodes' = nodes
      BY <1>3 DEF vars, workers, index
    <2>2. /\ IndexTyped /\ WorkersTyped /\ SpansStay /\ LoadsCounted /\ RefsExact /\ IndexExact
      BY DEF CoordinatorInv
    <2>3. WorkersTyped' /\ LoadsCounted' /\ IndexTyped' /\ IndexExact' /\ Resident' = Resident
      BY <2>1, <2>2, WorkersKept, IndexKept
    <2>4. SpansStay'
      BY <2>1, <2>2, <2>3 DEF SpansStay, Attachment, Ready
    <2>5. RefsExact'
      <3>1. \A i : /\ Pins(i)' = Pins(i) /\ Unpinning(i)' = Unpinning(i)
                   /\ Unloading(i)' = Unloading(i)
        BY <2>1 DEF Pins, Unpinning, Unloading, Attached, Attachment
      <3>2. \A i : Loading(i)' = Loading(i)
        BY <2>1, <3>1 DEF Loading
      <3> QED
        BY <2>1, <2>2, <2>3, <3>1, <3>2 DEF RefsExact
    <2> QED
      BY <1>3, <2>3, <2>4, <2>5 DEF CoordinatorInv
  <1> QED
    BY <1>1, <1>2, <1>3 DEF Next

-----------------------------------------------------------------------------
(* The theorems. *)

\* The inductive invariant of the prefix cache index.
THEOREM CoordinatorInvariant == Spec => []CoordinatorInv
  BY CoordinatorInit, CoordinatorNext, PTL DEF Spec

\* Pages handed out with an attachment stay those of the same resident node
\* until the release has reached the shared section, whatever is evicted,
\* committed or killed meanwhile.
THEOREM AttachedPagesStay == Spec => []SpansStay
  <1>1. CoordinatorInv => SpansStay
    BY DEF CoordinatorInv
  <1> QED
    BY <1>1, CoordinatorInvariant, PTL

\* active_ref_count and pending_load_count are exact while no worker has died,
\* and never too low.
THEOREM ReferencesCounted == Spec => []RefsExact
  <1>1. CoordinatorInv => RefsExact
    BY DEF CoordinatorInv
  <1> QED
    BY <1>1, CoordinatorInvariant, PTL

\* page_ref_slots counts the resident nodes on each page, and a digest is in
\* the index once.
THEOREM IndexCounted == Spec => []IndexExact
  <1>1. CoordinatorInv => IndexExact
    BY DEF CoordinatorInv
  <1> QED
    BY <1>1, CoordinatorInvariant, PTL

\* CountReleasablePages is what evicting every unprotected node would free.
THEOREM ReleasableCounted == Spec => []ReleasableExact
  <1>1. ASSUME CoordinatorInv
        PROVE  ReleasableExact
    <2>0. IndexTyped /\ IndexExact /\ Resident \subseteq Slots /\ \A i \in Resident : nodes[i].pages \in [Groups -> PageIds]
      BY <1>1 DEF CoordinatorInv, IndexTyped, Node
    <2> SUFFICES ASSUME NEW g \in Groups
                 PROVE  CountReleasablePages(g) = Cardinality(FreedPages({i \in Resident : ~Protected(i)}, g))
      BY DEF ReleasableExact
    <2> DEFINE U == {i \in Resident : ~Protected(i)}
               K == {i \in Resident : Protected(i)}
               on(S, page) == {i \in S : nodes[i].pages[g] = page}
    <2>1. Resident \ K = U /\ U \subseteq Resident
      OBVIOUS
    <2>2. ASSUME NEW page \in PageIds
          PROVE  /\ OnPage(U, g, page) > 0 <=> \E i \in U : nodes[i].pages[g] = page
                 /\ page_refs[g][page] = OnPage(U, g, page) <=> ~\E i \in K : nodes[i].pages[g] = page
      <3>1. on(Resident, page) \in SUBSET Slots /\ on(U, page) \in SUBSET on(Resident, page) /\ on(U, page) \in SUBSET Slots
        BY <2>0
      <3>2. Cardinality(on(Resident, page) \ on(U, page)) = Cardinality(on(Resident, page)) - Cardinality(on(U, page))
        BY <3>1, CountDifference
      <3>3. /\ IsFiniteSet(on(U, page)) /\ Cardinality(on(U, page)) \in Nat
            /\ Cardinality(on(Resident, page)) \in Nat
            /\ IsFiniteSet(on(Resident, page) \ on(U, page))
        BY <3>1, SlotSets
      <3>4. on(Resident, page) \ on(U, page) = on(K, page)
        OBVIOUS
      <3>5. page_refs[g][page] = Cardinality(on(Resident, page)) /\ OnPage(U, g, page) = Cardinality(on(U, page))
        BY <2>0 DEF IndexExact, OnPage
      <3>6. Cardinality(on(U, page)) = 0 <=> on(U, page) = {}
        BY <3>3, FS_EmptySet
      <3>7. Cardinality(on(K, page)) = 0 <=> on(K, page) = {}
        BY <3>3, <3>4, FS_EmptySet
      <3>8. /\ on(U, page) = {} <=> ~\E i \in U : nodes[i].pages[g] = page
            /\ on(K, page) = {} <=> ~\E i \in K : nodes[i].pages[g] = page
        OBVIOUS
      <3> HIDE DEF on, U, K
      <3>9. OnPage(U, g, page) > 0 <=> \E i \in U : nodes[i].pages[g] = page
        BY ONLY <3>3, <3>5, <3>6, <3>8, SMTT(30)
      <3>10. page_refs[g][page] = OnPage(U, g, page) <=> Cardinality(on(K, page)) = 0
        BY ONLY <3>2, <3>3, <3>4, <3>5, SMTT(30)
      <3> QED
        BY <3>7, <3>8, <3>9, <3>10
    <2>3. {nodes[i].pages[g] : i \in U} \ {nodes[i].pages[g] : i \in K} = FreedPages(U, g)
      <3>1. \A i \in Resident : nodes[i].pages[g] \in PageIds
        BY <2>0
      <3>2. K \subseteq Resident
        OBVIOUS
      <3> HIDE DEF U, K
      <3> QED
        BY ONLY <2>1, <2>2, <3>1, <3>2, SMTT(30) DEF FreedPages
    <2>4. CountReleasablePages(g) = Cardinality({nodes[i].pages[g] : i \in U} \ {nodes[i].pages[g] : i \in K})
      BY <2>1 DEF CountReleasablePages
    <2> HIDE DEF U, K
    <2>5. CountReleasablePages(g) = Cardinality(FreedPages(U, g))
      BY <2>3, <2>4
    <2> QED
      BY <2>5 DEF U
  <1> QED
    BY <1>1, CoordinatorInvariant, PTL

\* The index, the attachments and the calls have their types.
THEOREM CoordinatorTypes == Spec => []TypeOK
  <1>1. ASSUME CoordinatorInv
        PROVE  TypeOK
    <2>0. IndexTyped /\ WorkersTyped /\ LoadsCounted
      BY <1>1 DEF CoordinatorInv
    <2>1. ASSUME NEW i \in Resident
          PROVE  /\ DOMAIN nodes[i] = {"digest", "pages", "active", "pending"}
                 /\ nodes[i].digest \in Digests
                 /\ nodes[i].pages \in [Groups -> PageIds]
                 /\ nodes[i].active \in Nat /\ nodes[i].pending \in Nat
      BY <2>0 DEF IndexTyped, Node
    <2>2. ASSUME NEW p \in Procs, NEW h \in DOMAIN local_attachments[p]
          PROVE  /\ h \in Handles
                 /\ DOMAIN Attachment(p, h).spans \subseteq Slots
                 /\ Attachment(p, h).pending \in 0 .. MaxLoads
                 /\ Attachment(p, h).release_requested \in BOOLEAN
      <3>1. /\ h \in Handles /\ Attachment(p, h) \in Attachments
            /\ Attachment(p, h).pending \in Nat /\ Attachment(p, h).pending <= MaxLoads
            /\ Attachment(p, h).spans \in SpanSets
        BY <2>0, <2>2, AttachmentFacts DEF Attached
      <3>2. DOMAIN Attachment(p, h).spans \subseteq Slots
        BY <3>1 DEF SpanSets
      <3>3. Attachment(p, h).pending \in 0 .. MaxLoads
        BY ONLY <3>1, BoundsNat, SMTT(30)
      <3> QED
        BY <3>1, <3>2, <3>3 DEF Attachments
    <2>3. ASSUME NEW p \in Procs, NEW h \in Handles
          PROVE  loads[p][h] \in 0 .. MaxLoads
      <3>1. CASE Attached(p, h)
        <4>1. /\ loads[p][h] \in Nat /\ Cardinality(Beginning(p, h)) \in Nat
              /\ Attachment(p, h).pending = loads[p][h] + Cardinality(Beginning(p, h))
              /\ Attachment(p, h).pending <= MaxLoads
          BY <2>0, <3>1, AttachmentFacts
        <4> QED
          BY ONLY <4>1, BoundsNat, SMTT(30)
      <3>2. CASE ~Attached(p, h)
        BY ONLY <2>0, <3>2, BoundsNat, SMTT(30) DEF LoadsCounted
      <3> QED
        BY <3>1, <3>2
    <2>4. loads \in [Procs -> [Handles -> 0 .. MaxLoads]]
      <3>1. loads \in [Procs -> [Handles -> Nat]]
        BY <2>0 DEF WorkersTyped
      <3> QED
        BY <2>3, <3>1
    <2>5. \A t \in Threads : call[t].op \in {"ready", "release", "begin", "end"}
      BY ONLY <2>0, SMTT(30) DEF WorkersTyped, Ready
    <2>6. /\ mutex_dead \in BOOLEAN /\ kills \in 0 .. MaxKills
          /\ Resident \subseteq Slots /\ last_access_epoch \in [Resident -> 0 .. MaxNodes - 1]
          /\ next_entry \in 0 .. MaxEntries /\ page_refs \in [Groups -> [PageIds -> Nat]]
      BY <2>0 DEF WorkersTyped, IndexTyped
    <2> QED
      BY <2>1, <2>2, <2>4, <2>5, <2>6 DEF TypeOK, Digests
  <1> QED
    BY <1>1, CoordinatorInvariant, PTL

\* No eviction leaves an older unprotected node behind, except that
\* ClearNamespace takes nodes by namespace.
THEOREM OldestEvictedFirst == Spec => EvictsOldestFirst
  <1>1. CoordinatorInv /\ [Next]_vars => [OldestFirst]_vars
    BY CoordinatorNext
  <1>2. Spec => [][OldestFirst]_vars
    BY <1>1, CoordinatorInvariant, PTL DEF Spec
  <1> QED
    BY <1>2 DEF EvictsOldestFirst, OldestFirst

=============================================================================
