--------------- MODULE HostPrefixCacheCoordinatorInvariants ---------------
(***************************************************************************)
(* The inductive invariant of the prefix cache index, and what its proof   *)
(* says of evictions, of calls under way and of the counts they give back. *)
(***************************************************************************)
EXTENDS HostPrefixCacheCoordinator

\* What the variables of the index hold.
Digests == UNION {{Digest(prompt, k) : k \in Positions(prompt)} : prompt \in Prompts}
Node == [digest : Digests, pages : [Groups -> PageIds], active : Nat, pending : Nat]

\* The types of the index, and its bounds.
IndexTyped ==
    /\ Resident \subseteq Slots
    /\ \A i \in Resident : nodes[i] \in Node
    /\ last_access_epoch \in [Resident -> 0 .. MaxNodes - 1]
    /\ next_entry \in 0 .. MaxEntries /\ Usage(Resident) <= next_entry
    /\ page_refs \in [Groups -> [PageIds -> Nat]]

\* What the workers hold.
SpanSets == UNION {[S -> [Groups -> PageIds]] : S \in SUBSET Slots}
Attachments == [spans : SpanSets, pending : Nat, release_requested : BOOLEAN]

\* The types of what the workers hold and of the calls under way.
WorkersTyped ==
    /\ DOMAIN local_attachments = Procs
    /\ \A p \in Procs : DOMAIN local_attachments[p] \subseteq Handles
    /\ \A p \in Procs : \A h \in DOMAIN local_attachments[p] : Attachment(p, h) \in Attachments
    /\ loads \in [Procs -> [Handles -> Nat]]
    /\ DOMAIN call = Threads
    /\ \A t \in Threads :
          \/ call[t] = Ready
          \/ call[t] \in [op : {"release"}, spans : SpanSets]
          \/ call[t] \in [op : {"begin"}, handle : Handles, spans : SpanSets]
          \/ call[t] \in [op : {"end"}, spans : SpanSets, finalize : BOOLEAN]
    /\ mutex_dead \in BOOLEAN /\ kills \in 0 .. MaxKills
    /\ mutex_dead => kills > 0

\* The threads between the two sections of BeginAttachmentLoad.
Beginning(p, h) == {t \in Threads : t[1] = p /\ call[t].op = "begin" /\ call[t].handle = h}

\* The local count of an attachment is the loads begun on it and those being
\* begun; neither outlives the attachment.
LoadsCounted ==
    /\ \A p \in Procs : \A h \in DOMAIN local_attachments[p] :
          /\ Attachment(p, h).pending = loads[p][h] + Cardinality(Beginning(p, h))
          /\ Attachment(p, h).pending <= MaxLoads
    /\ \A p \in Procs, h \in Handles : ~Attached(p, h) => loads[p][h] = 0
    /\ \A t \in Threads : call[t].op = "begin" =>
          Attached(t[1], call[t].handle) /\ call[t].spans = Attachment(t[1], call[t].handle).spans

\* The inductive invariant.
CoordinatorInv ==
    IndexTyped /\ WorkersTyped /\ SpansStay /\ LoadsCounted /\ RefsExact /\ IndexExact

\* What a set of evicted nodes must be: unprotected, and closed under taking an
\* older unprotected node.
OldestUnprotected(E) ==
    /\ E \in SUBSET {i \in Resident : ~Protected(i)}
    /\ \A i \in E : \A j \in Resident :
          last_access_epoch[j] < last_access_epoch[i] /\ ~Protected(j) => j \in E

\* A step that evicts takes the least recently used nodes first, except that
\* ClearNamespace goes by namespace.
OldestFirst ==
    \A i, j \in Resident :
        i \notin DOMAIN nodes' /\ j \in DOMAIN nodes' /\ last_access_epoch[j] < last_access_epoch[i] /\ ~Protected(j)
          => nodes[j].digest[1] # nodes[i].digest[1]

\* A condition as a count.
One(b) == IF b THEN 1 ELSE 0

\* What a call under way counts as.
Unpins(c, i) == (c.op = "release" \/ (c.op = "end" /\ c.finalize)) /\ i \in DOMAIN c.spans
Unloads(c, i) == c.op = "end" /\ i \in DOMAIN c.spans
Begins(c, h) == c.op = "begin" /\ c.handle = h

\* The shared section of a release or of the end of a load: the call is left,
\* and the counts move by a and b.
GivesBack(t, a, b) ==
    /\ call[t].op \in {"release", "end"}
    /\ a = IF call[t].op = "release" \/ (call[t].op = "end" /\ call[t].finalize) THEN -1 ELSE 0
    /\ b = IF call[t].op = "end" THEN -1 ELSE 0
    /\ nodes' = IF mutex_dead THEN nodes ELSE NodesAdding(DOMAIN call[t].spans, a, b)
    /\ call' = [call EXCEPT ![t] = Ready]
    /\ UNCHANGED <<last_access_epoch, next_entry, page_refs, local_attachments, loads, mutex_dead, kills>>

=============================================================================
