--------------------------- MODULE WeightSlotTable ---------------------------
(***************************************************************************)
(* The slot table of the GPU weight ring (WeightSlotTable).                *)
(*                                                                         *)
(* A ring of slots per module type holds the weights of the modules of the *)
(* current forward.  The producer thread reserves a slot, names it when it *)
(* claims the module at its type's cursor, and copies into it; the         *)
(* consumer leases the module and gives the slot back.  One traversal of   *)
(* the installed lists is a weight pass; at most two passes are open, and  *)
(* the consumer always executes the oldest one.                            *)
(*                                                                         *)
(* One action is one method call, made under the owner's mutex.  A call    *)
(* that throws leaves the table alone, so an action's guard is the         *)
(* condition under which the method returns.  Next lets the owner make any *)
(* call at any time; WeightStream composes the table with the threads that *)
(* really make them.                                                       *)
(***************************************************************************)
EXTENDS Integers, Sequences, FiniteSets, Functions

CONSTANTS
    ModuleTypes,  \* module types: "attn", "routed_expert", ...
    Modules,      \* module names
    Tasks,        \* copy task sets that may be installed: type -> list of names
    Layouts,      \* ring layouts: type -> number of slots
    None,         \* the empty module name
    MaxPass       \* bound on the pass ids of one installation

\* A list names a module once, over all types: install() refuses any other.
ASSUME TasksAssumption ==
    /\ Tasks \subseteq [ModuleTypes -> Seq(Modules)]
    /\ \A tasks \in Tasks : \A t, u \in ModuleTypes :
         \A i \in DOMAIN tasks[t], j \in DOMAIN tasks[u] :
            tasks[t][i] = tasks[u][j] => t = u /\ i = j
ASSUME LayoutsAssumption == Layouts \subseteq [ModuleTypes -> Nat]
ASSUME NoneAssumption == None \notin Modules

VARIABLES
    slots,         \* type -> index -> slot
    index,         \* (module, pass) -> slot, for FILLING, PRESENT, LEASED
    pendingSkips,  \* (pass, module) the producer must not copy
    lists,         \* the installed copy tasks
    cursors,       \* type -> the producer's next (pass, position)
    openPasses,    \* deque of armed passes, oldest first
    nextPass,      \* id of the next pass to arm
    passCounts,    \* open pass -> type -> modules copied and skipped
    scheduleLost   \* the daemon's cyclic position was lost by an abort

tableVars == <<slots, index, pendingSkips, lists, cursors, openPasses,
               nextPass, passCounts, scheduleLost>>

kMaxOpenPasses == 2

SlotStates == {"FREE", "FILLING", "PRESENT", "LEASED", "PENDING_RELEASE"}
FreeSlot == [state |-> "FREE", name |-> None, pass |-> 0, release |-> FALSE]
FreeSlots(n) == [i \in 1..n |-> FreeSlot]

-----------------------------------------------------------------------------
(* Queries. *)

Refs == UNION {{t} \X DOMAIN slots[t] : t \in ModuleTypes}
At(ref) == slots[ref[1]][ref[2]]
Held == {r \in Refs : At(r).state # "FREE"}

Open == Range(openPasses)
CurrentPass == Head(openPasses)

Installed == UNION {Range(lists[t]) : t \in ModuleTypes}
TypeOf(m) == CHOOSE t \in ModuleTypes : m \in Range(lists[t])
PositionOf(m) ==
    CHOOSE k \in DOMAIN lists[TypeOf(m)] : lists[TypeOf(m)][k] = m

\* Whether the producer already moved past m in pass p.
Produced(m, p) ==
    LET cursor == cursors[TypeOf(m)] IN
    \/ cursor.pass > p
    \/ cursor.pass = p /\ cursor.position > PositionOf(m)

ProducerFinished(p) ==
    \A t \in ModuleTypes : lists[t] # <<>> => cursors[t].pass > p

CursorModule(t) == lists[t][cursors[t].position]

\* What the producer does next for a type.
NextProduction(t) ==
    IF lists[t] = <<>> THEN "NONE"
    ELSE IF cursors[t].pass \notin Open THEN "PARKED"
    ELSE IF <<cursors[t].pass, CursorModule(t)>> \in pendingSkips THEN "SKIP"
    ELSE "COPY"

\* The slot of module m in the pass the consumer executes.
Resident(m) == openPasses # <<>> /\ <<m, CurrentPass>> \in DOMAIN index
SlotOf(m) == At(index[<<m, CurrentPass>>])
LeasedNow(m) == Resident(m) /\ SlotOf(m).state = "LEASED"

\* THROW: the module can never be leased in the current pass.
CheckLease(m) ==
    IF openPasses = <<>> \/ m \notin Installed THEN "THROW"
    ELSE IF Resident(m)
         THEN CASE SlotOf(m).state = "PRESENT" -> "READY"
                [] SlotOf(m).state = "FILLING" /\ ~SlotOf(m).release -> "WAIT"
                [] OTHER -> "THROW"
    ELSE IF <<CurrentPass, m>> \in pendingSkips \/ Produced(m, CurrentPass)
         THEN "THROW"
    ELSE "WAIT"

CheckSkip(m) ==
    /\ openPasses # <<>>
    /\ m \in Installed
    /\ IF Resident(m)
       THEN /\ SlotOf(m).state # "LEASED"
            /\ ~(SlotOf(m).state = "FILLING" /\ SlotOf(m).release)
       ELSE /\ <<CurrentPass, m>> \notin pendingSkips
            /\ ~Produced(m, CurrentPass)

\* What end_pass() demands of a pass.
CanEnd(p) ==
    /\ openPasses # <<>> /\ CurrentPass = p
    /\ ProducerFinished(p)
    /\ \A r \in Held : At(r).name # None => At(r).pass # p
    /\ \A skip \in pendingSkips : skip[1] # p

-----------------------------------------------------------------------------
(* Layout and installation. *)

Unindexed(keys) == Restrict(index, DOMAIN index \ keys)

\* reset_type() of every type of a layout.
ResetTypes(layout) ==
    /\ openPasses = <<>>
    /\ slots' = [t \in ModuleTypes |-> FreeSlots(layout[t])]
    /\ index' = Unindexed({<<At(r).name, At(r).pass>> : r \in Refs})
    /\ UNCHANGED <<pendingSkips, lists, cursors, openPasses, nextPass,
                   passCounts, scheduleLost>>

GrowType(t, n) ==
    /\ n > Len(slots[t])
    /\ slots' = [slots EXCEPT ![t] = @ \o FreeSlots(n - Len(@))]
    /\ UNCHANGED <<index, pendingSkips, lists, cursors, openPasses, nextPass,
                   passCounts, scheduleLost>>

Install(tasks) ==
    /\ ~scheduleLost
    /\ openPasses = <<>>
    /\ Held = {}
    /\ lists' = tasks
    /\ cursors' = [t \in ModuleTypes |-> [pass |-> 1, position |-> 1]]
    /\ pendingSkips' = {}
    /\ passCounts' = <<>>
    /\ nextPass' = 1
    /\ UNCHANGED <<slots, index, openPasses, scheduleLost>>

-----------------------------------------------------------------------------
(* Passes. *)

NoCounts == [t \in ModuleTypes |-> [copied |-> 0, skipped |-> 0]]

BeginPass ==
    /\ ~scheduleLost
    /\ Installed # {}
    /\ Len(openPasses) < kMaxOpenPasses
    /\ openPasses' = Append(openPasses, nextPass)
    /\ passCounts' = [p \in Open \union {nextPass} |->
                        IF p \in Open THEN passCounts[p] ELSE NoCounts]
    /\ nextPass' = nextPass + 1
    /\ UNCHANGED <<slots, index, pendingSkips, lists, cursors, scheduleLost>>

\* Faulty variant: a copy in flight loses its slot at once.
SkipAllFreeingCopies(p, ms, pending) ==
    LET gone(s) == s.pass = p /\ s.name \in ms /\ s.state \in {"FILLING", "PRESENT"}
    IN /\ slots' = [t \in ModuleTypes |-> [i \in DOMAIN slots[t] |->
                      IF gone(slots[t][i]) THEN FreeSlot ELSE slots[t][i]]]
       /\ index' = Unindexed({<<At(r).name, p>> : r \in {r \in Refs : gone(At(r))}})
       /\ pendingSkips' = pendingSkips \union {<<p, m>> : m \in pending}
       /\ UNCHANGED <<lists, cursors, openPasses, nextPass, passCounts,
                      scheduleLost>>

\* Skip the modules ms of pass p; those in pending are not produced yet.
SkipAll(p, ms, pending) ==
    LET of(s) == s.pass = p /\ s.name \in ms
        skipped(s) == CASE of(s) /\ s.state = "PRESENT" -> FreeSlot
                        [] of(s) /\ s.state = "FILLING" ->
                             [s EXCEPT !.release = TRUE]
                        [] OTHER -> s
    IN /\ slots' = [t \in ModuleTypes |->
                      [i \in DOMAIN slots[t] |-> skipped(slots[t][i])]]
       /\ index' = Unindexed({<<At(r).name, p>> : r \in
                      {r \in Refs : of(At(r)) /\ At(r).state = "PRESENT"}})
       /\ pendingSkips' = pendingSkips \union {<<p, m>> : m \in pending}
       /\ UNCHANGED <<lists, cursors, openPasses, nextPass, passCounts,
                      scheduleLost>>

\* Faulty variant: cancels what was already produced, too.
CancelPassAll(p) ==
    /\ p \in Open
    /\ \A r \in Held : ~(At(r).pass = p /\ At(r).state = "LEASED")
    /\ SkipAll(p, Modules, Installed)

\* Faulty variant: leaves what is not produced yet to the producer.
CancelPassResident(p) ==
    /\ p \in Open
    /\ \A r \in Held : ~(At(r).pass = p /\ At(r).state = "LEASED")
    /\ SkipAll(p, Modules, {})

CancelPass(p) ==
    /\ p \in Open
    /\ \A r \in Held : ~(At(r).pass = p /\ At(r).state = "LEASED")
    /\ SkipAll(p, Modules, {m \in Installed : ~Produced(m, p)})

\* skip_modules(): every name is validated before any slot changes.
SkipModules(ms) ==
    /\ \A m \in ms : CheckSkip(m)
    /\ SkipAll(CurrentPass, ms, {m \in ms : ~Resident(m)})

EndPass(p) ==
    /\ CanEnd(p)
    /\ openPasses' = Tail(openPasses)
    /\ passCounts' = Restrict(passCounts, DOMAIN passCounts \ {p})
    /\ UNCHANGED <<slots, index, pendingSkips, lists, cursors, nextPass,
                   scheduleLost>>

AbortPasses(loseSchedule) ==
    /\ slots' = [t \in ModuleTypes |-> FreeSlots(Len(slots[t]))]
    /\ index' = <<>>
    /\ pendingSkips' = {}
    /\ passCounts' = <<>>
    /\ openPasses' = <<>>
    /\ cursors' = [t \in ModuleTypes |-> [pass |-> nextPass, position |-> 1]]
    /\ scheduleLost' = (scheduleLost \/ loseSchedule)
    /\ UNCHANGED <<lists, nextPass>>

-----------------------------------------------------------------------------
(* Producer. *)

FreeIn(ring, t) == {i \in DOMAIN ring[t] : ring[t][i].state = "FREE"}
Reserved(ring, t) ==
    CHOOSE i \in FreeIn(ring, t) : \A j \in FreeIn(ring, t) : i <= j
AfterReserve(ring, t) ==
    [ring EXCEPT ![t][Reserved(ring, t)] = [FreeSlot EXCEPT !.state = "FILLING"]]

Reserve(t) ==
    /\ FreeIn(slots, t) # {}
    /\ slots' = AfterReserve(slots, t)
    /\ UNCHANGED <<index, pendingSkips, lists, cursors, openPasses, nextPass,
                   passCounts, scheduleLost>>

Advanced(t) ==
    LET cursor == cursors[t] IN
    IF cursor.position >= Len(lists[t])
    THEN [pass |-> cursor.pass + 1, position |-> 1]
    ELSE [cursor EXCEPT !.position = @ + 1]

\* claim() of the module at the cursor, into the reserved slot i.
ClaimCopy(t, i) ==
    LET key == <<CursorModule(t), cursors[t].pass>> IN
    /\ NextProduction(t) = "COPY"
    /\ slots[t][i].state = "FILLING" /\ slots[t][i].name = None
    /\ key \notin DOMAIN index
    /\ slots' = [slots EXCEPT ![t][i].name = key[1], ![t][i].pass = key[2]]
    /\ index' = [k \in DOMAIN index \union {key} |->
                   IF k = key THEN <<t, i>> ELSE index[k]]
    /\ cursors' = [cursors EXCEPT ![t] = Advanced(t)]
    /\ UNCHANGED <<pendingSkips, lists, openPasses, nextPass, passCounts,
                   scheduleLost>>

Abandon(t, i) ==
    /\ slots[t][i].state = "FILLING"
    /\ slots' = [slots EXCEPT ![t][i] = FreeSlot]
    /\ index' = Unindexed({<<slots[t][i].name, slots[t][i].pass>>})
    /\ UNCHANGED <<pendingSkips, lists, cursors, openPasses, nextPass,
                   passCounts, scheduleLost>>

\* claim() that finds a skip pending; the cursor waits for RetireSkip.
ClaimSkip(t, i) ==
    /\ NextProduction(t) = "SKIP"
    /\ IF i = 0 THEN UNCHANGED tableVars ELSE Abandon(t, i)

RetireSkip(t) ==
    /\ NextProduction(t) = "SKIP"
    /\ pendingSkips' = pendingSkips \ {<<cursors[t].pass, CursorModule(t)>>}
    /\ passCounts' = [passCounts EXCEPT ![cursors[t].pass][t].skipped = @ + 1]
    /\ cursors' = [cursors EXCEPT ![t] = Advanced(t)]
    /\ UNCHANGED <<slots, index, lists, openPasses, nextPass, scheduleLost>>

\* Faulty variant: a copy released on landing is not counted.
LandedCountingPresent(t, i) ==
    LET slot == slots[t][i] IN
    /\ slot.state = "FILLING" /\ slot.name # None
    /\ IF slot.release
       THEN /\ slots' = [slots EXCEPT ![t][i] = FreeSlot]
            /\ index' = Unindexed({<<slot.name, slot.pass>>})
            /\ UNCHANGED passCounts
       ELSE /\ slots' = [slots EXCEPT ![t][i].state = "PRESENT"]
            /\ passCounts' = [passCounts EXCEPT ![slot.pass][t].copied = @ + 1]
            /\ UNCHANGED index
    /\ UNCHANGED <<pendingSkips, lists, cursors, openPasses, nextPass,
                   scheduleLost>>

Landed(t, i) ==
    LET slot == slots[t][i] IN
    /\ slot.state = "FILLING" /\ slot.name # None
    /\ passCounts' = [passCounts EXCEPT ![slot.pass][t].copied = @ + 1]
    /\ IF slot.release
       THEN /\ slots' = [slots EXCEPT ![t][i] = FreeSlot]
            /\ index' = Unindexed({<<slot.name, slot.pass>>})
       ELSE /\ slots' = [slots EXCEPT ![t][i].state = "PRESENT"]
            /\ UNCHANGED index
    /\ UNCHANGED <<pendingSkips, lists, cursors, openPasses, nextPass,
                   scheduleLost>>

-----------------------------------------------------------------------------
(* Consumer. *)

Lease(m) ==
    LET ref == index[<<m, CurrentPass>>] IN
    /\ CheckLease(m) = "READY"
    /\ slots' = [slots EXCEPT ![ref[1]][ref[2]].state = "LEASED"]
    /\ UNCHANGED <<index, pendingSkips, lists, cursors, openPasses, nextPass,
                   passCounts, scheduleLost>>

Release(m) ==
    LET ref == index[<<m, CurrentPass>>] IN
    /\ LeasedNow(m)
    /\ slots' = [slots EXCEPT ![ref[1]][ref[2]] = FreeSlot]
    /\ index' = Unindexed({<<m, CurrentPass>>})
    /\ UNCHANGED <<pendingSkips, lists, cursors, openPasses, nextPass,
                   passCounts, scheduleLost>>

\* The slots of leased modules.
RefsOf(ms) == {index[<<m, CurrentPass>>] : m \in ms}

ReleaseAsync(ms) ==
    /\ \A m \in ms : LeasedNow(m)
    /\ slots' = [t \in ModuleTypes |-> [i \in DOMAIN slots[t] |->
                   IF <<t, i>> \in RefsOf(ms)
                   THEN [slots[t][i] EXCEPT !.state = "PENDING_RELEASE"]
                   ELSE slots[t][i]]]
    /\ index' = Unindexed({<<m, CurrentPass>> : m \in ms})
    /\ UNCHANGED <<pendingSkips, lists, cursors, openPasses, nextPass,
                   passCounts, scheduleLost>>

\* The table after reclaim() of every slot in refs.
Reclaimed(refs) ==
    [t \in ModuleTypes |-> [i \in DOMAIN slots[t] |->
       IF <<t, i>> \in refs THEN FreeSlot ELSE slots[t][i]]]

Reclaim(refs) ==
    /\ \A r \in refs : At(r).state = "PENDING_RELEASE"
    /\ slots' = Reclaimed(refs)
    /\ UNCHANGED <<index, pendingSkips, lists, cursors, openPasses, nextPass,
                   passCounts, scheduleLost>>

-----------------------------------------------------------------------------

Init ==
    /\ slots \in {[t \in ModuleTypes |-> FreeSlots(layout[t])] : layout \in Layouts}
    /\ index = <<>>
    /\ pendingSkips = {}
    /\ lists = [t \in ModuleTypes |-> <<>>]
    /\ cursors = [t \in ModuleTypes |-> [pass |-> 1, position |-> 1]]
    /\ openPasses = <<>>
    /\ nextPass = 1
    /\ passCounts = <<>>
    /\ scheduleLost = FALSE

\* Any call of the table's owner, in any order.
Next ==
    \/ \E layout \in Layouts : ResetTypes(layout)
    \/ \E t \in ModuleTypes, layout \in Layouts : GrowType(t, layout[t])
    \/ \E tasks \in Tasks : Install(tasks)
    \/ nextPass <= MaxPass /\ BeginPass
    \/ \E p \in Open : CancelPass(p) \/ EndPass(p)
    \/ \E lose \in BOOLEAN : AbortPasses(lose)
    \/ \E t \in ModuleTypes : Reserve(t) \/ RetireSkip(t)
    \/ \E t \in ModuleTypes : \E i \in DOMAIN slots[t] :
          ClaimCopy(t, i) \/ ClaimSkip(t, i) \/ Landed(t, i) \/ Abandon(t, i)
    \/ \E m \in Modules : Lease(m) \/ Release(m)
    \/ \E ms \in (SUBSET Modules) \ {{}} : SkipModules(ms) \/ ReleaseAsync(ms)
    \/ \E r \in Refs : Reclaim({r})

Spec == Init /\ [][Next]_tableVars

-----------------------------------------------------------------------------
(* Properties. *)

Slot == [state : SlotStates, name : Modules \union {None}, pass : Nat,
         release : BOOLEAN]

\* Every variable of the table has its type.
TypeOK ==
    /\ slots \in [ModuleTypes -> Seq(Slot)]
    /\ DOMAIN index \subseteq Modules \X Nat
    /\ \A k \in DOMAIN index : index[k] \in Refs
    /\ pendingSkips \subseteq Nat \X Modules
    /\ lists \in [ModuleTypes -> Seq(Modules)]
    /\ cursors \in [ModuleTypes -> [pass : Nat, position : Nat]]
    /\ openPasses \in Seq(Nat)
    /\ nextPass \in Nat
    /\ passCounts \in [Open -> [ModuleTypes -> [copied : Nat, skipped : Nat]]]
    /\ scheduleLost \in BOOLEAN

\* The name index covers exactly the named FILLING, PRESENT and LEASED slots,
\* under the slot's own module and pass: a carried copy is never found under
\* the current pass, a slot given back is never found at all.
IndexExact ==
    /\ \A k \in DOMAIN index : k = <<At(index[k]).name, At(index[k]).pass>>
    /\ {r \in Refs : /\ At(r).name # None
                     /\ At(r).state \in {"FILLING", "PRESENT", "LEASED"}}
         = Range(index)

\* A slot is named only for an open pass and only once its type's cursor is
\* past the module: no module is copied twice in a pass, and closing a pass
\* leaves nothing of it in the ring.
NamedBehindCursor ==
    \A r \in Refs : At(r).name # None =>
        /\ At(r).pass \in Open
        /\ At(r).name \in Range(lists[r[1]])
        /\ Produced(At(r).name, At(r).pass)

\* A pending skip is of an open pass and still ahead of the cursor: the
\* producer will meet it, so a pass that waits for its skips can end.
SkipsAhead ==
    \A skip \in pendingSkips :
        /\ skip[1] \in Open
        /\ skip[2] \in Installed
        /\ ~Produced(skip[2], skip[1])

\* The open passes are the last ones armed, without a gap, and every cursor is
\* in one of them or parked at the pass that will be armed next.
PassesConsecutive ==
    /\ Open = (nextPass - Len(openPasses))..(nextPass - 1)
    /\ openPasses # <<>> => CurrentPass = nextPass - Len(openPasses)
    /\ \A t \in ModuleTypes : lists[t] # <<>> =>
          cursors[t].pass \in Open \union {nextPass}
=============================================================================
