--------------------- MODULE WeightSlotTableInvariants ---------------------
(***************************************************************************)
(* What makes the invariants of the weight slot table inductive.           *)
(***************************************************************************)
EXTENDS WeightSlotTable

\* A FREE slot has no name.
FreeUnnamed ==
    \A t \in ModuleTypes : \A i \in DOMAIN slots[t] :
        slots[t][i].state = "FREE" => slots[t][i].name = None

\* A list names each module once, and its cursor is inside it.
CursorsInside ==
    /\ \A t, u \in ModuleTypes : \A i \in DOMAIN lists[t], j \in DOMAIN lists[u] :
          lists[t][i] = lists[u][j] => t = u /\ i = j
    /\ \A t \in ModuleTypes : lists[t] # <<>> => cursors[t].position \in DOMAIN lists[t]

\* The deque holds consecutive ids, the last one armed at its end.
DequeConsecutive ==
    /\ nextPass > Len(openPasses)
    /\ \A i \in 1..Len(openPasses) : openPasses[i] = nextPass - Len(openPasses) + i - 1

\* The types of the slots and their index.
SlotsTyped ==
    /\ slots \in [ModuleTypes -> Seq(Slot)]
    /\ DOMAIN index \subseteq Modules \X Nat
    /\ \A k \in DOMAIN index : index[k] \in Refs

\* The types of the rest of the table.
ScheduleTyped ==
    /\ pendingSkips \subseteq Nat \X Modules
    /\ lists \in [ModuleTypes -> Seq(Modules)]
    /\ cursors \in [ModuleTypes -> [pass : Nat, position : Nat]]
    /\ openPasses \in Seq(Nat)
    /\ nextPass \in Nat
    /\ passCounts \in [Open -> [ModuleTypes -> [copied : Nat, skipped : Nat]]]
    /\ scheduleLost \in BOOLEAN

\* The slots and their index ...
SlotsInv == SlotsTyped /\ FreeUnnamed /\ IndexExact /\ NamedBehindCursor

\* ... and the lists, the cursors and the passes.
ScheduleInv ==
    /\ ScheduleTyped /\ CursorsInside /\ DequeConsecutive
    /\ SkipsAhead /\ PassesConsecutive

\* The inductive invariant.
TableInv == SlotsInv /\ ScheduleInv

\* A slot the index must name, and the key it must have there.
Active(r) == At(r).name # None /\ At(r).state \in {"FILLING", "PRESENT", "LEASED"}
Key(r) == <<At(r).name, At(r).pass>>

\* A slot just reserved.
Reserving == [FreeSlot EXCEPT !.state = "FILLING"]

\* What the worker's calls may do to a slot s beside the producer: none of them
\* touches the slot the producer fills, except to mark a named one for release.
SlotBeside(s, u) ==
    /\ s.state = "FILLING" =>
         /\ u.state = "FILLING" /\ u.name = s.name /\ u.pass = s.pass
         /\ s.name = None => u = s
    /\ u.state # "FREE" =>
         /\ s.state # "FREE" /\ u.name = s.name /\ u.pass = s.pass
         /\ s.state = "FILLING" <=> u.state = "FILLING"

\* A step that does nothing else to any slot.
SlotsBeside == Refs' = Refs /\ \A r \in Refs : SlotBeside(At(r), At(r)')

=============================================================================
