--------------------------- MODULE HostPageLedger ---------------------------
(***************************************************************************)
(* What the host-KV region promises about a page, seen from outside: at    *)
(* any time a page is free, in transit, owned by one sequence, or resident *)
(* in the prefix cache, and it moves only along the steps below.  A page   *)
(* never passes from one sequence to another, or from the prefix cache to  *)
(* a sequence, without being free or in transit first, and only a rebuild  *)
(* of a region without sequences recovers pages a dead process held.       *)
(***************************************************************************)
CONSTANTS Pages, SequenceIds, PrefixResident, Free, Transit

VARIABLE place

LedgerInit == place = [page \in Pages |-> Free]

At(where) == {page \in Pages : place[page] = where}
Move(S, where) == place' = [page \in Pages |-> IF page \in S THEN where ELSE place[page]]

\* Popped off the free stack by a process that will attach them.
Take == \E S \in SUBSET At(Free) : Move(S, Transit)

\* Attached to a sequence, or back on the free stack.
Bind == \E s \in SequenceIds : \E S \in SUBSET At(Transit) : Move(S, s)
PutBack == \E S \in SUBSET At(Transit) : Move(S, Free)

\* A wave hands free pages to several sequences in one step; cut short by a
\* kill, it leaves some of them in transit.
Grant == \E S \in SUBSET At(Free) : \E to \in [S -> SequenceIds \union {Transit}] :
            place' = [page \in Pages |-> IF page \in S THEN to[page] ELSE place[page]]

\* Taken from a sequence or from the prefix cache, on the way to the stack.
Detach == \E s \in SequenceIds : \E S \in SUBSET At(s) : Move(S, Transit)
Drop == \E S \in SUBSET At(PrefixResident) : Move(S, Transit)

\* Handed by their sequence to the prefix cache, but for those that a kill left
\* on the way.
Retain == \E s \in SequenceIds : \E S \in SUBSET At(s) : \E lost \in SUBSET S :
            place' = [page \in Pages |-> IF page \in lost THEN Transit
                                        ELSE IF page \in S THEN PrefixResident
                                        ELSE place[page]]

\* With no sequence left, everything but the resident pages becomes free.
Rebuild ==
    /\ \A page \in Pages : place[page] \notin SequenceIds
    /\ Move(Pages \ At(PrefixResident), Free)

LedgerNext == Take \/ Bind \/ PutBack \/ Grant \/ Detach \/ Drop \/ Retain \/ Rebuild

LedgerSpec == LedgerInit /\ [][LedgerNext]_place
=============================================================================
