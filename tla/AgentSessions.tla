----------------------------- MODULE AgentSessions -----------------------------
(***************************************************************************)
(* Agent sessions and the turns sent for them:                             *)
(*   src/batchgen/server/agent_sessions.py (the session registry) and      *)
(*   src/batchgen/server/turn_api.py (the handlers that call it).          *)
(*                                                                         *)
(* Handlers run on one event loop: an action is what a handler does        *)
(* between two awaits. The scheduler below is seen through the waiter of a *)
(* turn only: it is resolved, failed with all other pending turns, or      *)
(* cancelled; BatchScheduler models how.                                   *)
(*                                                                         *)
(* Abstracted: bodies and answers; a request the registry refuses changes  *)
(* nothing and is a disabled action. The parent of a session is checked    *)
(* when it is opened and not kept.                                         *)
(***************************************************************************)
EXTENDS Integers, Sequences, FiniteSets

CONSTANTS
    Sessions,       \* session ids clients may use
    Turns,          \* turn ids, each used once
    Trajectories,
    MaxTerminal,    \* _max_terminal
    None

ASSUME SessionsAssumption ==
    /\ MaxTerminal \in Nat \ {0}
    /\ IsFiniteSet(Sessions)
    /\ None \notin Sessions \union Turns \union Trajectories

VARIABLES
    state,       \* of each session id, "unknown" if the registry holds no record
    traj,        \* SessionRecord.traj_id
    inFlight,    \* SessionRecord.in_flight_turn_id
    completed,   \* SessionRecord.in_flight_turn_completed
    terminal,    \* _terminal: ids of ended sessions, oldest first
    sessionOf,   \* the session a turn names
    waiter,      \* the scheduler's side of a turn
    handler,     \* create_turn: "none", "awaiting", then what it answered
    cancelled    \* history: turns an abort reported as the one it ended

vars == <<state, traj, inFlight, completed, terminal, sessionOf, waiter, handler, cancelled>>

States == {"unknown", "open", "turn_in_flight", "idle", "closed", "aborted"}
Ended == {"closed", "aborted"}
Live == {s \in Sessions : state[s] \notin Ended \union {"unknown"}}

Init ==
    /\ state = [s \in Sessions |-> "unknown"]
    /\ traj = [s \in Sessions |-> None]
    /\ inFlight = [s \in Sessions |-> None]
    /\ completed = [s \in Sessions |-> FALSE]
    /\ terminal = <<>>
    /\ sessionOf = [t \in Turns |-> None]
    /\ waiter = [t \in Turns |-> "none"]
    /\ handler = [t \in Turns |-> "none"]
    /\ cancelled = {}

-----------------------------------------------------------------------------
(* The registry                                                            *)

\* _retire and _prune: the ids join the tombstones, and the oldest beyond the
\* cap are forgotten.
Tombstones(ids) == terminal \o ids
Excess(ids) == IF Len(Tombstones(ids)) > MaxTerminal THEN Len(Tombstones(ids)) - MaxTerminal ELSE 0
Forgotten(ids) == {Tombstones(ids)[i] : i \in 1..Excess(ids)}

Retire(ids, as) ==
    /\ terminal' = SubSeq(Tombstones(ids), Excess(ids) + 1, Len(Tombstones(ids)))
    /\ state' = [s \in Sessions |->
                    IF s \in Forgotten(ids) THEN "unknown"
                    ELSE IF \E i \in DOMAIN ids : ids[i] = s THEN as
                    ELSE state[s]]

\* open: the id is unknown, a parent is known and of the same trajectory.
Open(s, j, parent) ==
    /\ state[s] = "unknown"
    /\ parent # None => state[parent] # "unknown" /\ traj[parent] = j
    /\ state' = [state EXCEPT ![s] = "open"]
    /\ traj' = [traj EXCEPT ![s] = j]
    /\ inFlight' = [inFlight EXCEPT ![s] = None]
    /\ completed' = [completed EXCEPT ![s] = FALSE]
    /\ UNCHANGED <<terminal, sessionOf, waiter, handler, cancelled>>

\* The TTL of the oldest tombstone is over: the next call forgets it.
Expire ==
    /\ terminal # <<>>
    /\ state' = [state EXCEPT ![Head(terminal)] = "unknown"]
    /\ terminal' = Tail(terminal)
    /\ UNCHANGED <<traj, inFlight, completed, sessionOf, waiter, handler, cancelled>>

\* Faulty variant of EndTurn: whatever turn the session has in flight is ended.
EndTurnOfAny(t) ==
    LET s == sessionOf[t]
        ends == state[s] # "unknown"
    IN  /\ inFlight' = IF ends THEN [inFlight EXCEPT ![s] = None] ELSE inFlight
        /\ completed' = IF ends THEN [completed EXCEPT ![s] = FALSE] ELSE completed
        /\ state' = IF ends /\ state[s] = "turn_in_flight" THEN [state EXCEPT ![s] = "idle"] ELSE state

\* end_turn: only of the turn the session still has in flight.
EndTurn(t) ==
    LET s == sessionOf[t]
        ends == state[s] # "unknown" /\ inFlight[s] = t
    IN  /\ inFlight' = IF ends THEN [inFlight EXCEPT ![s] = None] ELSE inFlight
        /\ completed' = IF ends THEN [completed EXCEPT ![s] = FALSE] ELSE completed
        /\ state' = IF ends /\ state[s] = "turn_in_flight" THEN [state EXCEPT ![s] = "idle"] ELSE state

-----------------------------------------------------------------------------
(* Turns                                                                   *)

\* begin_turn admits one turn at a time, to a session not ended.
MayBegin(s) == state[s] \in {"open", "idle"}

\* create_turn up to its await: begin_turn, then submit_turn accepts.
CreateTurn(t, s) ==
    /\ handler[t] = "none" /\ MayBegin(s)
    /\ state' = [state EXCEPT ![s] = "turn_in_flight"]
    /\ inFlight' = [inFlight EXCEPT ![s] = t]
    /\ completed' = [completed EXCEPT ![s] = FALSE]
    /\ sessionOf' = [sessionOf EXCEPT ![t] = s]
    /\ waiter' = [waiter EXCEPT ![t] = "pending"]
    /\ handler' = [handler EXCEPT ![t] = "awaiting"]
    /\ UNCHANGED <<traj, terminal, cancelled>>

\* submit_turn raises (400, 429 or 503): end_turn runs in the same step, and
\* the session is idle even if no turn ever ran.
RefuseTurn(t, s) ==
    /\ handler[t] = "none" /\ MayBegin(s)
    /\ state' = [state EXCEPT ![s] = "idle"]
    /\ sessionOf' = [sessionOf EXCEPT ![t] = s]
    /\ handler' = [handler EXCEPT ![t] = "error"]
    /\ UNCHANGED <<traj, inFlight, completed, terminal, waiter, cancelled>>

\* _resolve_turn: complete_turn and the future's result in one step.
Resolve(t) ==
    /\ waiter[t] = "pending"
    /\ waiter' = [waiter EXCEPT ![t] = "resolved"]
    /\ LET s == sessionOf[t]
       IN  completed' = IF state[s] # "unknown" /\ inFlight[s] = t
                        THEN [completed EXCEPT ![s] = TRUE] ELSE completed
    /\ UNCHANGED <<state, traj, inFlight, terminal, sessionOf, handler, cancelled>>

\* _close_turn_gate: every pending turn fails.
FailTurns ==
    /\ \E t \in Turns : waiter[t] = "pending"
    /\ waiter' = [t \in Turns |-> IF waiter[t] = "pending" THEN "failed" ELSE waiter[t]]
    /\ UNCHANGED <<state, traj, inFlight, completed, terminal, sessionOf, handler, cancelled>>

\* cancel_turn of a pending turn; nothing happens to another.
CancelTurn(t) ==
    waiter' = IF waiter[t] = "pending" THEN [waiter EXCEPT ![t] = "aborted"] ELSE waiter

\* Faulty variant of Answer: a turn that failed does not reach end_turn.
AnswerWithoutFinally(t) ==
    /\ handler[t] = "awaiting" /\ waiter[t] # "pending"
    /\ handler' = [handler EXCEPT ![t] = IF waiter[t] = "resolved" THEN "answered" ELSE "error"]
    /\ IF waiter[t] = "resolved" THEN EndTurn(t) ELSE UNCHANGED <<state, inFlight, completed>>
    /\ UNCHANGED <<traj, terminal, sessionOf, waiter, cancelled>>

\* The handler resumes with the future's outcome, answers and ends the turn.
Answer(t) ==
    /\ handler[t] = "awaiting" /\ waiter[t] # "pending"
    /\ handler' = [handler EXCEPT ![t] = IF waiter[t] = "resolved" THEN "answered" ELSE "error"]
    /\ EndTurn(t)
    /\ UNCHANGED <<traj, terminal, sessionOf, waiter, cancelled>>

\* The HTTP request is cancelled while it waits.
Disconnect(t) ==
    /\ handler[t] = "awaiting"
    /\ CancelTurn(t)
    /\ handler' = [handler EXCEPT ![t] = "gone"]
    /\ EndTurn(t)
    /\ UNCHANGED <<traj, terminal, sessionOf, cancelled>>

-----------------------------------------------------------------------------
(* Closing and aborting                                                    *)

\* close is all or nothing: no session it would close has a turn in flight.
MayClose(s, targets) == \A r \in targets : state[r] # "turn_in_flight"

\* The orders in which a set of sessions can be retired.
Orders(S) ==
    {ids \in [1..Cardinality(S) -> S] :
        /\ {ids[i] : i \in DOMAIN ids} = S
        /\ \A i, k \in DOMAIN ids : ids[i] = ids[k] => i = k}

\* close of one session, or of every live session of its trajectory.
Close(s, whole) ==
    LET targets == IF whole THEN {r \in Live : traj[r] = traj[s]} ELSE {s}
    IN  /\ s \in Live
        /\ MayClose(s, targets)
        /\ \E ids \in Orders(targets) : Retire(ids, "closed")
        /\ UNCHANGED <<traj, inFlight, completed, sessionOf, waiter, handler, cancelled>>

\* Faulty variant of MayAbort: a turn already routed is aborted too.
MayAbortRouted(s) == s \in Live

\* abort is refused once the completion of the turn in flight was routed.
MayAbort(s) == s \in Live /\ ~completed[s]

\* abort_session: the registry first, then cancel_turn of what was in flight.
Abort(s) ==
    /\ MayAbort(s)
    /\ inFlight' = [inFlight EXCEPT ![s] = None]
    /\ Retire(<<s>>, "aborted")
    /\ IF inFlight[s] # None
       THEN CancelTurn(inFlight[s]) /\ cancelled' = cancelled \union {inFlight[s]}
       ELSE UNCHANGED <<waiter, cancelled>>
    /\ UNCHANGED <<traj, completed, sessionOf, handler>>

-----------------------------------------------------------------------------

Next ==
    \/ \E s \in Sessions, j \in Trajectories, parent \in Sessions \union {None} : Open(s, j, parent)
    \/ Expire
    \/ \E t \in Turns, s \in Sessions : CreateTurn(t, s) \/ RefuseTurn(t, s)
    \/ \E t \in Turns : Resolve(t) \/ Answer(t) \/ Disconnect(t)
    \/ FailTurns
    \/ \E s \in Sessions : Abort(s) \/ \E whole \in BOOLEAN : Close(s, whole)

Spec == Init /\ [][Next]_vars

\* The loop resumes a handler whose future is done. Nothing is owed by the
\* scheduler: a turn has no timeout of its own.
Fairness == \A t \in Turns : WF_vars(Answer(t))

FairSpec == Spec /\ Fairness

-----------------------------------------------------------------------------
(* Properties                                                              *)

\* A turn somebody still waits for is the one its session has in flight: no
\* session has two, nobody waits for one of a session that was closed, aborted or
\* forgotten (the worker may still run a turn an abort has detached), and a late
\* end_turn of an earlier turn (the id may have been reused) never frees the
\* session under a pending one.
PendingIsInFlight ==
    \A t \in Turns : waiter[t] = "pending" =>
        LET s == sessionOf[t]
        IN  s # None /\ state[s] = "turn_in_flight" /\ inFlight[s] = t /\ ~completed[s]

\* Abort or answer, never both: a turn that an abort reported as ended is not
\* answered with its result, however late its handler resumes.
AbortedNotAnswered == \A t \in cancelled : handler[t] # "answered" /\ waiter[t] # "resolved"

\* A session in flight has a handler that will end its turn.
InFlightHasHandler ==
    \A s \in Sessions : state[s] = "turn_in_flight" =>
        inFlight[s] # None /\ handler[inFlight[s]] = "awaiting" /\ sessionOf[inFlight[s]] = s

\* Every turn submitted to the scheduler is resolved, failed or cancelled in the
\* end. BatchScheduler says when (TurnsEnd): not if the completion pump has died
\* of a request error while the pool goes on serving.
SchedulerEndsTurns == \A t \in Turns : waiter[t] = "pending" ~> waiter[t] # "pending"

\* If the scheduler ends every turn, no session is stuck: one with a turn in
\* flight becomes idle or is aborted, whatever the turn's outcome.
SessionsFreed ==
    SchedulerEndsTurns =>
        \A s \in Sessions : state[s] = "turn_in_flight" ~> state[s] # "turn_in_flight"

=============================================================================
