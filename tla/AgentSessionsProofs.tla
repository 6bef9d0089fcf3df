-------------------------- MODULE AgentSessionsProofs --------------------------
(***************************************************************************)
(* For any sessions, turns and trajectories: a turn the scheduler may run  *)
(* is the one its session has in flight, and an aborted turn is never      *)
(* answered.                                                               *)
(***************************************************************************)
EXTENDS AgentSessions, FiniteSetTheorems, TLAPS

\* The types the arguments need.
SessionTypes ==
    /\ state \in [Sessions -> States]
    /\ inFlight \in [Sessions -> Turns \union {None}]
    /\ completed \in [Sessions -> BOOLEAN]
    /\ terminal \in Seq(Sessions)
    /\ sessionOf \in [Turns -> Sessions \union {None}]
    /\ waiter \in [Turns -> {"none", "pending", "resolved", "failed", "aborted"}]
    /\ handler \in [Turns -> {"none", "awaiting", "answered", "error", "gone"}]
    /\ cancelled \subseteq Turns

\* What is forgotten has ended, and no id has two tombstones.
TombstonesEnded ==
    /\ \A i \in DOMAIN terminal : state[terminal[i]] \in Ended
    /\ \A i, k \in DOMAIN terminal : terminal[i] = terminal[k] => i = k

\* A session has a turn exactly while it is in flight; that turn's handler
\* waits, it names this session, and it is resolved only if marked completed.
FlightInv ==
    \A s \in Sessions :
        /\ inFlight[s] # None => state[s] = "turn_in_flight"
        /\ state[s] = "turn_in_flight" =>
              /\ inFlight[s] \in Turns
              /\ handler[inFlight[s]] = "awaiting"
              /\ sessionOf[inFlight[s]] = s
              /\ waiter[inFlight[s]] # "none"
              /\ waiter[inFlight[s]] = "resolved" => completed[s]

\* A turn an abort ended keeps a waiter that is not resolved.
CancelledInv ==
    \A t \in cancelled : waiter[t] \in {"failed", "aborted"} /\ handler[t] \notin {"none", "answered"}

SessionInv == SessionTypes /\ TombstonesEnded /\ FlightInv /\ PendingIsInFlight /\ CancelledInv

\* Retiring live sessions keeps the tombstones ended and distinct, touches no
\* other live session, and leaves the retired ones ended or forgotten.
LEMMA RetireEffect ==
    ASSUME SessionTypes, TombstonesEnded, NEW ids \in Seq(Sessions), NEW as \in Ended,
           \A i, k \in DOMAIN ids : ids[i] = ids[k] => i = k,
           \A i \in DOMAIN ids : state[ids[i]] \notin Ended,
           Retire(ids, as)
    PROVE  /\ terminal' \in Seq(Sessions) /\ state' \in [Sessions -> States]
           /\ TombstonesEnded'
           /\ \A s \in Sessions : state[s] \notin Ended /\ (\A i \in DOMAIN ids : ids[i] # s)
                                    => state'[s] = state[s]
           /\ \A i \in DOMAIN ids : state'[ids[i]] \in Ended \union {"unknown"}
           /\ \A s \in Sessions : state'[s] = "turn_in_flight" => state[s] = "turn_in_flight"
  <1> DEFINE all == Tombstones(ids)
             n == Excess(ids)
             gone == Forgotten(ids)
  <1>1. /\ all \in Seq(Sessions) /\ Len(all) = Len(terminal) + Len(ids)
        /\ \A i \in 1..Len(terminal) : all[i] = terminal[i]
        /\ \A i \in 1..Len(ids) : all[Len(terminal) + i] = ids[i]
    BY DEF SessionTypes, Tombstones
  <1>2. n \in 0..Len(all)
    BY <1>1, SessionsAssumption DEF Excess
  <1>3. /\ terminal' = SubSeq(all, n + 1, Len(all))
        /\ state' = [s \in Sessions |-> IF s \in gone THEN "unknown"
                                       ELSE IF \E i \in DOMAIN ids : ids[i] = s THEN as
                                       ELSE state[s]]
        /\ gone = {all[i] : i \in 1..n}
    BY DEF Retire, Forgotten
  <1>4. \A i \in 1..Len(all) :
           \/ i \in DOMAIN terminal /\ all[i] = terminal[i] /\ state[all[i]] \in Ended
           \/ i - Len(terminal) \in DOMAIN ids /\ all[i] = ids[i - Len(terminal)]
    <2> SUFFICES ASSUME NEW i \in 1..Len(all)
                 PROVE  \/ i \in DOMAIN terminal /\ all[i] = terminal[i] /\ state[all[i]] \in Ended
                        \/ i - Len(terminal) \in DOMAIN ids /\ all[i] = ids[i - Len(terminal)]
      OBVIOUS
    <2>1. CASE i <= Len(terminal)
      BY <1>1, <2>1 DEF SessionTypes, TombstonesEnded
    <2>2. CASE i > Len(terminal)
      <3> DEFINE k == i - Len(terminal)
      <3>1. k \in 1..Len(ids) /\ Len(terminal) + k = i
        BY <1>1, <2>2 DEF SessionTypes
      <3>2. QED  BY <1>1, <3>1
    <2>3. QED  BY <2>1, <2>2 DEF SessionTypes
  <1> HIDE DEF all, n, gone
  <1>5. \A i, k \in 1..Len(all) : all[i] = all[k] => i = k
    <2> SUFFICES ASSUME NEW i \in 1..Len(all), NEW k \in 1..Len(all), all[i] = all[k]
                 PROVE  i = k
      OBVIOUS
    <2>1. CASE i \in DOMAIN terminal /\ k \in DOMAIN terminal
      BY <1>1, <2>1 DEF SessionTypes, TombstonesEnded
    <2>2. CASE i \in DOMAIN terminal /\ k \notin DOMAIN terminal
      BY <1>4, <1>1, <2>2 DEF SessionTypes, TombstonesEnded
    <2>3. CASE i \notin DOMAIN terminal /\ k \in DOMAIN terminal
      BY <1>4, <1>1, <2>3 DEF SessionTypes, TombstonesEnded
    <2>4. CASE i \notin DOMAIN terminal /\ k \notin DOMAIN terminal
      BY <1>4, <2>4 DEF SessionTypes
    <2>5. QED  BY <2>1, <2>2, <2>3, <2>4
  <1>6. /\ terminal' \in Seq(Sessions)
        /\ Len(terminal') = Len(all) - n
        /\ \A i \in 1..Len(terminal') : terminal'[i] = all[n + i]
    BY <1>1, <1>2, <1>3
  <1>7. state' \in [Sessions -> States]
    BY <1>3 DEF SessionTypes, States, Ended
  <1>8. \A i \in 1..Len(terminal') : n + i \in 1..Len(all) /\ terminal'[i] \notin gone
    BY <1>2, <1>3, <1>5, <1>6, <1>1
  <1>9. \A i \in DOMAIN terminal' : state'[terminal'[i]] \in Ended
    <2> SUFFICES ASSUME NEW i \in 1..Len(terminal')
                 PROVE  state'[terminal'[i]] \in Ended
      BY <1>6
    <2>1. terminal'[i] \in Sessions /\ terminal'[i] = all[n + i] /\ n + i \in 1..Len(all)
      BY <1>6, <1>8, <1>1
    <2>2. \/ state[terminal'[i]] \in Ended
          \/ \E k \in DOMAIN ids : ids[k] = terminal'[i]
      BY <1>4, <2>1
    <2>3. QED  BY <1>3, <1>8, <2>1, <2>2
  <1>10. \A i, k \in DOMAIN terminal' : terminal'[i] = terminal'[k] => i = k
    <2> SUFFICES ASSUME NEW i \in 1..Len(terminal'), NEW k \in 1..Len(terminal'),
                        terminal'[i] = terminal'[k]
                 PROVE  i = k
      BY <1>6
    <2>1. n + i \in 1..Len(all) /\ n + k \in 1..Len(all) /\ all[n + i] = all[n + k]
      BY <1>6, <1>8
    <2>2. n + i = n + k
      BY <1>5, <2>1
    <2>3. QED  BY <1>2, <2>2
  <1>11. \A s \in gone : state[s] \in Ended \/ \E i \in DOMAIN ids : ids[i] = s
    <2> SUFFICES ASSUME NEW j \in 1..n
                 PROVE  state[all[j]] \in Ended \/ \E i \in DOMAIN ids : ids[i] = all[j]
      BY <1>3
    <2>1. j \in 1..Len(all)
      BY <1>1, <1>2
    <2>2. QED  BY <1>4, <2>1
  <1>12. \A s \in Sessions : state[s] \notin Ended /\ (\A i \in DOMAIN ids : ids[i] # s)
                             => state'[s] = state[s]
    BY <1>3, <1>11
  <1>13. \A i \in DOMAIN ids : state'[ids[i]] \in Ended \union {"unknown"}
    <2> SUFFICES ASSUME NEW i \in DOMAIN ids
                 PROVE  state'[ids[i]] \in Ended \union {"unknown"}
      OBVIOUS
    <2>1. ids[i] \in Sessions
      OBVIOUS
    <2>2. QED  BY <1>3, <2>1
  <1>14. \A s \in Sessions : state'[s] = "turn_in_flight" => state[s] = "turn_in_flight"
    BY <1>3 DEF Ended
  <1>15. TombstonesEnded'
    BY <1>9, <1>10 DEF TombstonesEnded
  <1>16. QED  BY <1>6, <1>7, <1>12, <1>13, <1>14, <1>15

\* Retiring a set of live sessions without a turn keeps the invariant, if
\* nothing else changes (close).
LEMMA CloseStep ==
    ASSUME SessionInv, NEW s \in Sessions, NEW whole \in BOOLEAN, Close(s, whole)
    PROVE  SessionInv'
  <1> DEFINE targets == IF whole THEN {r \in Live : traj[r] = traj[s]} ELSE {s}
  <1>1. /\ s \in Live
        /\ \A r \in targets : state[r] # "turn_in_flight"
        /\ \E ids \in Orders(targets) : Retire(ids, "closed")
        /\ UNCHANGED <<traj, inFlight, completed, sessionOf, waiter, handler, cancelled>>
    BY DEF Close, MayClose
  <1>2. targets \subseteq Sessions /\ \A r \in targets : state[r] \notin Ended
    BY <1>1 DEF Live
  <1> HIDE DEF targets
  <1>3. PICK ids \in Orders(targets) : Retire(ids, "closed")
    BY <1>1
  <1>4. Cardinality(targets) \in Nat
    BY <1>2, SessionsAssumption, FS_Subset, FS_CardinalityType
  <1>5. /\ ids \in Seq(Sessions)
        /\ \A i, k \in DOMAIN ids : ids[i] = ids[k] => i = k
        /\ \A i \in DOMAIN ids : ids[i] \in targets
    BY <1>2, <1>3, <1>4 DEF Orders
  <1>6. "closed" \in Ended
    BY DEF Ended
  <1>7. /\ terminal' \in Seq(Sessions) /\ state' \in [Sessions -> States]
        /\ TombstonesEnded'
        /\ \A r \in Sessions : state[r] \notin Ended /\ (\A i \in DOMAIN ids : ids[i] # r)
                                 => state'[r] = state[r]
        /\ \A r \in Sessions : state'[r] = "turn_in_flight" => state[r] = "turn_in_flight"
    BY <1>2, <1>3, <1>5, <1>6, RetireEffect DEF SessionInv
  <1>8. \A r \in Sessions : state[r] = "turn_in_flight" => state'[r] = "turn_in_flight"
    BY <1>1, <1>5, <1>7 DEF Ended
  <1>9. SessionTypes' /\ FlightInv' /\ CancelledInv'
    BY <1>1, <1>7, <1>8 DEF SessionInv, SessionTypes, FlightInv, CancelledInv
  <1>10. PendingIsInFlight'
    BY <1>1, <1>8 DEF SessionInv, SessionTypes, PendingIsInFlight
  <1>11. QED  BY <1>7, <1>9, <1>10 DEF SessionInv

\* abort of a session whose turn, if any, is not routed.
LEMMA AbortStep ==
    ASSUME SessionInv, NEW s \in Sessions, Abort(s)
    PROVE  SessionInv'
  <1>1. /\ s \in Live /\ ~completed[s]
        /\ inFlight' = [inFlight EXCEPT ![s] = None]
        /\ Retire(<<s>>, "aborted")
        /\ UNCHANGED <<traj, completed, sessionOf, handler>>
    BY DEF Abort, MayAbort
  <1>2. /\ terminal' \in Seq(Sessions) /\ state' \in [Sessions -> States]
        /\ TombstonesEnded'
        /\ \A r \in Sessions \ {s} : state[r] \notin Ended => state'[r] = state[r]
        /\ state'[s] \in Ended \union {"unknown"}
        /\ \A r \in Sessions : state'[r] = "turn_in_flight" => state[r] = "turn_in_flight"
    <2> DEFINE ids == <<s>>
    <2>1. /\ ids \in Seq(Sessions) /\ DOMAIN ids = {1} /\ ids[1] = s
          /\ "aborted" \in Ended
      BY DEF Ended
    <2>2. Retire(ids, "aborted")
      BY <1>1
    <2> HIDE DEF ids
    <2>3. /\ \A i, k \in DOMAIN ids : ids[i] = ids[k] => i = k
          /\ \A i \in DOMAIN ids : state[ids[i]] \notin Ended
      BY <1>1, <2>1 DEF Live
    <2>4. /\ terminal' \in Seq(Sessions) /\ state' \in [Sessions -> States]
          /\ TombstonesEnded'
          /\ \A r \in Sessions : state[r] \notin Ended /\ (\A i \in DOMAIN ids : ids[i] # r)
                                   => state'[r] = state[r]
          /\ \A i \in DOMAIN ids : state'[ids[i]] \in Ended \union {"unknown"}
          /\ \A r \in Sessions : state'[r] = "turn_in_flight" => state[r] = "turn_in_flight"
      BY <2>1, <2>2, <2>3, RetireEffect DEF SessionInv
    <2>5. QED  BY <2>1, <2>4
  <1>3. state'[s] # "turn_in_flight"
    BY <1>2 DEF Ended
  <1>4. CASE inFlight[s] = None
    <2>1. UNCHANGED <<waiter, cancelled>> /\ inFlight' = inFlight
      BY <1>1, <1>4 DEF Abort, SessionInv, SessionTypes
    <2>2. state[s] # "turn_in_flight"
      BY <1>4, SessionsAssumption DEF SessionInv, FlightInv
    <2>3. SessionTypes' /\ CancelledInv'
      BY <1>1, <1>2, <2>1 DEF SessionInv, SessionTypes, CancelledInv
    <2>4. \A r \in Sessions : state[r] = "turn_in_flight" <=> state'[r] = "turn_in_flight"
      BY <1>2, <1>3, <2>2 DEF Ended
    <2>5. FlightInv'
      BY <1>1, <2>1, <2>4 DEF SessionInv, FlightInv
    <2>6. PendingIsInFlight'
      BY <1>1, <2>1, <2>4 DEF SessionInv, SessionTypes, PendingIsInFlight
    <2>7. QED  BY <1>2, <2>3, <2>5, <2>6 DEF SessionInv
  <1>5. CASE inFlight[s] # None
    <2> DEFINE t == inFlight[s]
    <2>1. /\ state[s] = "turn_in_flight" /\ t \in Turns /\ handler[t] = "awaiting"
          /\ sessionOf[t] = s /\ waiter[t] \notin {"none", "resolved"}
      BY <1>1, <1>5 DEF SessionInv, FlightInv
    <2>2. cancelled' = cancelled \union {t} /\ CancelTurn(t)
      BY <1>5 DEF Abort
    <2> HIDE DEF t
    <2>3. waiter' = IF waiter[t] = "pending" THEN [waiter EXCEPT ![t] = "aborted"] ELSE waiter
      BY <2>2 DEF CancelTurn
    <2>4. /\ waiter' \in [Turns -> {"none", "pending", "resolved", "failed", "aborted"}]
          /\ waiter'[t] \in {"failed", "aborted"}
          /\ \A u \in Turns \ {t} : waiter'[u] = waiter[u]
      BY <2>1, <2>3 DEF SessionInv, SessionTypes
    <2>5. SessionTypes'
      BY <1>1, <1>2, <2>1, <2>2, <2>4 DEF SessionInv, SessionTypes
    <2>6. CancelledInv'
      BY <1>1, <2>1, <2>2, <2>4 DEF SessionInv, SessionTypes, CancelledInv
    <2>7. \A r \in Sessions \ {s} : /\ state[r] = "turn_in_flight" <=> state'[r] = "turn_in_flight"
                                    /\ inFlight'[r] = inFlight[r]
      BY <1>1, <1>2 DEF SessionInv, SessionTypes, Ended
    <2>8. inFlight'[s] = None
      BY <1>1 DEF SessionInv, SessionTypes
    <2>9. FlightInv'
      BY <1>1, <1>3, <2>1, <2>4, <2>7, <2>8 DEF SessionInv, FlightInv
    <2>10. PendingIsInFlight'
      <3> SUFFICES ASSUME NEW u \in Turns, waiter'[u] = "pending"
                   PROVE  /\ sessionOf'[u] # None /\ state'[sessionOf'[u]] = "turn_in_flight"
                          /\ inFlight'[sessionOf'[u]] = u /\ ~completed'[sessionOf'[u]]
        BY DEF PendingIsInFlight
      <3>1. u # t /\ waiter[u] = "pending"
        BY <2>4
      <3>2. /\ sessionOf[u] # None /\ state[sessionOf[u]] = "turn_in_flight"
            /\ inFlight[sessionOf[u]] = u /\ ~completed[sessionOf[u]]
        BY <3>1 DEF SessionInv, PendingIsInFlight
      <3>3. sessionOf[u] \in Sessions \ {s}
        BY <3>1, <3>2 DEF SessionInv, SessionTypes, t
      <3>4. QED  BY <1>1, <2>7, <3>2, <3>3
    <2>11. QED  BY <1>2, <2>5, <2>6, <2>9, <2>10 DEF SessionInv
  <1>6. QED  BY <1>4, <1>5

\* end_turn by the handler of a turn the scheduler no longer runs: the session
\* is freed if the turn is the one in flight, and left alone otherwise.
LEMMA EndStep ==
    ASSUME SessionInv, NEW t \in Turns, handler[t] = "awaiting", EndTurn(t),
           waiter' \in [Turns -> {"none", "pending", "resolved", "failed", "aborted"}],
           waiter'[t] # "pending",
           \A u \in Turns \ {t} : waiter'[u] = waiter[u],
           t \in cancelled => waiter'[t] \in {"failed", "aborted"},
           NEW answer \in {"answered", "error", "gone"},
           answer = "answered" => waiter[t] = "resolved",
           handler' = [handler EXCEPT ![t] = answer],
           UNCHANGED <<terminal, sessionOf, cancelled>>
    PROVE  SessionInv'
  <1> DEFINE s == sessionOf[t]
             ends == state[s] # "unknown" /\ inFlight[s] = t
  <1>1. /\ inFlight' = IF ends THEN [inFlight EXCEPT ![s] = None] ELSE inFlight
        /\ completed' = IF ends THEN [completed EXCEPT ![s] = FALSE] ELSE completed
        /\ state' = IF ends /\ state[s] = "turn_in_flight" THEN [state EXCEPT ![s] = "idle"] ELSE state
    BY DEF EndTurn
  <1>2. \A r \in Sessions : inFlight[r] = t => r = s /\ state[r] = "turn_in_flight"
    BY SessionsAssumption DEF SessionInv, FlightInv
  <1>3. \A r \in Sessions : inFlight[r] # t =>
           inFlight'[r] = inFlight[r] /\ completed'[r] = completed[r] /\ state'[r] = state[r]
    BY <1>1 DEF SessionInv, SessionTypes
  <1>4. \A r \in Sessions : inFlight[r] = t => inFlight'[r] = None /\ state'[r] = "idle"
    BY <1>1, <1>2 DEF SessionInv, SessionTypes
  <1> HIDE DEF s, ends
  <1>5. /\ inFlight' \in [Sessions -> Turns \union {None}]
        /\ completed' \in [Sessions -> BOOLEAN]
        /\ state' \in [Sessions -> States]
    BY <1>1 DEF SessionInv, SessionTypes, States
  <1>6. handler' \in [Turns -> {"none", "awaiting", "answered", "error", "gone"}]
    BY DEF SessionInv, SessionTypes
  <1>7. SessionTypes'
    BY <1>5, <1>6 DEF SessionInv, SessionTypes
  <1>8. TombstonesEnded'
    <2> SUFFICES ASSUME NEW i \in DOMAIN terminal
                 PROVE  state'[terminal[i]] \in Ended
      BY DEF SessionInv, TombstonesEnded
    <2>1. terminal[i] \in Sessions /\ state[terminal[i]] \in Ended
      BY DEF SessionInv, SessionTypes, TombstonesEnded
    <2>2. inFlight[terminal[i]] # t
      BY <1>2, <2>1 DEF Ended
    <2>3. QED  BY <1>3, <2>1, <2>2
  <1>9. FlightInv'
    <2> SUFFICES ASSUME NEW r \in Sessions
                 PROVE  /\ inFlight'[r] # None => state'[r] = "turn_in_flight"
                        /\ state'[r] = "turn_in_flight" =>
                              /\ inFlight'[r] \in Turns
                              /\ handler'[inFlight'[r]] = "awaiting"
                              /\ sessionOf'[inFlight'[r]] = r
                              /\ waiter'[inFlight'[r]] # "none"
                              /\ waiter'[inFlight'[r]] = "resolved" => completed'[r]
      BY DEF FlightInv
    <2>1. CASE inFlight[r] = t
      BY <1>4, <2>1
    <2>2. CASE inFlight[r] # t
      <3>1. inFlight'[r] = inFlight[r] /\ completed'[r] = completed[r] /\ state'[r] = state[r]
        BY <1>3, <2>2
      <3>2. \A u \in Turns \ {t} : handler'[u] = handler[u]
        BY DEF SessionInv, SessionTypes
      <3>3. QED  BY <2>2, <3>1, <3>2 DEF SessionInv, FlightInv
    <2>3. QED  BY <2>1, <2>2
  <1>10. PendingIsInFlight'
    <2> SUFFICES ASSUME NEW u \in Turns, waiter'[u] = "pending"
                 PROVE  /\ sessionOf[u] # None /\ state'[sessionOf[u]] = "turn_in_flight"
                        /\ inFlight'[sessionOf[u]] = u /\ ~completed'[sessionOf[u]]
      BY DEF PendingIsInFlight
    <2>1. /\ u # t /\ sessionOf[u] \in Sessions /\ state[sessionOf[u]] = "turn_in_flight"
          /\ inFlight[sessionOf[u]] = u /\ ~completed[sessionOf[u]]
      BY DEF SessionInv, SessionTypes, PendingIsInFlight
    <2>2. QED  BY <1>3, <2>1, SessionsAssumption
  <1>11. CancelledInv'
    BY <1>6 DEF SessionInv, SessionTypes, CancelledInv
  <1>12. QED  BY <1>7, <1>8, <1>9, <1>10, <1>11 DEF SessionInv

\* Every action keeps the invariant.
LEMMA SessionNext == SessionInv /\ [Next]_vars => SessionInv'
  <1> SUFFICES ASSUME SessionInv, [Next]_vars PROVE SessionInv'
    OBVIOUS
  <1>1. ASSUME NEW s \in Sessions, NEW j \in Trajectories, NEW parent, Open(s, j, parent)
        PROVE  SessionInv'
    <2>1. SessionTypes' /\ TombstonesEnded' /\ CancelledInv'
      BY <1>1 DEF Open, SessionInv, SessionTypes, States, TombstonesEnded, CancelledInv, Ended
    <2>2. FlightInv'
      BY <1>1 DEF Open, SessionInv, SessionTypes, FlightInv
    <2>3. PendingIsInFlight'
      BY <1>1 DEF Open, SessionInv, SessionTypes, PendingIsInFlight
    <2>4. QED  BY <2>1, <2>2, <2>3 DEF SessionInv
  <1>2. CASE Expire
    <2> DEFINE h == terminal[1]
    <2>1. /\ terminal # <<>> /\ h \in Sessions /\ state[h] \in Ended
          /\ state' = [state EXCEPT ![h] = "unknown"] /\ terminal' = Tail(terminal)
          /\ UNCHANGED <<traj, inFlight, completed, sessionOf, waiter, handler, cancelled>>
      BY <1>2 DEF Expire, SessionInv, SessionTypes, TombstonesEnded
    <2>2. /\ terminal' \in Seq(Sessions) /\ Len(terminal') = Len(terminal) - 1
          /\ \A i \in 1..Len(terminal') : i + 1 \in 1..Len(terminal) /\ terminal'[i] = terminal[i + 1]
      BY <2>1 DEF SessionInv, SessionTypes
    <2>3. \A i \in 1..Len(terminal') : terminal'[i] # h
      <3> SUFFICES ASSUME NEW i \in 1..Len(terminal')
                   PROVE  terminal[i + 1] # h
        BY <2>2
      <3>1. DOMAIN terminal = 1..Len(terminal) /\ 1 \in DOMAIN terminal /\ i + 1 \in DOMAIN terminal
        BY <2>1, <2>2 DEF SessionInv, SessionTypes
      <3>2. i + 1 # 1
        BY <2>2
      <3>3. QED  BY <3>1, <3>2 DEF SessionInv, TombstonesEnded
    <2> HIDE DEF h
    <2>4. SessionTypes'
      BY <2>1, <2>2 DEF SessionInv, SessionTypes, States
    <2>5. TombstonesEnded'
      <3>1. \A i \in DOMAIN terminal' : state'[terminal'[i]] \in Ended
        BY <2>1, <2>2, <2>3 DEF SessionInv, SessionTypes, TombstonesEnded
      <3>2. \A i, k \in DOMAIN terminal' : terminal'[i] = terminal'[k] => i = k
        <4> SUFFICES ASSUME NEW i \in 1..Len(terminal'), NEW k \in 1..Len(terminal'),
                            terminal'[i] = terminal'[k]
                     PROVE  i = k
          BY <2>2
        <4>1. /\ i + 1 \in DOMAIN terminal /\ k + 1 \in DOMAIN terminal
              /\ terminal[i + 1] = terminal[k + 1]
          <5>1. DOMAIN terminal = 1..Len(terminal)
            BY DEF SessionInv, SessionTypes
          <5>2. QED  BY <2>2, <5>1
        <4>2. i + 1 = k + 1
          BY <4>1 DEF SessionInv, TombstonesEnded
        <4>3. QED  BY <4>2
      <3>3. QED  BY <3>1, <3>2 DEF TombstonesEnded
    <2>6. \A s \in Sessions : /\ state[s] = "turn_in_flight" <=> state'[s] = "turn_in_flight"
      BY <2>1 DEF SessionInv, SessionTypes, Ended
    <2>7. FlightInv' /\ CancelledInv'
      BY <2>1, <2>6 DEF SessionInv, FlightInv, CancelledInv
    <2>8. PendingIsInFlight'
      BY <2>1, <2>6 DEF SessionInv, SessionTypes, PendingIsInFlight
    <2>9. QED  BY <2>4, <2>5, <2>7, <2>8 DEF SessionInv
  <1>3. ASSUME NEW t \in Turns, NEW s \in Sessions, CreateTurn(t, s)
        PROVE  SessionInv'
    <2>1. /\ handler[t] = "none" /\ state[s] \in {"open", "idle"}
          /\ state' = [state EXCEPT ![s] = "turn_in_flight"]
          /\ inFlight' = [inFlight EXCEPT ![s] = t]
          /\ completed' = [completed EXCEPT ![s] = FALSE]
          /\ sessionOf' = [sessionOf EXCEPT ![t] = s]
          /\ waiter' = [waiter EXCEPT ![t] = "pending"]
          /\ handler' = [handler EXCEPT ![t] = "awaiting"]
          /\ UNCHANGED <<traj, terminal, cancelled>>
      BY <1>3 DEF CreateTurn, MayBegin
    <2>2. t \notin cancelled
      BY <2>1 DEF SessionInv, CancelledInv
    <2>3. SessionTypes' /\ TombstonesEnded'
      BY <2>1 DEF SessionInv, SessionTypes, States, TombstonesEnded, Ended
    <2>4. FlightInv'
      <3> SUFFICES ASSUME NEW r \in Sessions
                   PROVE  /\ inFlight'[r] # None => state'[r] = "turn_in_flight"
                          /\ state'[r] = "turn_in_flight" =>
                                /\ inFlight'[r] \in Turns
                                /\ handler'[inFlight'[r]] = "awaiting"
                                /\ sessionOf'[inFlight'[r]] = r
                                /\ waiter'[inFlight'[r]] # "none"
                                /\ waiter'[inFlight'[r]] = "resolved" => completed'[r]
        BY DEF FlightInv
      <3>1. CASE r = s
        BY <2>1, <3>1 DEF SessionInv, SessionTypes
      <3>2. CASE r # s
        <4>1. inFlight'[r] = inFlight[r] /\ completed'[r] = completed[r] /\ state'[r] = state[r]
          BY <2>1, <3>2 DEF SessionInv, SessionTypes
        <4>2. inFlight[r] # t \/ state[r] # "turn_in_flight"
          BY <2>1 DEF SessionInv, FlightInv
        <4>3. \A u \in Turns \ {t} : /\ handler'[u] = handler[u] /\ sessionOf'[u] = sessionOf[u]
                                      /\ waiter'[u] = waiter[u]
          BY <2>1 DEF SessionInv, SessionTypes
        <4>4. QED  BY <4>1, <4>2, <4>3 DEF SessionInv, FlightInv
      <3>3. QED  BY <3>1, <3>2
    <2>5. PendingIsInFlight'
      <3> SUFFICES ASSUME NEW u \in Turns, waiter'[u] = "pending"
                   PROVE  /\ sessionOf'[u] # None /\ state'[sessionOf'[u]] = "turn_in_flight"
                          /\ inFlight'[sessionOf'[u]] = u /\ ~completed'[sessionOf'[u]]
        BY DEF PendingIsInFlight
      <3>1. CASE u = t
        BY <2>1, <3>1, SessionsAssumption DEF SessionInv, SessionTypes
      <3>2. CASE u # t
        <4>1. waiter[u] = "pending" /\ sessionOf'[u] = sessionOf[u]
          BY <2>1, <3>2 DEF SessionInv, SessionTypes
        <4>2. /\ sessionOf[u] \in Sessions /\ state[sessionOf[u]] = "turn_in_flight"
              /\ inFlight[sessionOf[u]] = u /\ ~completed[sessionOf[u]]
          BY <4>1 DEF SessionInv, SessionTypes, PendingIsInFlight
        <4>3. sessionOf[u] # s
          BY <2>1, <4>2
        <4>4. QED  BY <2>1, <4>1, <4>2, <4>3, SessionsAssumption DEF SessionInv, SessionTypes
      <3>3. QED  BY <3>1, <3>2
    <2>6. CancelledInv'
      BY <2>1, <2>2 DEF SessionInv, SessionTypes, CancelledInv
    <2>7. QED  BY <2>3, <2>4, <2>5, <2>6 DEF SessionInv
  <1>4. ASSUME NEW t \in Turns, NEW s \in Sessions, RefuseTurn(t, s)
        PROVE  SessionInv'
    <2>1. /\ handler[t] = "none" /\ state[s] \in {"open", "idle"}
          /\ state' = [state EXCEPT ![s] = "idle"]
          /\ sessionOf' = [sessionOf EXCEPT ![t] = s]
          /\ handler' = [handler EXCEPT ![t] = "error"]
          /\ UNCHANGED <<traj, inFlight, completed, terminal, waiter, cancelled>>
      BY <1>4 DEF RefuseTurn, MayBegin
    <2>2. t \notin cancelled /\ waiter[t] # "pending"
      <3>1. waiter[t] = "pending" => handler[t] = "awaiting"
        BY DEF SessionInv, SessionTypes, PendingIsInFlight, FlightInv
      <3>2. QED  BY <2>1, <3>1 DEF SessionInv, CancelledInv
    <2>3. SessionTypes' /\ TombstonesEnded'
      BY <2>1 DEF SessionInv, SessionTypes, States, TombstonesEnded, Ended
    <2>4. \A r \in Sessions : state[r] = "turn_in_flight" <=> state'[r] = "turn_in_flight"
      BY <2>1 DEF SessionInv, SessionTypes
    <2>5. \A u \in Turns \ {t} : handler'[u] = handler[u] /\ sessionOf'[u] = sessionOf[u]
      BY <2>1 DEF SessionInv, SessionTypes
    <2>6. FlightInv'
      BY <2>1, <2>4, <2>5 DEF SessionInv, FlightInv
    <2>7. PendingIsInFlight'
      BY <2>1, <2>2, <2>4, <2>5 DEF SessionInv, SessionTypes, PendingIsInFlight
    <2>8. CancelledInv'
      BY <2>1, <2>2, <2>5 DEF SessionInv, SessionTypes, CancelledInv
    <2>9. QED  BY <2>3, <2>6, <2>7, <2>8 DEF SessionInv
  <1>5. ASSUME NEW t \in Turns, Resolve(t)
        PROVE  SessionInv'
    <2> DEFINE s == sessionOf[t]
    <2>1. /\ s \in Sessions /\ state[s] = "turn_in_flight" /\ inFlight[s] = t
          /\ waiter[t] = "pending"
      BY <1>5 DEF Resolve, SessionInv, SessionTypes, PendingIsInFlight
    <2>2. /\ waiter' = [waiter EXCEPT ![t] = "resolved"]
          /\ completed' = [completed EXCEPT ![s] = TRUE]
          /\ UNCHANGED <<state, traj, inFlight, terminal, sessionOf, handler, cancelled>>
      BY <1>5, <2>1 DEF Resolve
    <2> HIDE DEF s
    <2>3. /\ SessionTypes' /\ TombstonesEnded'
      BY <2>2 DEF SessionInv, SessionTypes, TombstonesEnded
    <2>4. \A u \in Turns \ {t} : waiter'[u] = waiter[u]
      BY <2>2 DEF SessionInv, SessionTypes
    <2>5. /\ \A r \in Sessions \ {s} : completed'[r] = completed[r]
          /\ completed'[s] /\ waiter'[t] = "resolved"
      BY <2>1, <2>2 DEF SessionInv, SessionTypes
    <2>6. FlightInv'
      BY <2>1, <2>2, <2>4, <2>5 DEF SessionInv, FlightInv
    <2>7. PendingIsInFlight'
      BY <2>1, <2>2, <2>4, <2>5 DEF SessionInv, SessionTypes, PendingIsInFlight
    <2>8. CancelledInv'
      BY <2>1, <2>2, <2>4 DEF SessionInv, SessionTypes, CancelledInv
    <2>9. QED  BY <2>3, <2>6, <2>7, <2>8 DEF SessionInv
  <1>6. CASE FailTurns
    <2>1. /\ waiter' = [t \in Turns |-> IF waiter[t] = "pending" THEN "failed" ELSE waiter[t]]
          /\ UNCHANGED <<state, traj, inFlight, completed, terminal, sessionOf, handler, cancelled>>
      BY <1>6 DEF FailTurns
    <2>2. SessionTypes' /\ TombstonesEnded' /\ CancelledInv' /\ PendingIsInFlight'
      BY <2>1 DEF SessionInv, SessionTypes, TombstonesEnded, CancelledInv, PendingIsInFlight
    <2>3. FlightInv'
      BY <2>1 DEF SessionInv, FlightInv
    <2>4. QED  BY <2>2, <2>3 DEF SessionInv
  <1>7. ASSUME NEW t \in Turns, Answer(t)
        PROVE  SessionInv'
    <2> DEFINE answer == IF waiter[t] = "resolved" THEN "answered" ELSE "error"
    <2>1. /\ handler[t] = "awaiting" /\ waiter[t] # "pending" /\ EndTurn(t)
          /\ handler' = [handler EXCEPT ![t] = answer]
          /\ UNCHANGED <<terminal, sessionOf, waiter, cancelled>>
      BY <1>7 DEF Answer
    <2>2. answer \in {"answered", "error", "gone"} /\ (answer = "answered" => waiter[t] = "resolved")
      OBVIOUS
    <2> HIDE DEF answer
    <2>3. waiter' = waiter /\ waiter \in [Turns -> {"none", "pending", "resolved", "failed", "aborted"}]
      BY <2>1 DEF SessionInv, SessionTypes
    <2>4. t \in cancelled => waiter'[t] \in {"failed", "aborted"}
      BY <2>3 DEF SessionInv, CancelledInv
    <2>5. QED  BY <2>1, <2>2, <2>3, <2>4, EndStep
  <1>8. ASSUME NEW t \in Turns, Disconnect(t)
        PROVE  SessionInv'
    <2>1. /\ handler[t] = "awaiting" /\ EndTurn(t)
          /\ handler' = [handler EXCEPT ![t] = "gone"]
          /\ UNCHANGED <<terminal, sessionOf, cancelled>>
      BY <1>8 DEF Disconnect
    <2>2. /\ waiter' \in [Turns -> {"none", "pending", "resolved", "failed", "aborted"}]
          /\ waiter'[t] # "pending"
          /\ \A u \in Turns \ {t} : waiter'[u] = waiter[u]
          /\ t \in cancelled => waiter'[t] \in {"failed", "aborted"}
      BY <1>8 DEF Disconnect, CancelTurn, SessionInv, SessionTypes, CancelledInv
    <2>3. QED  BY <2>1, <2>2, EndStep
  <1>9. CASE UNCHANGED vars
    BY <1>9 DEF vars, SessionInv, SessionTypes, TombstonesEnded, FlightInv, PendingIsInFlight, CancelledInv
  <1>10. QED
    BY <1>1, <1>2, <1>3, <1>4, <1>5, <1>6, <1>7, <1>8, <1>9, AbortStep, CloseStep DEF Next

\* The invariant holds from the first session on.
LEMMA SessionInvAlways == Spec => []SessionInv
  <1>1. Init => SessionInv
    <2> SUFFICES ASSUME Init PROVE SessionInv
      OBVIOUS
    <2>1. SessionTypes /\ TombstonesEnded
      BY DEF Init, SessionTypes, TombstonesEnded, States
    <2>2. FlightInv /\ PendingIsInFlight /\ CancelledInv
      BY DEF Init, FlightInv, PendingIsInFlight, CancelledInv
    <2>3. QED  BY <2>1, <2>2 DEF SessionInv
  <1>2. QED  BY <1>1, SessionNext, PTL DEF Spec

\* For any number of sessions, turns and tombstones, a turn the scheduler may
\* still run is the one its session has in flight (create_turn, abort_session,
\* end_turn): a late end_turn or a reused session id never separates them.
THEOREM TurnsBelong == Spec => []PendingIsInFlight
  <1>1. SessionInv => PendingIsInFlight
    BY DEF SessionInv
  <1>2. QED  BY <1>1, SessionInvAlways, PTL

\* For any number of sessions and turns, a turn reported as ended by an abort
\* (abort_session) is never answered with its result (create_turn).
THEOREM AbortXorAnswer == Spec => []AbortedNotAnswered
  <1>1. SessionInv => AbortedNotAnswered
    BY DEF SessionInv, SessionTypes, CancelledInv, AbortedNotAnswered
  <1>2. QED  BY <1>1, SessionInvAlways, PTL

\* For any number of sessions and turns, a session marked turn_in_flight has a
\* handler that awaits that turn and will end it (end_turn).
THEOREM FlightsAwaited == Spec => []InFlightHasHandler
  <1>1. SessionInv => InFlightHasHandler
    BY SessionsAssumption DEF SessionInv, FlightInv, InFlightHasHandler
  <1>2. QED  BY <1>1, SessionInvAlways, PTL
===============================================================================
