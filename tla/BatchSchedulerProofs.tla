------------------------- MODULE BatchSchedulerProofs -------------------------
(***************************************************************************)
(* What a batch's reported end means, for any batches, turns, capacities,  *)
(* faults and restarts: every request of a completed batch was routed, and *)
(* a batch failed for its workers belonged to a cohort that failed.        *)
(***************************************************************************)
EXTENDS BatchScheduler, FiniteSetTheorems, TLAPS

USE ZenonT(60)

Lines(b) == ToSet(RequestsOf[b])

\* The types of the variables the arguments below are about.
Statuses == {"none", "validating", "in_progress", "completed", "failed", "cancelled"}
Messages == [type : {"done", "error", "fatal", "channel_error"},
             id : Requests \union Turns \union {None}]
Items == [gen : Nat, m : Messages]
Calls == [call : {"offer"}, gen : Nat, m : Messages] \union {CloseCall, OpenCall}

SchedulerTypes ==
    /\ status \in [Batches -> Statuses] /\ queue \in Seq(Batches)
    /\ count \in [Batches -> Nat] /\ born \in [Batches -> Nat]
    /\ tracked \in SUBSET Batches /\ errored \in SUBSET Batches
    /\ failing \in SUBSET Batches /\ checked \in Batches \union {None}
    /\ gen \in Nat /\ disrupted \in Nat
    /\ responses \in Seq(Messages) /\ calls \in Seq(Calls) /\ inbox \in Seq(Items)

\* A batch that is not created or not processed yet.
Fresh(b) == status[b] = "none" \/ b \in ToSet(queue)

\* What makes CompletesWhole inductive. A request counted for a tracked batch
\* was routed, and a routed request is not counted again; a batch that waits in
\* the queue, or was never created, has neither.
CountedInv ==
    /\ \A i, j \in DOMAIN queue : queue[i] = queue[j] => i = j
    /\ \A b \in Batches : status[b] = "none" => b \notin ToSet(queue)
    /\ \A b \in Batches : Fresh(b) =>
         b \notin tracked /\ count[b] = 0 /\ Lines(b) \intersect Routed = {}
    /\ \A b \in tracked :
         /\ Lines(b) \intersect Routed \subseteq counted
         /\ count[b] <= Cardinality(Lines(b) \intersect Routed)
    /\ CompletesWhole

\* Nobody fails, or is about to fail, a batch before it is registered.
FreshInv ==
    \A b \in Batches : Fresh(b) => b \notin errored /\ b \notin failing /\ b # checked

\* Where the manager's thread is between reaping a cohort and spawning one.
Reaped == {"failing", "reconciled", "retired"}

Disruptive(m) == m.type \in {"fatal", "channel_error"}

\* What makes FailsWithItsWorkers inductive: whoever is about to fail the
\* batches acts for a generation that was disrupted, and no batch is younger
\* than that.
GenerationsInv == disrupted <= gen /\ \A b \in Batches : born[b] <= gen

\* A fatal that the live cohort sent, or that is on its way to the listener.
ResponsesInv == \A k \in DOMAIN responses : Disruptive(responses[k]) => disrupted = gen
CallsInv ==
    \A k \in DOMAIN calls :
        calls[k].call = "offer" /\ Disruptive(calls[k].m) => calls[k].gen <= disrupted
InboxInv == \A k \in DOMAIN inbox : Disruptive(inbox[k].m) => inbox[k].gen <= disrupted

\* The manager's thread, and a pass of the drain that has lost its slots to it.
ReapedInv ==
    /\ mgr \in Reaped => ~workerUp
    /\ mgr = "retired" => responses = <<>>
    /\ mgr = "failing" => disrupted = gen
ClearedInv ==
    drained # <<>> /\ ~(ToSet(drained) \subseteq active) => \A b \in Batches : born[b] <= disrupted

DisruptedInv ==
    /\ GenerationsInv /\ ResponsesInv /\ CallsInv /\ InboxInv /\ ReapedInv /\ ClearedInv
    /\ FailsWithItsWorkers

-----------------------------------------------------------------------------
\* A batch has no more distinct requests than entries in its file.
LEMMA LinesFinite ==
    ASSUME NEW b \in Batches
    PROVE  IsFiniteSet(Lines(b)) /\ Cardinality(Lines(b)) <= Total(b)
  <1> DEFINE s == RequestsOf[b]
  <1>1. s \in Seq(ToSet(s)) /\ Len(s) \in Nat /\ DOMAIN s = 1..Len(s)
    BY SchedulerAssumption, SMT
  <1>2. IsFiniteSet(1..Len(s)) /\ Cardinality(1..Len(s)) = Len(s)
    BY <1>1, FS_Interval, SMT
  <1>3. s \in Surjection(1..Len(s), ToSet(s))
    BY <1>1, SMT DEF Surjection, ToSet
  <1> QED
    BY <1>2, <1>3, FS_Surjection, SMT DEF Lines, Total

\* A request belongs to one batch.
LEMMA BatchOfLine ==
    ASSUME NEW b \in Batches, NEW r \in Lines(b)
    PROVE  r \in Requests /\ BatchOf(r) = b
  <1>1. \A c \in Batches : r \in ToSet(RequestsOf[c]) => c = b
    BY SchedulerAssumption DEF Lines
  <1> QED
    BY <1>1 DEF Lines, BatchOf, Requests

\* A request has a batch, and is one of its lines.
LEMMA LineOfBatch ==
    ASSUME NEW r \in Requests
    PROVE  BatchOf(r) \in Batches /\ r \in Lines(BatchOf(r))
  <1>1. \E b \in Batches : r \in ToSet(RequestsOf[b])
    BY DEF Requests
  <1> QED
    BY <1>1 DEF Lines, BatchOf

\* The first of a sequence and the rest of it.
LEMMA HeadTail ==
    ASSUME NEW S, NEW s \in Seq(S), s # <<>>
    PROVE  /\ Head(s) \in S /\ Head(s) = s[1] /\ 1 \in DOMAIN s
           /\ Tail(s) \in Seq(S)
           /\ \A k \in DOMAIN Tail(s) : k + 1 \in DOMAIN s /\ Tail(s)[k] = s[k + 1] /\ k \in Nat
  BY SMT

\* A sequence and one more element.
LEMMA Appended ==
    ASSUME NEW S, NEW s \in Seq(S), NEW x \in S
    PROVE  /\ Append(s, x) \in Seq(S)
           /\ \A k \in DOMAIN Append(s, x) :
                (k \in DOMAIN s /\ Append(s, x)[k] = s[k]) \/ Append(s, x)[k] = x
  BY SMT

\* The same of a variable that becomes the longer sequence.
LEMMA AppendedTo ==
    ASSUME NEW S, NEW s \in Seq(S), NEW x \in S, NEW t, t = Append(s, x)
    PROVE  \A k \in DOMAIN t : (k \in DOMAIN s /\ t[k] = s[k]) \/ t[k] = x
  BY Appended, SMT

\* A sequence and an element twice.
LEMMA AppendedTwice ==
    ASSUME NEW S, NEW s \in Seq(S), NEW x \in S
    PROVE  /\ s \o <<x, x>> \in Seq(S)
           /\ \A k \in DOMAIN (s \o <<x, x>>) :
                (k \in DOMAIN s /\ (s \o <<x, x>>)[k] = s[k]) \/ (s \o <<x, x>>)[k] = x
  BY SMT

\* The item of an "offer" callback is one the loop's inbox may hold.
LEMMA OfferedItem ==
    ASSUME NEW c \in Calls, c.call = "offer"
    PROVE  [gen |-> c.gen, m |-> c.m] \in Items
  <1>1. c.gen \in Nat /\ c.m \in Messages
    BY SMT DEF Calls, CloseCall, OpenCall
  <1> QED
    BY <1>1 DEF Items

\* The empty sequence.
LEMMA Empty ==
    ASSUME NEW S
    PROVE  <<>> \in Seq(S) /\ DOMAIN <<>> = {}
  BY SMT

-----------------------------------------------------------------------------
\* Every step keeps the types.
LEMMA TypesNext ==
    ASSUME SchedulerTypes, [Next]_vars
    PROVE  SchedulerTypes'
  <1> USE DEF SchedulerTypes, Statuses
  <1> USE DEF batchVars, lineVars, poolVars, drainVars, mgrVars, pumpVars, workerVars, turnVars, schedulerVars
  <1>1. CASE UNCHANGED vars
    BY <1>1 DEF vars
  <1>2. CASE ClientStep
    <2>1. ASSUME NEW b \in Batches, CreateBatch(b)
          PROVE  SchedulerTypes'
      <3>1. queue' \in Seq(Batches)
        BY <2>1, Appended DEF CreateBatch
      <3> QED
        BY <2>1, <3>1 DEF CreateBatch
    <2>2. ASSUME NEW b \in Batches, CancelBatch(b)
          PROVE  SchedulerTypes'
      BY <2>2 DEF CancelBatch
    <2>3. ASSUME NEW t \in Turns, SubmitTurn(t) \/ CancelTurn(t)
          PROVE  SchedulerTypes'
      BY <2>3 DEF SubmitTurn, CancelTurn
    <2> QED
      BY <1>2, <2>1, <2>2, <2>3 DEF ClientStep
  <1>3. CASE SkipBatch \/ ProcessBatch
    <2>0. queue # <<>> /\ queue' = Tail(queue)
      BY <1>3 DEF SkipBatch, ProcessBatch
    <2>1. Head(queue) \in Batches /\ queue' \in Seq(Batches)
      BY <2>0, HeadTail
    <2>2. CASE SkipBatch
      BY <2>1, <2>2 DEF SkipBatch
    <2>3. CASE ProcessBatch
      BY <2>1, <2>3 DEF ProcessBatch
    <2> QED
      BY <1>3, <2>2, <2>3
  <1>4. ASSUME NEW b \in Batches, FinalizeComplete(b) \/ FinalizeFailed(b) \/ FinalizeTimeout(b)
        PROVE  SchedulerTypes'
    BY <1>4 DEF FinalizeComplete, FinalizeFailed, FinalizeTimeout
  <1>5. CASE DrainSelect \/ DrainSend \/ DrainRequeue \/ DrainAck
    BY <1>5 DEF DrainSelect, DrainSend, DrainRequeue, DrainAck
  <1>6. CASE DrainDies
    BY <1>6 DEF DrainDies
  <1>7. CASE Callback
    <2> DEFINE c == Head(calls)
    <2>1. c \in Calls /\ Tail(calls) \in Seq(Calls)
      BY <1>7, HeadTail DEF Callback
    <2>2. CASE c.call = "offer"
      <3>2. [gen |-> c.gen, m |-> c.m] \in Items
        BY <2>1, <2>2, OfferedItem
      <3>3. inbox' = Append(inbox, [gen |-> c.gen, m |-> c.m]) \/ inbox' = inbox
        BY <1>7, <2>2 DEF Callback
      <3>4. Append(inbox, [gen |-> c.gen, m |-> c.m]) \in Seq(Items)
        BY <3>2, Appended
      <3>5. inbox' \in Seq(Items)
        BY <3>3, <3>4
      <3> QED
        BY <1>7, <2>1, <3>5 DEF Callback
    <2>3. CASE c.call # "offer"
      <3>1. UNCHANGED inbox
        BY <1>7, <2>3 DEF Callback
      <3> QED
        BY <1>7, <2>1, <3>1 DEF Callback
    <2> QED
      BY <2>2, <2>3
  <1>8. CASE Listen
    <2>1. Head(inbox) \in Items /\ Tail(inbox) \in Seq(Items)
      BY <1>8, HeadTail DEF Listen
    <2>2. CASE Head(inbox).gen # gen
      BY <1>8, <2>1, <2>2 DEF Listen
    <2>3. ASSUME NEW i, RouteCompletion(i)
          PROVE  SchedulerTypes'
      <3>1. count' \in [Batches -> Nat]
        BY <2>3, LineOfBatch, SMT DEF RouteCompletion, MarkCompleted
      <3> QED
        BY <1>8, <2>1, <2>3, <3>1 DEF Listen, RouteCompletion
    <2>6. ASSUME NEW i, SkipCompletion(i)
          PROVE  SchedulerTypes'
      BY <1>8, <2>1, <2>6 DEF Listen, SkipCompletion
    <2>4. CASE RouteFatal
      BY <1>8, <2>1, <2>4 DEF Listen, RouteFatal, FailAllOnLoop
    <2>5. CASE RouteChannelError
      BY <1>8, <2>1, <2>5 DEF Listen, RouteChannelError, FailAllOnLoop
    <2> QED
      BY <1>8, <2>2, <2>3, <2>4, <2>5, <2>6 DEF Listen, Route
  <1>9. ASSUME NEW i \in Requests \union Turns, Work(i)
        PROVE  SchedulerTypes'
    <2>1. Message("done", i) \in Messages /\ Message("error", i) \in Messages
      BY DEF Message, Messages
    <2>2. \/ responses' = Append(responses, Message("done", i))
          \/ responses' = Append(responses, Message("error", i))
          \/ responses' = responses \o <<Message("done", i), Message("done", i)>>
      BY <1>9 DEF Work
    <2>3. /\ Append(responses, Message("done", i)) \in Seq(Messages)
          /\ Append(responses, Message("error", i)) \in Seq(Messages)
          /\ responses \o <<Message("done", i), Message("done", i)>> \in Seq(Messages)
      BY <2>1, Appended, AppendedTwice
    <2>4. responses' \in Seq(Messages)
      BY <2>2, <2>3
    <2> QED
      BY <1>9, <2>4 DEF Work
  <1>10. CASE WorkerEnds
    <2>1. Message("fatal", None) \in Messages
      BY DEF Message, Messages
    <2>2. Append(responses, Message("fatal", None)) \in Seq(Messages)
      BY <2>1, Appended
    <2>3. responses' = Append(responses, Message("fatal", None)) \/ responses' = responses
      BY <1>10 DEF WorkerEnds
    <2>4. responses' \in Seq(Messages)
      BY <2>2, <2>3
    <2> QED
      BY <1>10, <2>4 DEF WorkerEnds
  <1>11. CASE PumpForward
    <2>1. Head(responses) \in Messages /\ Tail(responses) \in Seq(Messages)
      BY <1>11, HeadTail DEF PumpForward
    <2>2. Offer(Head(responses)) \in Calls
      BY <2>1 DEF Offer, Calls
    <2>3. calls' \in Seq(Calls)
      BY <1>11, <2>2, Appended DEF PumpForward
    <2> QED
      BY <1>11, <2>1, <2>3 DEF PumpForward
  <1>12. CASE PumpFails
    <2>1. Offer(Message("channel_error", None)) \in Calls
      BY DEF Offer, Calls, Message, Messages
    <2>2. calls' \in Seq(Calls)
      BY <1>12, <2>1, Appended DEF PumpFails
    <2> QED
      BY <1>12, <2>2 DEF PumpFails
  <1>13. CASE MonitorClaims \/ RestartEnter \/ RestartFails \/ Quiesce \/ TearDown \/ HandlerEnds
              \/ Serve
    BY <1>13 DEF MonitorClaims, RestartEnter, RestartFails, Quiesce, TearDown, HandlerEnds, Serve
  <1>14. CASE FailWrite \/ (\E b \in Batches : FailCheck(b))
    BY <1>14 DEF FailWrite, FailCheck
  <1>15. CASE FailRest \/ Resume
    <2>1. CloseCall \in Calls /\ OpenCall \in Calls
      BY DEF Calls
    <2>2. Append(calls, CloseCall) \in Seq(Calls) /\ Append(calls, OpenCall) \in Seq(Calls)
      BY <2>1, Appended
    <2>3. calls' = Append(calls, CloseCall) \/ calls' = Append(calls, OpenCall)
      BY <1>15 DEF FailRest, Resume
    <2>4. calls' \in Seq(Calls)
      BY <2>2, <2>3
    <2> QED
      BY <1>15, <2>4 DEF FailRest, Resume
  <1>16. CASE Retire \/ SpawnReady
    <2>1. responses' = <<>> \/ responses' = responses
      BY <1>16 DEF Retire, SpawnReady
    <2>3. responses' \in Seq(Messages)
      BY <2>1, Empty
    <2>2. gen' \in Nat
      BY <1>16, SMT DEF Retire, SpawnReady
    <2> QED
      BY <1>16, <2>2, <2>3 DEF Retire, SpawnReady
  <1> QED
    BY <1>1, <1>2, <1>3, <1>4, <1>5, <1>6, <1>7, <1>8, <1>9, <1>10, <1>11, <1>12, <1>13, <1>14,
       <1>15, <1>16
    DEF Next, LoopStep, ManagerStep

-----------------------------------------------------------------------------
\* A step that counts, writes and queues nothing keeps CountedInv as long as
\* it completes no batch.
LEMMA CountedFrame ==
    ASSUME CountedInv, UNCHANGED <<queue, tracked, count, counted, Routed>>,
           \A b \in Batches : status'[b] \in {"none", "completed"} => status'[b] = status[b]
    PROVE  CountedInv'
  BY DEF CountedInv, Fresh, CompletesWhole

\* Every step keeps CountedInv.
LEMMA CountedNext ==
    ASSUME SchedulerTypes, CountedInv, [Next]_vars
    PROVE  CountedInv'
  <1> USE DEF batchVars, lineVars, poolVars, drainVars, mgrVars, pumpVars, workerVars, turnVars, schedulerVars
  <1> DEFINE Quiet == UNCHANGED <<queue, tracked, count, counted, Routed>>
  <1>1. ASSUME UNCHANGED <<status, queue, tracked, count, counted, lines, unwritten>>
        PROVE  CountedInv'
    BY <1>1, CountedFrame DEF Routed
  <1>2. ASSUME NEW b \in Batches, CreateBatch(b)
        PROVE  CountedInv'
    <2>1. queue' = Append(queue, b) /\ status' = [status EXCEPT ![b] = "validating"]
          /\ status[b] = "none" /\ UNCHANGED <<tracked, count, counted, Routed>>
      BY <1>2 DEF CreateBatch, Routed
    <2>2. b \notin ToSet(queue)
      BY <2>1 DEF CountedInv, Fresh
    <2>3. \A k \in DOMAIN queue' : (k \in DOMAIN queue /\ queue'[k] = queue[k])
                                    \/ (k = Len(queue) + 1 /\ queue'[k] = b)
      BY <2>1, SMT DEF SchedulerTypes
    <2>4. ToSet(queue') \subseteq ToSet(queue) \union {b}
      BY <2>3 DEF ToSet
    <2>5. \A i, j \in DOMAIN queue' : queue'[i] = queue'[j] => i = j
      BY <2>2, <2>3 DEF CountedInv, Fresh, ToSet
    <2>6. \A c \in Batches : status'[c] \in {"none", "completed"} => c # b /\ status'[c] = status[c]
      BY <2>1 DEF SchedulerTypes
    <2> QED
      BY <2>1, <2>4, <2>5, <2>6 DEF CountedInv, Fresh, CompletesWhole
  <1>3. ASSUME NEW b \in Batches, CancelBatch(b) \/ FinalizeFailed(b) \/ FinalizeTimeout(b)
        PROVE  CountedInv'
    <2>1. /\ Quiet
          /\ \/ status' = [status EXCEPT ![b] = "cancelled"]
             \/ status' = [status EXCEPT ![b] = "failed"]
      BY <1>3 DEF CancelBatch, FinalizeFailed, FinalizeTimeout, Routed
    <2>2. \A c \in Batches : status'[c] \in {"none", "completed"} => status'[c] = status[c]
      BY <2>1 DEF SchedulerTypes
    <2> QED
      BY <2>1, <2>2, CountedFrame
  <1>4. ASSUME queue # <<>>, queue' = Tail(queue)
        PROVE  /\ Head(queue) \in Batches /\ Head(queue) \in ToSet(queue)
               /\ Head(queue) \notin ToSet(queue') /\ ToSet(queue') \subseteq ToSet(queue)
               /\ \A i, j \in DOMAIN queue' : queue'[i] = queue'[j] => i = j
    <2>1. /\ Head(queue) \in Batches /\ Head(queue) = queue[1] /\ 1 \in DOMAIN queue
          /\ \A k \in DOMAIN queue' : k + 1 \in DOMAIN queue /\ queue'[k] = queue[k + 1] /\ k \in Nat
      BY <1>4, HeadTail DEF SchedulerTypes
    <2>2. \A k \in DOMAIN queue' : k \in Nat /\ k # 0
      <3>1. queue' \in Seq(Batches)
        BY <1>4, HeadTail DEF SchedulerTypes
      <3> QED
        BY <3>1, SMT
    <2>3. \A i, j \in DOMAIN queue : queue[i] = queue[j] => i = j
      BY DEF CountedInv, Fresh
    <2>4. \A k \in DOMAIN queue' : queue'[k] # queue[1]
      BY <2>1, <2>2, <2>3, SMT
    <2>5. \A i, j \in DOMAIN queue' : queue'[i] = queue'[j] => i = j
      <3> SUFFICES ASSUME NEW i \in DOMAIN queue', NEW j \in DOMAIN queue', queue'[i] = queue'[j]
                   PROVE  i = j
        OBVIOUS
      <3>1. i + 1 = j + 1 /\ i \in Nat /\ j \in Nat
        BY <2>1, <2>3
      <3> QED
        BY <3>1, SMT
    <2> QED
      BY <2>1, <2>4, <2>5, SMT DEF ToSet
  <1>5. CASE SkipBatch
    <2> DEFINE b == Head(queue)
    <2>1. queue # <<>> /\ queue' = Tail(queue) /\ UNCHANGED <<tracked, count, counted, Routed>>
          /\ status' = [status EXCEPT ![b] = IF @ = "cancelled" THEN @ ELSE "failed"]
      BY <1>5 DEF SkipBatch, Routed
    <2>2. \A c \in Batches : status'[c] \in {"none", "completed"} => status'[c] = status[c]
      BY <2>1, <1>4 DEF SchedulerTypes
    <2> QED
      BY <2>1, <2>2, <1>4 DEF CountedInv, Fresh, CompletesWhole
  <1>6. CASE ProcessBatch
    <2> DEFINE b == Head(queue)
    <2>1. queue # <<>> /\ queue' = Tail(queue) /\ UNCHANGED <<count, counted, Routed>>
          /\ tracked' = tracked \union {b}
          /\ status' = [status EXCEPT ![b] = IF Fits(Total(b)) THEN "in_progress" ELSE "failed"]
      BY <1>6 DEF ProcessBatch, Routed
    <2>2. \A c \in Batches : status'[c] \in {"none", "completed"} => c # b /\ status'[c] = status[c]
      BY <2>1, <1>4 DEF SchedulerTypes
    <2>3. b \in Batches /\ count[b] = 0 /\ Lines(b) \intersect Routed = {}
      BY <2>1, <1>4 DEF CountedInv, Fresh
    <2>4. Lines(b) \intersect Routed \subseteq counted
          /\ count[b] <= Cardinality(Lines(b) \intersect Routed)
      BY <2>3, FS_EmptySet, SMT
    <2>5. \A c \in tracked' : c \in tracked \/ c = b
      BY <2>1
    <2>6. \A c \in Batches : c \in ToSet(queue') => c \notin tracked' /\ c \in ToSet(queue)
      BY <2>1, <1>4 DEF CountedInv, Fresh
    <2>7. \A c \in Batches : status'[c] = "none" => c \notin tracked' /\ status[c] = "none"
      BY <2>1, <2>2 DEF CountedInv, Fresh
    <2> HIDE DEF b
    <2> QED
      BY <2>1, <2>2, <2>4, <2>5, <2>6, <2>7, <1>4 DEF CountedInv, Fresh, CompletesWhole
  <1>7. ASSUME NEW b \in Batches, FinalizeComplete(b)
        PROVE  CountedInv'
    <2>1. /\ b \in tracked /\ count[b] >= Total(b)
          /\ status' = [status EXCEPT ![b] = "completed"]
          /\ tracked' = tracked \ {b} /\ counted' = counted \ Lines(b)
          /\ UNCHANGED <<queue, count, Routed>>
      BY <1>7 DEF FinalizeComplete, IsComplete, Lines, Routed
    <2>2. Lines(b) \subseteq Routed
      <3> DEFINE done == Lines(b) \intersect Routed
      <3>1. IsFiniteSet(Lines(b)) /\ Cardinality(Lines(b)) <= Total(b)
        BY LinesFinite
      <3>2. /\ IsFiniteSet(done) /\ Cardinality(done) <= Cardinality(Lines(b))
            /\ Cardinality(Lines(b)) = Cardinality(done) => Lines(b) = done
        BY <3>1, FS_Subset
      <3>3. Cardinality(done) \in Nat /\ Cardinality(Lines(b)) \in Nat
        BY <3>1, <3>2, FS_CardinalityType
      <3>4. count[b] <= Cardinality(done)
        BY <2>1 DEF CountedInv, Fresh
      <3>5. count[b] \in Nat /\ Total(b) \in Nat
        BY SchedulerAssumption, SMT DEF SchedulerTypes, Total
      <3>6. Cardinality(Lines(b)) = Cardinality(done)
        BY <2>1, <3>1, <3>2, <3>3, <3>4, <3>5, SMT
      <3> QED
        BY <3>2, <3>6
    <2>3. \A c \in Batches : c # b => Lines(c) \intersect Lines(b) = {}
      BY SchedulerAssumption DEF Lines
    <2>4. \A c \in tracked' : c \in tracked /\ c # b /\ c \in Batches
      BY <2>1 DEF SchedulerTypes
    <2>5. \A c \in tracked' : Lines(c) \intersect Routed \subseteq counted'
      BY <2>1, <2>3, <2>4 DEF CountedInv, Fresh
    <2>6. \A c \in Batches : status'[c] = "none" => status[c] = "none" /\ c # b
      BY <2>1 DEF SchedulerTypes
    <2>7. \A c \in Batches : status'[c] = "completed" => Lines(c) \subseteq Routed
      BY <2>1, <2>2 DEF SchedulerTypes, CountedInv, CompletesWhole, Lines
    <2> QED
      BY <2>1, <2>4, <2>5, <2>6, <2>7 DEF CountedInv, Fresh, CompletesWhole, Lines
  <1>8. ASSUME NEW i, RouteCompletion(i)
        PROVE  CountedInv'
    <2>0. UNCHANGED <<status, queue, tracked>>
      BY <1>8 DEF RouteCompletion
    <2>1. CASE ~(i \in Requests /\ BatchOf(i) \in tracked)
      <3>1. UNCHANGED <<count, Routed>> /\ counted \subseteq counted'
        BY <1>8, <2>1 DEF RouteCompletion, WriteLine, MarkCompleted, Routed
      <3> QED
        BY <2>0, <3>1 DEF CountedInv, Fresh, CompletesWhole
    <2>2. CASE i \in Requests /\ BatchOf(i) \in tracked
      <3> DEFINE b == BatchOf(i)
      <3>1. b \in Batches /\ i \in Lines(b)
        BY <2>2, LineOfBatch
      <3>2. Routed' = Routed \union {i} /\ counted' = counted \union {i}
            /\ count' = IF i \notin counted THEN [count EXCEPT ![b] = @ + 1] ELSE count
        BY <1>8, <2>2 DEF RouteCompletion, WriteLine, MarkCompleted, Routed
      <3>3. \A c \in Batches : c # b => i \notin Lines(c)
        BY <3>1, BatchOfLine
      <3>4. \A c \in Batches : c # b => Lines(c) \intersect Routed' = Lines(c) \intersect Routed
                                         /\ count'[c] = count[c]
        BY <3>1, <3>2, <3>3 DEF SchedulerTypes
      <3>5. Lines(b) \intersect Routed' = (Lines(b) \intersect Routed) \union {i}
        BY <3>1, <3>2
      <3>6. IsFiniteSet(Lines(b) \intersect Routed)
        BY <3>1, LinesFinite, FS_Subset
      <3>7. Cardinality(Lines(b) \intersect Routed')
              = IF i \in Lines(b) \intersect Routed THEN Cardinality(Lines(b) \intersect Routed)
                ELSE Cardinality(Lines(b) \intersect Routed) + 1
        BY <3>5, <3>6, FS_AddElement
      <3>8. Cardinality(Lines(b) \intersect Routed) \in Nat /\ count[b] \in Nat
        BY <3>1, <3>6, FS_CardinalityType DEF SchedulerTypes
      <3>9. /\ Lines(b) \intersect Routed \subseteq counted
            /\ count[b] <= Cardinality(Lines(b) \intersect Routed)
        BY <2>2 DEF CountedInv, Fresh
      <3>10. count'[b] = IF i \notin counted THEN count[b] + 1 ELSE count[b]
        BY <3>1, <3>2 DEF SchedulerTypes
      <3>11. count'[b] <= Cardinality(Lines(b) \intersect Routed')
        BY <3>7, <3>8, <3>9, <3>10, SMT
      <3>12. Lines(b) \intersect Routed' \subseteq counted'
        BY <3>2, <3>5, <3>9
      <3> HIDE DEF b
      <3>13. \A c \in tracked : /\ Lines(c) \intersect Routed' \subseteq counted'
                                /\ count'[c] <= Cardinality(Lines(c) \intersect Routed')
        <4> SUFFICES ASSUME NEW c \in tracked
                     PROVE  /\ Lines(c) \intersect Routed' \subseteq counted'
                            /\ count'[c] <= Cardinality(Lines(c) \intersect Routed')
          OBVIOUS
        <4>1. CASE c = b
          BY <4>1, <3>11, <3>12
        <4>2. CASE c # b
          BY <4>2, <3>2, <3>4 DEF CountedInv, Fresh, SchedulerTypes
        <4> QED
          BY <4>1, <4>2
      <3>14. \A c \in Batches : status[c] = "none" \/ c \in ToSet(queue) => c # b
        BY <2>2 DEF CountedInv, Fresh, b
      <3>15. Routed \subseteq Routed'
        BY <3>2
      <3> QED
        BY <2>0, <3>4, <3>13, <3>14, <3>15 DEF CountedInv, Fresh, CompletesWhole
    <2> QED
      BY <2>1, <2>2
  <1>9. ASSUME FailAllOnLoop, Quiet
        PROVE  CountedInv'
    <2>1. \A c \in Batches : status'[c] = "failed" \/ status'[c] = status[c]
      BY <1>9 DEF FailAllOnLoop
    <2> QED
      BY <1>9, <2>1, CountedFrame
  <1>10. CASE Listen
    BY <1>1, <1>8, <1>9, <1>10 DEF Listen, Route, SkipCompletion, RouteFatal, RouteChannelError, Routed
  <1>11. CASE DrainDies
    <2>1. Quiet /\ \A c \in Batches : status'[c] = "failed" \/ status'[c] = status[c]
      BY <1>11 DEF DrainDies, Routed
    <2> QED
      BY <2>1, CountedFrame
  <1>12. CASE FailWrite
    <2>1. Quiet /\ status' = [status EXCEPT ![checked] = "failed"]
      BY <1>12 DEF FailWrite, Routed
    <2>2. \A c \in Batches : status'[c] = "failed" \/ status'[c] = status[c]
      BY <2>1 DEF SchedulerTypes
    <2> QED
      BY <2>1, <2>2, CountedFrame
  <1>13. CASE DrainSelect \/ DrainSend \/ DrainRequeue \/ DrainAck \/ Callback \/ PumpForward
              \/ PumpFails \/ WorkerEnds
    BY <1>1, <1>13 DEF DrainSelect, DrainSend, DrainRequeue, DrainAck, Callback, PumpForward,
                       PumpFails, WorkerEnds
  <1>14. CASE \/ \E t \in Turns : SubmitTurn(t) \/ CancelTurn(t)
              \/ \E i \in Requests \union Turns : Work(i)
              \/ \E b \in Batches : FailCheck(b)
    BY <1>1, <1>14 DEF SubmitTurn, CancelTurn, Work, FailCheck
  <1>15. CASE MonitorClaims \/ RestartEnter \/ RestartFails \/ Quiesce \/ TearDown \/ FailRest
              \/ HandlerEnds \/ Retire \/ SpawnReady \/ Resume \/ Serve
    BY <1>1, <1>15 DEF MonitorClaims, RestartEnter, RestartFails, Quiesce, TearDown, FailRest,
                       HandlerEnds, Retire, SpawnReady, Resume, Serve
  <1>16. CASE UNCHANGED vars
    BY <1>1, <1>16 DEF vars
  <1> QED
    BY <1>2, <1>3, <1>5, <1>6, <1>7, <1>10, <1>11, <1>12, <1>13, <1>14, <1>15, <1>16
    DEF Next, ClientStep, LoopStep, ManagerStep

-----------------------------------------------------------------------------
\* Only a batch that is registered, or one already under way to fail, is failed.
LEMMA FreshFrame ==
    ASSUME SchedulerTypes, CountedInv, FreshInv,
           \A b \in Batches : Fresh(b)' => Fresh(b),
           errored' \subseteq errored \union tracked \union {checked},
           failing' \subseteq failing \union tracked,
           checked' \in failing \union {checked, None}
    PROVE  FreshInv'
  BY SchedulerAssumption DEF FreshInv, CountedInv

\* Every step keeps FreshInv.
LEMMA FreshNext ==
    ASSUME SchedulerTypes, CountedInv, FreshInv, [Next]_vars
    PROVE  FreshInv'
  <1> USE DEF batchVars, lineVars, poolVars, drainVars, mgrVars, pumpVars, workerVars, turnVars, schedulerVars
  <1> DEFINE Same == UNCHANGED <<errored, failing, checked>>
             Still == \A b \in Batches : Fresh(b)' => Fresh(b)
  <1>1. ASSUME UNCHANGED <<status, queue>>
        PROVE  Still
    BY <1>1 DEF Fresh
  <1>2. ASSUME UNCHANGED queue, \A c \in Batches : status'[c] = "none" => status[c] = "none"
        PROVE  Still
    BY <1>2 DEF Fresh
  <1>3. ASSUME Same, Still
        PROVE  FreshInv'
    BY <1>3, FreshFrame
  <1>4. ASSUME NEW b \in Batches, CreateBatch(b)
        PROVE  FreshInv'
    <2>1. queue' = Append(queue, b) /\ status' = [status EXCEPT ![b] = "validating"]
          /\ status[b] = "none" /\ Same
      BY <1>4 DEF CreateBatch
    <2>2. ToSet(queue') \subseteq ToSet(queue) \union {b}
      BY <2>1, SMT DEF ToSet, SchedulerTypes
    <2>3. Still
      BY <2>1, <2>2 DEF Fresh, SchedulerTypes
    <2> QED
      BY <2>1, <2>3, <1>3
  <1>5. CASE SkipBatch \/ ProcessBatch
    <2>1. /\ queue # <<>> /\ queue' = Tail(queue) /\ Same
          /\ status'[Head(queue)] # "none" \/ UNCHANGED status
          /\ \A c \in Batches : c # Head(queue) => status'[c] = status[c]
      BY <1>5, HeadTail DEF SkipBatch, ProcessBatch, SchedulerTypes
    <2>2. ToSet(queue') \subseteq ToSet(queue)
      <3>1. \A k \in DOMAIN queue' : k + 1 \in DOMAIN queue /\ queue'[k] = queue[k + 1]
        BY <2>1, HeadTail DEF SchedulerTypes
      <3> QED
        BY <3>1 DEF ToSet
    <2>3. Still
      BY <2>1, <2>2 DEF Fresh
    <2> QED
      BY <2>1, <2>3, <1>3
  <1>6. ASSUME NEW b \in Batches,
               CancelBatch(b) \/ FinalizeComplete(b) \/ FinalizeFailed(b) \/ FinalizeTimeout(b)
        PROVE  FreshInv'
    <2>1. /\ Same /\ UNCHANGED queue
          /\ \/ status' = [status EXCEPT ![b] = "cancelled"]
             \/ status' = [status EXCEPT ![b] = "failed"]
             \/ status' = [status EXCEPT ![b] = "completed"]
      BY <1>6 DEF CancelBatch, FinalizeComplete, FinalizeFailed, FinalizeTimeout
    <2>2. \A c \in Batches : status'[c] = "none" => status[c] = "none"
      BY <2>1 DEF SchedulerTypes
    <2> QED
      BY <2>1, <2>2, <1>2, <1>3
  <1>7. ASSUME UNCHANGED <<queue, failing, checked>>, errored' \subseteq errored \union tracked,
               \A c \in Batches : status'[c] = "failed" \/ status'[c] = status[c]
        PROVE  FreshInv'
    <2>1. Still
      BY <1>7, <1>2
    <2> QED
      BY <1>7, <2>1, FreshFrame
  <1>19. CASE DrainDies
    BY <1>7, <1>19 DEF DrainDies
  <1>8. CASE Listen
    <2>1. \/ UNCHANGED <<status, queue, errored, failing, checked>>
          \/ FailAllOnLoop /\ UNCHANGED <<queue, failing, checked>>
      BY <1>8 DEF Listen, Route, RouteCompletion, SkipCompletion, RouteFatal, RouteChannelError
    <2>2. ASSUME FailAllOnLoop, UNCHANGED <<queue, failing, checked>>
          PROVE  FreshInv'
      BY <1>7, <2>2 DEF FailAllOnLoop
    <2> QED
      BY <2>1, <2>2, <1>1, <1>3
  <1>9. CASE TearDown
    <2>1. UNCHANGED <<status, queue, errored, checked>> /\ (failing' = failing \/ failing' = tracked)
      BY <1>9 DEF TearDown
    <2> QED
      BY <2>1, <1>1, FreshFrame
  <1>10. CASE \E b \in Batches : FailCheck(b)
    <2>1. /\ UNCHANGED <<status, queue, errored>> /\ failing' \subseteq failing
          /\ checked' = checked \/ checked' \in failing
      BY <1>10 DEF FailCheck
    <2> QED
      BY <2>1, <1>1, FreshFrame
  <1>11. CASE FailWrite
    <2>1. /\ UNCHANGED queue /\ failing' \subseteq failing /\ checked' = None
          /\ errored' = errored \union {checked}
          /\ status' = [status EXCEPT ![checked] = "failed"]
      BY <1>11 DEF FailWrite
    <2>2. \A c \in Batches : status'[c] = "none" => status[c] = "none"
      BY <2>1 DEF SchedulerTypes
    <2> QED
      BY <2>1, <2>2, <1>2, FreshFrame
  <1>12. CASE DrainSelect \/ DrainSend \/ DrainRequeue \/ DrainAck \/ Callback \/ PumpForward
              \/ PumpFails \/ WorkerEnds
    BY <1>1, <1>3, <1>12 DEF DrainSelect, DrainSend, DrainRequeue, DrainAck, Callback, PumpForward,
                             PumpFails, WorkerEnds
  <1>13. CASE \/ \E t \in Turns : SubmitTurn(t) \/ CancelTurn(t)
              \/ \E i \in Requests \union Turns : Work(i)
    BY <1>1, <1>3, <1>13 DEF SubmitTurn, CancelTurn, Work
  <1>14. CASE MonitorClaims \/ RestartEnter \/ RestartFails \/ Quiesce \/ FailRest
              \/ HandlerEnds \/ Retire \/ SpawnReady \/ Resume \/ Serve
    BY <1>1, <1>3, <1>14 DEF MonitorClaims, RestartEnter, RestartFails, Quiesce, FailRest,
                             HandlerEnds, Retire, SpawnReady, Resume, Serve
  <1>15. CASE UNCHANGED vars
    BY <1>1, <1>3, <1>15 DEF vars
  <1>16. CASE ClientStep
    BY <1>4, <1>6, <1>13, <1>16 DEF ClientStep
  <1>17. CASE LoopStep
    BY <1>5, <1>6, <1>8, <1>12, <1>17, <1>19 DEF LoopStep
  <1>18. CASE ManagerStep
    BY <1>9, <1>10, <1>11, <1>14, <1>18 DEF ManagerStep
  <1> QED
    BY <1>6, <1>12, <1>13, <1>14, <1>15, <1>16, <1>17, <1>18 DEF Next

-----------------------------------------------------------------------------
\* What a step leaves alone keeps its part of DisruptedInv.
LEMMA DisruptedFrame ==
    ASSUME DisruptedInv, UNCHANGED <<gen, disrupted>>
    PROVE  /\ UNCHANGED born => GenerationsInv'
           /\ UNCHANGED responses => ResponsesInv'
           /\ UNCHANGED calls => CallsInv'
           /\ UNCHANGED inbox => InboxInv'
           /\ UNCHANGED <<mgr, responses>> /\ (workerUp' => workerUp) => ReapedInv'
           /\ UNCHANGED <<drained, active, born>> => ClearedInv'
           /\ UNCHANGED <<errored, born>> => FailsWithItsWorkers'
  <1> USE DEF DisruptedInv
  <1>1. UNCHANGED born => GenerationsInv'
    BY DEF GenerationsInv
  <1>2. UNCHANGED responses => ResponsesInv'
    BY DEF ResponsesInv
  <1>3. UNCHANGED calls => CallsInv'
    BY DEF CallsInv
  <1>4. UNCHANGED inbox => InboxInv'
    BY DEF InboxInv
  <1>5. UNCHANGED <<mgr, responses>> /\ (workerUp' => workerUp) => ReapedInv'
    BY DEF ReapedInv
  <1>6. UNCHANGED <<drained, active, born>> => ClearedInv'
    BY DEF ClearedInv
  <1>7. UNCHANGED <<errored, born>> => FailsWithItsWorkers'
    BY DEF FailsWithItsWorkers
  <1> QED
    BY <1>1, <1>2, <1>3, <1>4, <1>5, <1>6, <1>7

\* A cohort that ends disrupts its own generation, and no batch is younger.
LEMMA DisruptedGrows ==
    ASSUME SchedulerTypes, DisruptedInv, UNCHANGED <<gen, born, errored>>, disrupted' = gen
    PROVE  /\ GenerationsInv' /\ ResponsesInv' /\ ClearedInv' /\ FailsWithItsWorkers'
           /\ UNCHANGED calls => CallsInv'
           /\ UNCHANGED inbox => InboxInv'
           /\ \A k \in DOMAIN calls : calls[k].call = "offer" /\ Disruptive(calls[k].m)
                                        => calls[k].gen <= gen
  <1>1. gen \in Nat /\ disrupted \in Nat /\ born \in [Batches -> Nat] /\ errored \in SUBSET Batches
    BY DEF SchedulerTypes
  <1>2. disrupted <= gen /\ \A b \in Batches : born[b] <= gen
    BY DEF DisruptedInv, GenerationsInv
  <1>3. GenerationsInv' /\ ResponsesInv' /\ ClearedInv' /\ FailsWithItsWorkers'
    BY <1>1, <1>2, SMT DEF GenerationsInv, ResponsesInv, ClearedInv, FailsWithItsWorkers
  <1>4. /\ \A k \in DOMAIN calls : calls[k] \in Calls
        /\ \A k \in DOMAIN inbox : inbox[k] \in Items
    BY SMT DEF SchedulerTypes
  <1>5. \A k \in DOMAIN calls : calls[k].call = "offer" => calls[k].gen \in Nat
    BY <1>4, SMT DEF Calls, CloseCall, OpenCall
  <1>6. \A k \in DOMAIN inbox : inbox[k].gen \in Nat
    BY <1>4 DEF Items
  <1>7. \A k \in DOMAIN calls : calls[k].call = "offer" /\ Disruptive(calls[k].m)
                                  => calls[k].gen <= gen
    BY <1>1, <1>2, <1>5, SMT DEF DisruptedInv, CallsInv
  <1>8. \A k \in DOMAIN inbox : Disruptive(inbox[k].m) => inbox[k].gen <= gen
    BY <1>1, <1>2, <1>6, SMT DEF DisruptedInv, InboxInv
  <1>9. UNCHANGED calls => CallsInv'
    BY <1>7 DEF CallsInv
  <1>10. UNCHANGED inbox => InboxInv'
    BY <1>8 DEF InboxInv
  <1> QED
    BY <1>3, <1>7, <1>9, <1>10

\* The next generation starts with an empty response queue.
LEMMA GenerationGrows ==
    ASSUME SchedulerTypes, DisruptedInv, gen' = gen + 1, responses' = <<>>,
           UNCHANGED <<disrupted, born, errored, calls, inbox, drained, active>>
    PROVE  /\ GenerationsInv' /\ ResponsesInv' /\ CallsInv' /\ InboxInv' /\ ClearedInv'
           /\ FailsWithItsWorkers'
  <1>1. gen \in Nat /\ disrupted \in Nat /\ born \in [Batches -> Nat]
    BY DEF SchedulerTypes
  <1>2. GenerationsInv'
    BY <1>1, SMT DEF DisruptedInv, GenerationsInv
  <1>3. ResponsesInv'
    BY Empty DEF ResponsesInv
  <1>4. CallsInv' /\ InboxInv'
    BY DEF DisruptedInv, CallsInv, InboxInv
  <1>5. ClearedInv' /\ FailsWithItsWorkers'
    BY DEF DisruptedInv, ClearedInv, FailsWithItsWorkers
  <1> QED
    BY <1>2, <1>3, <1>4, <1>5

\* A callback joins the others.
LEMMA CallMade ==
    ASSUME SchedulerTypes, NEW x \in Calls, calls' = Append(calls, x),
           x.call = "offer" /\ Disruptive(x.m) => x.gen <= disrupted',
           \A k \in DOMAIN calls : calls[k].call = "offer" /\ Disruptive(calls[k].m)
                                     => calls[k].gen <= disrupted'
    PROVE  CallsInv'
  <1>1. calls \in Seq(Calls)
    BY DEF SchedulerTypes
  <1>2. \A k \in DOMAIN calls' : (k \in DOMAIN calls /\ calls'[k] = calls[k]) \/ calls'[k] = x
    BY <1>1, AppendedTo, SMT
  <1> QED
    BY <1>2 DEF CallsInv

\* Every step keeps DisruptedInv.
LEMMA DisruptedNext ==
    ASSUME SchedulerTypes, FreshInv, DisruptedInv, [Next]_vars
    PROVE  DisruptedInv'
  <1> USE DEF batchVars, lineVars, poolVars, drainVars, mgrVars, pumpVars, workerVars, turnVars, schedulerVars
  <1> DEFINE Kept == UNCHANGED <<gen, disrupted, born, errored, responses, calls, inbox>>
             Idle == UNCHANGED <<drained, active, mgr, workerUp>>
  <1>0. /\ GenerationsInv /\ ResponsesInv /\ CallsInv /\ InboxInv /\ ReapedInv /\ ClearedInv
        /\ FailsWithItsWorkers
    BY DEF DisruptedInv
  <1>1. ASSUME Kept, Idle
        PROVE  DisruptedInv'
    BY <1>1, DisruptedFrame DEF DisruptedInv
  <1>2. ASSUME NEW b \in Batches,
               CreateBatch(b) \/ CancelBatch(b) \/ FinalizeComplete(b) \/ FinalizeFailed(b)
                 \/ FinalizeTimeout(b) \/ FailCheck(b)
        PROVE  DisruptedInv'
    BY <1>1, <1>2 DEF CreateBatch, CancelBatch, FinalizeComplete, FinalizeFailed, FinalizeTimeout,
                      FailCheck
  <1>3. CASE SkipBatch \/ DrainAck \/ (\E t \in Turns : SubmitTurn(t) \/ CancelTurn(t))
    BY <1>1, <1>3 DEF SkipBatch, DrainAck, SubmitTurn, CancelTurn
  <1>4. CASE UNCHANGED vars
    BY <1>1, <1>4 DEF vars
  <1>5. CASE DrainSend \/ DrainRequeue
    <2>1. Kept /\ drained' = <<>> /\ UNCHANGED <<mgr, workerUp>>
      BY <1>5 DEF DrainSend, DrainRequeue
    <2>2. ClearedInv'
      BY <2>1 DEF ClearedInv
    <2> QED
      BY <2>1, <2>2, DisruptedFrame DEF DisruptedInv
  <1>6. CASE MonitorClaims \/ RestartEnter \/ RestartFails \/ Quiesce \/ HandlerEnds \/ Serve
    <2>1. Kept /\ UNCHANGED <<drained, active>>
      BY <1>6 DEF MonitorClaims, RestartEnter, RestartFails, Quiesce, HandlerEnds, Serve
    <2>2. mgr' \in {"claimed", "quiescing", "idle"}
      BY <1>6 DEF MonitorClaims, RestartEnter, RestartFails, Quiesce, HandlerEnds, Serve
    <2>3. ReapedInv'
      BY <2>2 DEF ReapedInv, Reaped
    <2> QED
      BY <2>1, <2>3, DisruptedFrame DEF DisruptedInv
  <1>7. CASE ProcessBatch
    <2>1. /\ UNCHANGED <<gen, disrupted, errored, responses, calls, inbox, drained, mgr, workerUp>>
          /\ drained = <<>>
          /\ born' = [born EXCEPT ![Head(queue)] = gen]
          /\ queue # <<>>
      BY <1>7 DEF ProcessBatch, LoopFree
    <2>2. gen \in Nat /\ born \in [Batches -> Nat] /\ queue \in Seq(Batches) /\ errored \in SUBSET Batches
      BY DEF SchedulerTypes
    <2>3. Head(queue) \in Batches /\ Head(queue) \in ToSet(queue)
      BY <2>1, <2>2, HeadTail DEF ToSet
    <2>4. GenerationsInv'
      BY <1>0, <2>1, <2>2, <2>3, SMT DEF GenerationsInv
    <2>5. Head(queue) \notin errored
      BY <2>3 DEF FreshInv, Fresh
    <2>6. \A b \in errored : born'[b] = born[b]
      BY <2>1, <2>2, <2>5
    <2>7. FailsWithItsWorkers'
      BY <1>0, <2>1, <2>6 DEF FailsWithItsWorkers
    <2>8. ClearedInv'
      BY <2>1 DEF ClearedInv
    <2> QED
      BY <2>1, <2>4, <2>7, <2>8, DisruptedFrame DEF DisruptedInv
  <1>8. CASE DrainSelect
    <2>1. Kept /\ UNCHANGED <<mgr, workerUp>> /\ ToSet(drained') \subseteq active'
      BY <1>8 DEF DrainSelect
    <2>2. ClearedInv'
      BY <2>1 DEF ClearedInv
    <2> QED
      BY <2>1, <2>2, DisruptedFrame DEF DisruptedInv
  <1>9. ASSUME \A b \in Batches : born[b] <= disrupted, errored' \in SUBSET Batches,
               UNCHANGED <<disrupted, born>>
        PROVE  FailsWithItsWorkers'
    <2>1. disrupted \in Nat /\ born \in [Batches -> Nat]
      BY DEF SchedulerTypes
    <2> QED
      BY <1>9, <2>1 DEF FailsWithItsWorkers
  <1>10. CASE DrainDies
    <2>1. /\ UNCHANGED <<gen, disrupted, born, responses, calls, inbox, mgr, workerUp>>
          /\ drained # <<>> /\ ~(ToSet(drained) \subseteq active) /\ drained' = <<>>
      BY <1>10 DEF DrainDies
    <2>2. errored' \in SUBSET Batches
      BY <1>10 DEF DrainDies, SchedulerTypes
    <2>3. FailsWithItsWorkers'
      BY <1>0, <1>9, <2>1, <2>2 DEF ClearedInv
    <2>4. ClearedInv'
      BY <2>1 DEF ClearedInv
    <2> QED
      BY <2>1, <2>3, <2>4, DisruptedFrame DEF DisruptedInv
  <1>11. CASE Callback
    <2> DEFINE c == Head(calls)
    <2>1. /\ UNCHANGED <<gen, disrupted, born, errored, responses, drained, active, mgr, workerUp>>
          /\ calls # <<>> /\ calls' = Tail(calls)
      BY <1>11 DEF Callback
    <2>2. calls \in Seq(Calls) /\ inbox \in Seq(Items)
      BY DEF SchedulerTypes
    <2>3. /\ c \in Calls /\ c = calls[1] /\ 1 \in DOMAIN calls
          /\ \A k \in DOMAIN calls' : k + 1 \in DOMAIN calls /\ calls'[k] = calls[k + 1]
      BY <2>1, <2>2, HeadTail
    <2>4. CallsInv'
      BY <1>0, <2>1, <2>3 DEF CallsInv
    <2>5. CASE c.call = "offer"
      <3> DEFINE x == [gen |-> c.gen, m |-> c.m]
      <3>1. inbox' = Append(inbox, x) \/ inbox' = inbox
        BY <1>11, <2>5 DEF Callback
      <3>2. x \in Items
        BY <2>3, <2>5, OfferedItem
      <3>3. Disruptive(x.m) => x.gen <= disrupted
        BY <1>0, <2>3, <2>5 DEF CallsInv
      <3> HIDE DEF x
      <3>4. \A k \in DOMAIN Append(inbox, x) :
              (k \in DOMAIN inbox /\ Append(inbox, x)[k] = inbox[k]) \/ Append(inbox, x)[k] = x
        BY <2>2, <3>2, Appended
      <3>5. \A k \in DOMAIN inbox' : (k \in DOMAIN inbox /\ inbox'[k] = inbox[k]) \/ inbox'[k] = x
        BY <3>1, <3>4
      <3>6. InboxInv'
        BY <1>0, <2>1, <3>3, <3>5 DEF InboxInv
      <3> QED
        BY <2>1, <2>4, <3>6, DisruptedFrame DEF DisruptedInv
    <2>6. CASE c.call # "offer"
      <3>1. UNCHANGED inbox
        BY <1>11, <2>6 DEF Callback
      <3> QED
        BY <2>1, <2>4, <3>1, DisruptedFrame DEF DisruptedInv
    <2> QED
      BY <2>5, <2>6
  <1>12. CASE Listen
    <2>1. /\ UNCHANGED <<gen, disrupted, born, responses, calls, drained, mgr>> /\ drained = <<>>
          /\ inbox # <<>> /\ inbox' = Tail(inbox)
      BY <1>12 DEF Listen, LoopFree, Route, RouteCompletion, SkipCompletion, RouteFatal, RouteChannelError
    <2>2. inbox \in Seq(Items) /\ gen \in Nat /\ disrupted \in Nat /\ born \in [Batches -> Nat]
      BY DEF SchedulerTypes
    <2>3. /\ Head(inbox) = inbox[1] /\ 1 \in DOMAIN inbox
          /\ \A k \in DOMAIN inbox' : k + 1 \in DOMAIN inbox /\ inbox'[k] = inbox[k + 1]
      BY <2>1, <2>2, HeadTail
    <2>4. InboxInv'
      BY <1>0, <2>1, <2>3 DEF InboxInv
    <2>5. ReapedInv'
      <3>1. workerUp' => workerUp
        BY <1>12 DEF Listen, Route, RouteCompletion, SkipCompletion, RouteFatal, RouteChannelError
      <3> QED
        BY <2>1, <3>1, DisruptedFrame
    <2>6. \/ UNCHANGED errored
          \/ /\ Head(inbox).gen = gen /\ Disruptive(Head(inbox).m)
             /\ errored' \in SUBSET Batches
      BY <1>12 DEF Listen, Route, RouteCompletion, SkipCompletion, RouteFatal, RouteChannelError, FailAllOnLoop,
                   Disruptive, SchedulerTypes
    <2>7. ASSUME Head(inbox).gen = gen, Disruptive(Head(inbox).m), errored' \in SUBSET Batches
          PROVE  FailsWithItsWorkers'
      <3>1. gen <= disrupted
        BY <1>0, <2>3, <2>7 DEF InboxInv
      <3>2. \A b \in Batches : born[b] <= disrupted
        BY <1>0, <2>2, <3>1, SMT DEF GenerationsInv
      <3> QED
        BY <1>9, <2>1, <2>7, <3>2
    <2>8. FailsWithItsWorkers'
      BY <2>1, <2>6, <2>7, DisruptedFrame
    <2>9. ClearedInv'
      BY <2>1 DEF ClearedInv
    <2> QED
      BY <2>1, <2>4, <2>5, <2>8, <2>9, DisruptedFrame DEF DisruptedInv
  <1>13. ASSUME mgr = "failing"
         PROVE  \A b \in Batches : born[b] <= disrupted
    BY <1>0, <1>13 DEF GenerationsInv, ReapedInv
  <1>14. CASE FailWrite
    <2>1. /\ UNCHANGED <<gen, disrupted, born, responses, calls, inbox, drained, active, mgr, workerUp>>
          /\ mgr = "failing"
      BY <1>14 DEF FailWrite
    <2>2. errored' \in SUBSET Batches
      BY <1>14 DEF FailWrite, SchedulerTypes
    <2>3. FailsWithItsWorkers'
      BY <1>9, <1>13, <2>1, <2>2
    <2> QED
      BY <2>1, <2>3, DisruptedFrame DEF DisruptedInv
  <1>15. CASE FailRest
    <2>1. /\ UNCHANGED <<gen, disrupted, born, errored, responses, inbox, drained, workerUp>>
          /\ mgr = "failing" /\ mgr' = "reconciled" /\ calls' = Append(calls, CloseCall)
      BY <1>15 DEF FailRest
    <2>2. CloseCall \in Calls /\ CloseCall.call # "offer"
      BY DEF Calls, CloseCall
    <2>3. CallsInv'
      BY <1>0, <2>1, <2>2, CallMade DEF CallsInv
    <2>4. ClearedInv'
      BY <1>13, <2>1 DEF ClearedInv
    <2>5. ReapedInv'
      BY <1>0, <2>1 DEF ReapedInv, Reaped
    <2> QED
      BY <2>1, <2>3, <2>4, <2>5, DisruptedFrame DEF DisruptedInv
  <1>16. CASE Resume
    <2>1. /\ UNCHANGED <<gen, disrupted, born, errored, responses, inbox, drained, active>>
          /\ mgr' = "resumed" /\ calls' = Append(calls, OpenCall)
      BY <1>16 DEF Resume
    <2>2. OpenCall \in Calls /\ OpenCall.call # "offer"
      BY DEF Calls, OpenCall
    <2>3. CallsInv'
      BY <1>0, <2>1, <2>2, CallMade DEF CallsInv
    <2>4. ReapedInv'
      BY <2>1 DEF ReapedInv, Reaped
    <2> QED
      BY <2>1, <2>3, <2>4, DisruptedFrame DEF DisruptedInv
  <1>17. ASSUME NEW i \in Requests \union Turns, Work(i)
         PROVE  DisruptedInv'
    <2>1. UNCHANGED <<gen, disrupted, born, errored, calls, inbox, drained, active, mgr, workerUp>>
          /\ workerUp
      BY <1>17 DEF Work
    <2>2. \/ responses' = Append(responses, Message("done", i))
          \/ responses' = Append(responses, Message("error", i))
          \/ responses' = responses \o <<Message("done", i), Message("done", i)>>
      BY <1>17 DEF Work
    <2>3. Message("done", i) \in Messages /\ Message("error", i) \in Messages
      BY DEF Message, Messages
    <2>4. responses \in Seq(Messages)
      BY DEF SchedulerTypes
    <2>5. ~Disruptive(Message("done", i)) /\ ~Disruptive(Message("error", i))
      BY DEF Disruptive, Message
    <2>6. ASSUME NEW x \in Messages, ~Disruptive(x),
                 responses' = Append(responses, x) \/ responses' = responses \o <<x, x>>
          PROVE  ResponsesInv'
      <3>1. /\ \A k \in DOMAIN Append(responses, x) :
                 \/ k \in DOMAIN responses /\ Append(responses, x)[k] = responses[k]
                 \/ Append(responses, x)[k] = x
            /\ \A k \in DOMAIN (responses \o <<x, x>>) :
                 \/ k \in DOMAIN responses /\ (responses \o <<x, x>>)[k] = responses[k]
                 \/ (responses \o <<x, x>>)[k] = x
        BY <2>4, Appended, AppendedTwice
      <3>2. \A k \in DOMAIN responses' :
              (k \in DOMAIN responses /\ responses'[k] = responses[k]) \/ responses'[k] = x
        BY <2>6, <3>1
      <3> QED
        BY <1>0, <2>1, <2>6, <3>2 DEF ResponsesInv
    <2>7. ResponsesInv'
      BY <2>2, <2>3, <2>5, <2>6
    <2>8. mgr \notin Reaped
      BY <1>0, <2>1 DEF ReapedInv
    <2>9. ReapedInv'
      BY <2>1, <2>8 DEF ReapedInv, Reaped
    <2> QED
      BY <2>1, <2>7, <2>9, DisruptedFrame DEF DisruptedInv
  <1>18. CASE WorkerEnds
    <2>1. /\ UNCHANGED <<gen, born, errored, calls, inbox, mgr>>
          /\ workerUp /\ disrupted' = gen
      BY <1>18 DEF WorkerEnds
    <2>2. mgr \notin Reaped
      BY <1>0, <2>1 DEF ReapedInv
    <2>3. ReapedInv'
      BY <2>1, <2>2 DEF ReapedInv, Reaped
    <2> QED
      BY <2>1, <2>3, DisruptedGrows DEF DisruptedInv
  <1>19. CASE TearDown
    <2>1. /\ UNCHANGED <<gen, born, errored, calls, inbox>>
          /\ ~workerUp' /\ disrupted' = gen /\ mgr' \in {"failing", "reconciled"}
      BY <1>19 DEF TearDown
    <2>2. ReapedInv'
      BY <2>1 DEF ReapedInv
    <2> QED
      BY <2>1, <2>2, DisruptedGrows DEF DisruptedInv
  <1>20. CASE PumpFails
    <2> DEFINE x == Offer(Message("channel_error", None))
    <2>1. /\ UNCHANGED <<gen, born, errored, responses, inbox, mgr, workerUp>>
          /\ disrupted' = gen /\ calls' = Append(calls, x)
      BY <1>20 DEF PumpFails
    <2>2. gen \in Nat
      BY DEF SchedulerTypes
    <2>3. x \in Calls /\ x.gen = gen
      BY <2>2 DEF Offer, Calls, Message, Messages
    <2> HIDE DEF x
    <2>4. \A k \in DOMAIN calls : calls[k].call = "offer" /\ Disruptive(calls[k].m)
                                    => calls[k].gen <= disrupted'
      BY <2>1, DisruptedGrows
    <2>5. x.gen <= disrupted'
      BY <2>1, <2>2, <2>3, SMT
    <2>6. CallsInv'
      BY <2>1, <2>3, <2>4, <2>5, CallMade
    <2>7. ReapedInv'
      BY <1>0, <2>1 DEF ReapedInv
    <2> QED
      BY <2>1, <2>6, <2>7, DisruptedGrows DEF DisruptedInv
  <1>21. CASE PumpForward
    <2> DEFINE x == Offer(Head(responses))
    <2>1. /\ UNCHANGED <<gen, disrupted, born, errored, inbox, drained, active, mgr, workerUp>>
          /\ responses # <<>> /\ responses' = Tail(responses) /\ calls' = Append(calls, x)
      BY <1>21 DEF PumpForward
    <2>2. responses \in Seq(Messages) /\ gen \in Nat /\ disrupted \in Nat
      BY DEF SchedulerTypes
    <2>3. /\ Head(responses) \in Messages /\ Head(responses) = responses[1] /\ 1 \in DOMAIN responses
          /\ \A k \in DOMAIN responses' :
               k + 1 \in DOMAIN responses /\ responses'[k] = responses[k + 1]
      BY <2>1, <2>2, HeadTail
    <2>4. x \in Calls /\ x.gen = gen /\ x.m = responses[1]
      BY <2>2, <2>3 DEF Offer, Calls
    <2> HIDE DEF x
    <2>5. Disruptive(x.m) => x.gen <= disrupted'
      BY <1>0, <2>1, <2>2, <2>3, <2>4, SMT DEF ResponsesInv
    <2>6. CallsInv'
      BY <1>0, <2>1, <2>4, <2>5, CallMade DEF CallsInv
    <2>7. ResponsesInv'
      BY <1>0, <2>1, <2>3 DEF ResponsesInv
    <2>8. ReapedInv'
      BY <1>0, <2>1 DEF ReapedInv
    <2> QED
      BY <2>1, <2>6, <2>7, <2>8, DisruptedFrame DEF DisruptedInv
  <1>22. CASE Retire
    <2>1. /\ UNCHANGED <<disrupted, born, errored, calls, inbox, drained, active, workerUp>>
          /\ gen' = gen + 1 /\ responses' = <<>> /\ mgr = "reconciled" /\ mgr' = "retired"
      BY <1>22 DEF Retire
    <2>2. ReapedInv'
      BY <1>0, <2>1 DEF ReapedInv, Reaped
    <2> QED
      BY <2>1, <2>2, GenerationGrows DEF DisruptedInv
  <1>23. CASE SpawnReady
    <2>1. /\ UNCHANGED <<disrupted, born, errored, responses, calls, inbox, drained, active>>
          /\ gen' = gen + 1 /\ mgr = "retired" /\ mgr' = "spawned"
      BY <1>23 DEF SpawnReady
    <2>2. responses' = <<>>
      BY <1>0, <2>1 DEF ReapedInv
    <2>3. ReapedInv'
      BY <2>1 DEF ReapedInv, Reaped
    <2> QED
      BY <2>1, <2>2, <2>3, GenerationGrows DEF DisruptedInv
  <1>24. CASE ClientStep
    BY <1>2, <1>3, <1>24 DEF ClientStep
  <1>25. CASE LoopStep
    BY <1>2, <1>3, <1>5, <1>7, <1>8, <1>10, <1>11, <1>12, <1>25 DEF LoopStep
  <1>26. CASE ManagerStep
    BY <1>2, <1>6, <1>14, <1>15, <1>16, <1>19, <1>22, <1>23, <1>26 DEF ManagerStep
  <1> QED
    BY <1>2, <1>4, <1>6, <1>17, <1>18, <1>20, <1>21, <1>24, <1>25, <1>26 DEF Next

-----------------------------------------------------------------------------
\* At start-up nothing is queued, counted or disrupted.
LEMMA SchedulerInit ==
    Init => SchedulerTypes /\ CountedInv /\ FreshInv /\ DisruptedInv
  <1> SUFFICES ASSUME Init
               PROVE  SchedulerTypes /\ CountedInv /\ FreshInv /\ DisruptedInv
    OBVIOUS
  <1>1. SchedulerTypes
    BY Empty DEF Init, SchedulerTypes, Statuses
  <1>2. CountedInv /\ FreshInv
    BY Empty, SchedulerAssumption DEF Init, CountedInv, FreshInv, Fresh, CompletesWhole, Routed, ToSet
  <1>3. DisruptedInv
    <2>1. GenerationsInv /\ ReapedInv /\ ClearedInv /\ FailsWithItsWorkers
      BY SMT DEF Init, GenerationsInv, ReapedInv, ClearedInv, FailsWithItsWorkers, Reaped
    <2>2. ResponsesInv /\ CallsInv /\ InboxInv
      BY Empty DEF Init, ResponsesInv, CallsInv, InboxInv
    <2> QED
      BY <2>1, <2>2 DEF DisruptedInv
  <1> QED
    BY <1>1, <1>2, <1>3

\* The inductive invariant holds throughout.
THEOREM SchedulerInvariant ==
    Spec => [](SchedulerTypes /\ CountedInv /\ FreshInv /\ DisruptedInv)
  <1>1. SchedulerTypes /\ CountedInv /\ FreshInv /\ DisruptedInv /\ [Next]_vars
          => (SchedulerTypes /\ CountedInv /\ FreshInv /\ DisruptedInv)'
    BY TypesNext, CountedNext, FreshNext, DisruptedNext
  <1> QED
    BY <1>1, SchedulerInit, PTL DEF Spec

\* Every request of a batch reported completed had its completion routed, for
\* any batches and whatever is delivered twice, fails or restarts: its line is in
\* the output unless that write failed (mark_request_completed and
\* _finalize_batch_output).
THEOREM CompletedIsWhole ==
    Spec => []CompletesWhole
  <1>1. CountedInv => CompletesWhole
    BY DEF CountedInv
  <1> QED
    BY <1>1, SchedulerInvariant, PTL

\* No batch is failed for the failure of a cohort it did not run under, however
\* late that failure is delivered (the generation checks of _offer_completion
\* and _pool_completion_listener).
THEOREM FailuresStayWithCohort ==
    Spec => []FailsWithItsWorkers
  <1>1. DisruptedInv => FailsWithItsWorkers
    BY DEF DisruptedInv
  <1> QED
    BY <1>1, SchedulerInvariant, PTL

=============================================================================
