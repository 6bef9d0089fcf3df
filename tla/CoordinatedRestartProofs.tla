----------------------- MODULE CoordinatedRestartProofs -----------------------
(***************************************************************************)
(* The coordinated restart keeps worlds apart, for any set of nodes and    *)
(* any number of restarts and faults.                                      *)
(***************************************************************************)
EXTENDS CoordinatedRestart, TLAPS

USE ZenonT(60)

\* Where a restart thread has acked P1 and passed its barrier.
PastP1 == {"spawn", "wait", "P2", "hooks"}

\* Where a restart thread holds the teardown lock.
Owning == {"P0", "teardown", "armFailed"}

\* The types of the variables the arguments below are about.
CoreTypeOK ==
    /\ epoch \in Nat
    /\ run \in [Nodes -> Nat]
    /\ cohort \in [Nodes -> Nat \union {NoRanks}]
    /\ state \in [Nodes -> {"serving", "restarting", "workers_down", "gone"}]
    /\ at \in [Nodes -> {"idle", "begin", "publish", "reading", "arming", "P0", "teardown",
                         "armFailed", "P1", "spawn", "wait", "P2", "hooks"}]
    /\ lock \in [Nodes -> {"free", "restart", "handler", "exit"}]
    /\ handler \in [Nodes -> {"none", "publish", "teardown", "quiet"}]
    /\ stopping \in [Nodes -> BOOLEAN]
    /\ queued \in [Nodes -> BOOLEAN]

\* What makes OneTeardownOwner inductive: who holds the lock, and where the
\* restart thread can be meanwhile.
LockInv ==
    \A n \in Nodes :
        /\ handler[n] # "none" => lock[n] = "handler"
        /\ lock[n] = "restart" <=> at[n] \in Owning
        /\ lock[n] = "handler" /\ ~stopping[n] =>
             /\ state[n] # "serving"
             /\ at[n] \in {"idle", "begin", "publish", "reading", "arming"}
        /\ at[n] \notin {"idle", "reading"} => state[n] = "restarting"

\* Acks and ranks name epochs their node has joined.
JoinedInv ==
    /\ \A n \in Nodes : cohort[n] <= run[n] /\ run[n] <= epoch
    /\ \A e \in Nat, p \in Phases, n \in Nodes : <<e, p, n>> \in okAcks => e <= run[n]

\* What makes NoMixedWorld and ServesWholeWorld inductive: a node whose P1 ack
\* of an epoch is in the store holds no older ranks, and ranks exist, or are
\* still to be spawned, only of epochs whose P1 is global.
WorldInv ==
    /\ \A e \in Nat, n \in Nodes :
         <<e, "P1", n>> \in okAcks => cohort[n] = NoRanks \/ e <= cohort[n]
    /\ \A n \in Nodes : cohort[n] > 0 => AllAcked(cohort[n], "P1")
    /\ \A n \in Nodes : at[n] \in PastP1 => AllAcked(run[n], "P1")
    /\ \A n \in Nodes : at[n] = "hooks" => AllAcked(run[n], "P2")
    /\ \A n \in Nodes : queued[n] =>
         at[n] = "idle" /\ state[n] = "workers_down" /\ AllAcked(run[n], "P1")
    /\ ServesWholeWorld

\* A node that runs a restart lives, and has not acked the phases it has not
\* reached; one that failed a phase of its epoch does not go on with it, unless
\* it is stopping.
Flight(n) ==
    /\ at[n] # "idle" => Up(n)
    /\ at[n] \in {"publish", "reading", "arming"} => <<run[n], "P0", n>> \notin okAcks
    /\ at[n] \in {"publish", "reading", "arming"} \union Owning => <<run[n], "P1", n>> \notin okAcks
    /\ at[n] \in {"publish", "reading", "arming", "P1", "spawn", "wait"} \union Owning =>
         <<run[n], "P2", n>> \notin okAcks
    /\ \A e \in Nat, p \in Phases : <<e, p, n>> \in failedAcks =>
         e <= run[n] /\ (e = run[n] => at[n] \in {"idle", "begin"} \/ stopping[n])

FlightInv == \A n \in Nodes : Flight(n)

\* Why the nodes of an epoch need no word from one that gives up: the deadline
\* has passed, a node is ending, or a failed phase is in the store already.
Excused(e) ==
    \/ e \in expired
    \/ \E m \in Nodes : stopping[m] \/ ~Up(m)
    \/ \E p \in Phases, m \in Nodes : <<e, p, m>> \in failedAcks

\* What makes GivenUpIsPublished inductive: publishing what is owed leaves word
\* of it, for the phase was not acked, or somebody else's failure ended it.
OwedInv ==
    /\ DOMAIN owed = Nodes
    /\ \A n \in Nodes : \A o \in owed[n] :
         /\ o.epoch \in Nat /\ o.epoch <= run[n] /\ o.phase \in Phases
         /\ o.epoch = run[n] => at[n] \in {"idle", "begin"}
         /\ o.ready \/ <<o.epoch, o.phase, n>> \notin okAcks \/ Excused(o.epoch)
    /\ \A e \in Nat, n \in Nodes : <<e, n>> \in gaveUp =>
         \/ Excused(e)
         \/ \E o \in owed[n] : o.epoch = e
         \/ \E key \in down : key[2] = n

-----------------------------------------------------------------------------
\* Every step keeps the types.
LEMMA CoreTypeNext ==
    ASSUME CoreTypeOK, [Next]_vars
    PROVE  CoreTypeOK'
  <1> USE ClusterAssumption DEF CoreTypeOK, NoRanks
  <1>1. CASE UNCHANGED vars
    BY <1>1 DEF vars, store, manager, ranks, threads
  <1>2. CASE RestartEnter
    BY <1>2 DEF RestartEnter, store, ranks, threads
  <1>3. CASE BeginEpoch
    BY <1>3, SMT DEF BeginEpoch, ranks, threads
  <1>4. CASE PublishRequest
    BY <1>4 DEF PublishRequest, ranks, threads
  <1>5. ASSUME NEW e \in requests, Expire(e) PROVE CoreTypeOK'
    BY <1>5 DEF Expire, store, manager, ranks, threads
  <1>6. ASSUME NEW n \in Nodes, ReadRequest(n) PROVE CoreTypeOK'
    BY <1>6 DEF ReadRequest, store, ranks, threads
  <1>7. ASSUME NEW n \in Nodes, RequestUnreadable(n) PROVE CoreTypeOK'
    BY <1>7 DEF RequestUnreadable, FailPhases, ranks, threads
  <1>8. ASSUME NEW n \in Nodes, Arm(n) PROVE CoreTypeOK'
    BY <1>8 DEF Arm, AckOk, ranks
  <1>9. ASSUME NEW n \in Nodes, ArmFails(n) PROVE CoreTypeOK'
    BY <1>9 DEF ArmFails, GiveUp, store, ranks
  <1>10. ASSUME NEW n \in Nodes, PassArmed(n) PROVE CoreTypeOK'
    BY <1>10 DEF PassArmed, BarrierPasses, store, ranks, threads
  <1>11. ASSUME NEW n \in Nodes, FailArmed(n) PROVE CoreTypeOK'
    BY <1>11 DEF FailArmed, BarrierFails, store, ranks, threads
  <1>12. ASSUME NEW n \in Nodes, TearDown(n) PROVE CoreTypeOK'
    BY <1>12 DEF TearDown, AckOk
  <1>13. ASSUME NEW n \in Nodes, TearDownAborts(n) PROVE CoreTypeOK'
    BY <1>13 DEF TearDownAborts, GiveUp, store
  <1>14. ASSUME NEW n \in Nodes, TearDownFails(n) PROVE CoreTypeOK'
    BY <1>14 DEF TearDownFails, GiveUp, store, ranks
  <1>15. ASSUME NEW n \in Nodes, PassTornDown(n) PROVE CoreTypeOK'
    BY <1>15 DEF PassTornDown, BarrierPasses, store, ranks, threads
  <1>16. ASSUME NEW n \in Nodes, FailBarrier(n) PROVE CoreTypeOK'
    BY <1>16 DEF FailBarrier, BarrierFails, GiveUp, store, ranks
  <1>17. ASSUME NEW n \in Nodes, Spawn(n) PROVE CoreTypeOK'
    BY <1>17 DEF Spawn, store, threads
  <1>18. ASSUME NEW n \in Nodes, SpawnFails(n) PROVE CoreTypeOK'
    BY <1>18 DEF SpawnFails, GiveUp, store, ranks
  <1>19. ASSUME NEW n \in Nodes, Ready(n) PROVE CoreTypeOK'
    BY <1>19 DEF Ready, AckOk, ranks, threads
  <1>20. ASSUME NEW n \in Nodes, ReadyFails(n) PROVE CoreTypeOK'
    BY <1>20 DEF ReadyFails, GiveUp, store, ranks
  <1>21. ASSUME NEW n \in Nodes, PassReady(n) PROVE CoreTypeOK'
    BY <1>21 DEF PassReady, BarrierPasses, store, ranks, threads
  <1>22. ASSUME NEW n \in Nodes, Hooks(n) PROVE CoreTypeOK'
    BY <1>22 DEF Hooks, store, ranks, threads
  <1>23. ASSUME NEW n \in Nodes, HooksFail(n) PROVE CoreTypeOK'
    BY <1>23 DEF HooksFail, GiveUp, store, ranks
  <1>24. ASSUME NEW n \in Nodes, PublishFailure(n) PROVE CoreTypeOK'
    BY <1>24 DEF PublishFailure, FailPhases, manager, ranks
  <1>25. ASSUME NEW n \in Nodes, RanksFail(n) PROVE CoreTypeOK'
    BY <1>25 DEF RanksFail, store, manager, threads
  <1>26. ASSUME NEW n \in Nodes, Claim(n) PROVE CoreTypeOK'
    BY <1>26 DEF Claim, TakeDown, store, ranks
  <1>27. ASSUME NEW n \in Nodes, PublishDown(n) PROVE CoreTypeOK'
    BY <1>27 DEF PublishDown, manager, ranks
  <1>28. ASSUME NEW n \in Nodes, HandlerTeardown(n) PROVE CoreTypeOK'
    BY <1>28 DEF HandlerTeardown, store, manager, ranks
  <1>29. ASSUME NEW n \in Nodes, Follow(n) PROVE CoreTypeOK'
    BY <1>29 DEF Follow, FollowerFree, store, ranks, threads
  <1>30. ASSUME NEW n \in Nodes, PollDown(n) PROVE CoreTypeOK'
    BY <1>30 DEF PollDown, store, manager, ranks
  <1>31. ASSUME NEW n \in Nodes, PollLost(n) PROVE CoreTypeOK'
    BY <1>31 DEF PollLost, store, manager, ranks
  <1>32. ASSUME NEW n \in Nodes, ControlLost(n) PROVE CoreTypeOK'
    BY <1>32 DEF ControlLost, store, manager, ranks
  <1>33. ASSUME NEW n \in Nodes, React(n) PROVE CoreTypeOK'
    BY <1>33 DEF React, TakeDown, store, ranks
  <1>34. ASSUME NEW n \in Nodes, Stop(n) PROVE CoreTypeOK'
    BY <1>34 DEF Stop, FailPhases, manager, ranks, threads
  <1>35. ASSUME NEW n \in Nodes, StopEnds(n) PROVE CoreTypeOK'
    BY <1>35 DEF StopEnds, Leave, store
  <1>36. ASSUME NEW n \in Nodes, Kill(n) PROVE CoreTypeOK'
    BY <1>36 DEF Kill, Leave, store
  <1>37. ASSUME NEW n \in Nodes, LateSpawn(n) PROVE CoreTypeOK'
    BY <1>37 DEF LateSpawn, store, manager, threads
  <1>38. ASSUME NEW n \in Nodes, TakeExitLock(n) PROVE CoreTypeOK'
    BY <1>38 DEF TakeExitLock, store, manager, ranks
  <1> QED
    BY <1>1, <1>2, <1>3, <1>4, <1>5, <1>6, <1>7, <1>8, <1>9, <1>10, <1>11, <1>12,
       <1>13, <1>14, <1>15, <1>16, <1>17, <1>18, <1>19, <1>20, <1>21, <1>22, <1>23,
       <1>24, <1>25, <1>26, <1>27, <1>28, <1>29, <1>30, <1>31, <1>32, <1>33, <1>34,
       <1>35, <1>36, <1>37, <1>38
    DEF Next, RestartStep, HandlerStep, FollowerStep

\* Every step keeps the teardown lock with one owner.
LEMMA LockNext ==
    ASSUME CoreTypeOK, LockInv, [Next]_vars
    PROVE  LockInv'
  <1> USE ClusterAssumption DEF CoreTypeOK, LockInv, Owning
  <1>1. CASE UNCHANGED vars
    BY <1>1 DEF vars, store, manager, ranks, threads
  <1>2. CASE RestartEnter
    BY <1>2, SMT DEF RestartEnter, store, ranks, threads
  <1>3. CASE BeginEpoch
    BY <1>3 DEF BeginEpoch, ranks, threads
  <1>4. CASE PublishRequest
    BY <1>4 DEF PublishRequest, ranks, threads
  <1>5. ASSUME NEW e \in requests, Expire(e) PROVE LockInv'
    BY <1>5 DEF Expire, store, manager, ranks, threads
  <1>6. ASSUME NEW n \in Nodes, ReadRequest(n) PROVE LockInv'
    BY <1>6, SMT DEF ReadRequest, store, ranks, threads
  <1>7. ASSUME NEW n \in Nodes, RequestUnreadable(n) PROVE LockInv'
    BY <1>7 DEF RequestUnreadable, FailPhases, ranks, threads
  <1>8. ASSUME NEW n \in Nodes, Arm(n) PROVE LockInv'
    BY <1>8, SMT DEF Arm, AckOk, ranks
  <1>9. ASSUME NEW n \in Nodes, ArmFails(n) PROVE LockInv'
    BY <1>9, SMT DEF ArmFails, GiveUp, store, ranks
  <1>10. ASSUME NEW n \in Nodes, PassArmed(n) PROVE LockInv'
    BY <1>10, SMT DEF PassArmed, BarrierPasses, store, ranks, threads
  <1>11. ASSUME NEW n \in Nodes, FailArmed(n) PROVE LockInv'
    BY <1>11 DEF FailArmed, BarrierFails, store, ranks, threads
  <1>12. ASSUME NEW n \in Nodes, TearDown(n) PROVE LockInv'
    BY <1>12, SMT DEF TearDown, AckOk
  <1>13. ASSUME NEW n \in Nodes, TearDownAborts(n) PROVE LockInv'
    BY <1>13, SMT DEF TearDownAborts, GiveUp, store
  <1>14. ASSUME NEW n \in Nodes, TearDownFails(n) PROVE LockInv'
    BY <1>14, SMT DEF TearDownFails, GiveUp, store, ranks
  <1>15. ASSUME NEW n \in Nodes, PassTornDown(n) PROVE LockInv'
    BY <1>15 DEF PassTornDown, BarrierPasses, store, ranks, threads
  <1>16. ASSUME NEW n \in Nodes, FailBarrier(n) PROVE LockInv'
    BY <1>16, SMT DEF FailBarrier, BarrierFails, GiveUp, store, ranks
  <1>17. ASSUME NEW n \in Nodes, Spawn(n) PROVE LockInv'
    BY <1>17 DEF Spawn, store, threads
  <1>18. ASSUME NEW n \in Nodes, SpawnFails(n) PROVE LockInv'
    BY <1>18, SMT DEF SpawnFails, GiveUp, store, ranks
  <1>19. ASSUME NEW n \in Nodes, Ready(n) PROVE LockInv'
    BY <1>19 DEF Ready, AckOk, ranks, threads
  <1>20. ASSUME NEW n \in Nodes, ReadyFails(n) PROVE LockInv'
    BY <1>20, SMT DEF ReadyFails, GiveUp, store, ranks
  <1>21. ASSUME NEW n \in Nodes, PassReady(n) PROVE LockInv'
    BY <1>21 DEF PassReady, BarrierPasses, store, ranks, threads
  <1>22. ASSUME NEW n \in Nodes, Hooks(n) PROVE LockInv'
    BY <1>22, SMT DEF Hooks, store, ranks, threads
  <1>23. ASSUME NEW n \in Nodes, HooksFail(n) PROVE LockInv'
    BY <1>23, SMT DEF HooksFail, GiveUp, store, ranks
  <1>24. ASSUME NEW n \in Nodes, PublishFailure(n) PROVE LockInv'
    BY <1>24, SMT DEF PublishFailure, FailPhases, manager, ranks
  <1>25. ASSUME NEW n \in Nodes, RanksFail(n) PROVE LockInv'
    BY <1>25 DEF RanksFail, store, manager, threads
  <1>26. ASSUME NEW n \in Nodes, Claim(n) PROVE LockInv'
    BY <1>26, SMT DEF Claim, TakeDown, store, ranks
  <1>27. ASSUME NEW n \in Nodes, PublishDown(n) PROVE LockInv'
    BY <1>27, SMT DEF PublishDown, manager, ranks
  <1>28. ASSUME NEW n \in Nodes, HandlerTeardown(n) PROVE LockInv'
    BY <1>28 DEF HandlerTeardown, store, manager, ranks
  <1>29. ASSUME NEW n \in Nodes, Follow(n) PROVE LockInv'
    BY <1>29 DEF Follow, FollowerFree, store, ranks, threads
  <1>30. ASSUME NEW n \in Nodes, PollDown(n) PROVE LockInv'
    BY <1>30 DEF PollDown, store, manager, ranks
  <1>31. ASSUME NEW n \in Nodes, PollLost(n) PROVE LockInv'
    BY <1>31 DEF PollLost, store, manager, ranks
  <1>32. ASSUME NEW n \in Nodes, ControlLost(n) PROVE LockInv'
    BY <1>32 DEF ControlLost, store, manager, ranks
  <1>33. ASSUME NEW n \in Nodes, React(n) PROVE LockInv'
    BY <1>33, SMT DEF React, TakeDown, store, ranks
  <1>34. ASSUME NEW n \in Nodes, Stop(n) PROVE LockInv'
    BY <1>34, SMT DEF Stop, FailPhases, manager, ranks, threads
  <1>35. ASSUME NEW n \in Nodes, StopEnds(n) PROVE LockInv'
    BY <1>35, SMT DEF StopEnds, Leave, store
  <1>36. ASSUME NEW n \in Nodes, Kill(n) PROVE LockInv'
    BY <1>36, SMT DEF Kill, Leave, store
  <1>37. ASSUME NEW n \in Nodes, LateSpawn(n) PROVE LockInv'
    BY <1>37 DEF LateSpawn, store, manager, threads
  <1>38. ASSUME NEW n \in Nodes, TakeExitLock(n) PROVE LockInv'
    BY <1>38, SMT DEF TakeExitLock, store, manager, ranks
  <1> QED
    BY <1>1, <1>2, <1>3, <1>4, <1>5, <1>6, <1>7, <1>8, <1>9, <1>10, <1>11, <1>12,
       <1>13, <1>14, <1>15, <1>16, <1>17, <1>18, <1>19, <1>20, <1>21, <1>22, <1>23,
       <1>24, <1>25, <1>26, <1>27, <1>28, <1>29, <1>30, <1>31, <1>32, <1>33, <1>34,
       <1>35, <1>36, <1>37, <1>38
    DEF Next, RestartStep, HandlerStep, FollowerStep

\* Every step acks, or spawns, only for the epoch its node has joined.
LEMMA JoinedNext ==
    ASSUME CoreTypeOK, JoinedInv, [Next]_vars
    PROVE  JoinedInv'
  <1> USE ClusterAssumption DEF CoreTypeOK, JoinedInv, NoRanks
  <1>1. CASE UNCHANGED vars
    BY <1>1 DEF vars, store, manager, ranks, threads
  <1>2. CASE RestartEnter
    BY <1>2 DEF RestartEnter, store, ranks, threads
  <1>3. CASE BeginEpoch
    BY <1>3, SMT DEF BeginEpoch, ranks, threads
  <1>4. CASE PublishRequest
    BY <1>4 DEF PublishRequest, ranks, threads
  <1>5. ASSUME NEW e \in requests, Expire(e) PROVE JoinedInv'
    BY <1>5 DEF Expire, store, manager, ranks, threads
  <1>6. ASSUME NEW n \in Nodes, ReadRequest(n) PROVE JoinedInv'
    BY <1>6 DEF ReadRequest, store, ranks, threads
  <1>7. ASSUME NEW n \in Nodes, RequestUnreadable(n) PROVE JoinedInv'
    BY <1>7 DEF RequestUnreadable, FailPhases, ranks, threads
  <1>8. ASSUME NEW n \in Nodes, Arm(n) PROVE JoinedInv'
    BY <1>8, SMT DEF Arm, AckOk, ranks
  <1>9. ASSUME NEW n \in Nodes, ArmFails(n) PROVE JoinedInv'
    BY <1>9 DEF ArmFails, GiveUp, store, ranks
  <1>10. ASSUME NEW n \in Nodes, PassArmed(n) PROVE JoinedInv'
    BY <1>10 DEF PassArmed, BarrierPasses, store, ranks, threads
  <1>11. ASSUME NEW n \in Nodes, FailArmed(n) PROVE JoinedInv'
    BY <1>11 DEF FailArmed, BarrierFails, store, ranks, threads
  <1>12. ASSUME NEW n \in Nodes, TearDown(n) PROVE JoinedInv'
    BY <1>12, SMT DEF TearDown, AckOk
  <1>13. ASSUME NEW n \in Nodes, TearDownAborts(n) PROVE JoinedInv'
    BY <1>13, SMT DEF TearDownAborts, GiveUp, store
  <1>14. ASSUME NEW n \in Nodes, TearDownFails(n) PROVE JoinedInv'
    BY <1>14, SMT DEF TearDownFails, GiveUp, store, ranks
  <1>15. ASSUME NEW n \in Nodes, PassTornDown(n) PROVE JoinedInv'
    BY <1>15 DEF PassTornDown, BarrierPasses, store, ranks, threads
  <1>16. ASSUME NEW n \in Nodes, FailBarrier(n) PROVE JoinedInv'
    BY <1>16 DEF FailBarrier, BarrierFails, GiveUp, store, ranks
  <1>17. ASSUME NEW n \in Nodes, Spawn(n) PROVE JoinedInv'
    BY <1>17, SMT DEF Spawn, store, threads
  <1>18. ASSUME NEW n \in Nodes, SpawnFails(n) PROVE JoinedInv'
    BY <1>18, SMT DEF SpawnFails, GiveUp, store, ranks
  <1>19. ASSUME NEW n \in Nodes, Ready(n) PROVE JoinedInv'
    BY <1>19, SMT DEF Ready, AckOk, ranks, threads
  <1>20. ASSUME NEW n \in Nodes, ReadyFails(n) PROVE JoinedInv'
    BY <1>20 DEF ReadyFails, GiveUp, store, ranks
  <1>21. ASSUME NEW n \in Nodes, PassReady(n) PROVE JoinedInv'
    BY <1>21 DEF PassReady, BarrierPasses, store, ranks, threads
  <1>22. ASSUME NEW n \in Nodes, Hooks(n) PROVE JoinedInv'
    BY <1>22 DEF Hooks, store, ranks, threads
  <1>23. ASSUME NEW n \in Nodes, HooksFail(n) PROVE JoinedInv'
    BY <1>23 DEF HooksFail, GiveUp, store, ranks
  <1>24. ASSUME NEW n \in Nodes, PublishFailure(n) PROVE JoinedInv'
    BY <1>24 DEF PublishFailure, FailPhases, manager, ranks
  <1>25. ASSUME NEW n \in Nodes, RanksFail(n) PROVE JoinedInv'
    BY <1>25 DEF RanksFail, store, manager, threads
  <1>26. ASSUME NEW n \in Nodes, Claim(n) PROVE JoinedInv'
    BY <1>26 DEF Claim, TakeDown, store, ranks
  <1>27. ASSUME NEW n \in Nodes, PublishDown(n) PROVE JoinedInv'
    BY <1>27 DEF PublishDown, manager, ranks
  <1>28. ASSUME NEW n \in Nodes, HandlerTeardown(n) PROVE JoinedInv'
    BY <1>28, SMT DEF HandlerTeardown, store, manager, ranks
  <1>29. ASSUME NEW n \in Nodes, Follow(n) PROVE JoinedInv'
    BY <1>29, SMT DEF Follow, FollowerFree, store, ranks, threads
  <1>30. ASSUME NEW n \in Nodes, PollDown(n) PROVE JoinedInv'
    BY <1>30 DEF PollDown, store, manager, ranks
  <1>31. ASSUME NEW n \in Nodes, PollLost(n) PROVE JoinedInv'
    BY <1>31 DEF PollLost, store, manager, ranks
  <1>32. ASSUME NEW n \in Nodes, ControlLost(n) PROVE JoinedInv'
    BY <1>32 DEF ControlLost, store, manager, ranks
  <1>33. ASSUME NEW n \in Nodes, React(n) PROVE JoinedInv'
    BY <1>33 DEF React, TakeDown, store, ranks
  <1>34. ASSUME NEW n \in Nodes, Stop(n) PROVE JoinedInv'
    BY <1>34 DEF Stop, FailPhases, manager, ranks, threads
  <1>35. ASSUME NEW n \in Nodes, StopEnds(n) PROVE JoinedInv'
    BY <1>35, SMT DEF StopEnds, Leave, store
  <1>36. ASSUME NEW n \in Nodes, Kill(n) PROVE JoinedInv'
    BY <1>36, SMT DEF Kill, Leave, store
  <1>37. ASSUME NEW n \in Nodes, LateSpawn(n) PROVE JoinedInv'
    BY <1>37, SMT DEF LateSpawn, store, manager, threads
  <1>38. ASSUME NEW n \in Nodes, TakeExitLock(n) PROVE JoinedInv'
    BY <1>38 DEF TakeExitLock, store, manager, ranks
  <1> QED
    BY <1>1, <1>2, <1>3, <1>4, <1>5, <1>6, <1>7, <1>8, <1>9, <1>10, <1>11, <1>12,
       <1>13, <1>14, <1>15, <1>16, <1>17, <1>18, <1>19, <1>20, <1>21, <1>22, <1>23,
       <1>24, <1>25, <1>26, <1>27, <1>28, <1>29, <1>30, <1>31, <1>32, <1>33, <1>34,
       <1>35, <1>36, <1>37, <1>38
    DEF Next, RestartStep, HandlerStep, FollowerStep

\* Every step keeps the worlds of two restarts apart.
LEMMA WorldNext ==
    ASSUME CoreTypeOK, LockInv, JoinedInv, WorldInv, [Next]_vars
    PROVE  WorldInv'
  <1> USE ClusterAssumption DEF CoreTypeOK, LockInv, JoinedInv, WorldInv, ServesWholeWorld, AllAcked, PastP1, Owning, Phases, NoRanks
  <1>1. CASE UNCHANGED vars
    BY <1>1 DEF vars, store, manager, ranks, threads
  <1>2. CASE RestartEnter
    BY <1>2, SMT DEF RestartEnter, store, ranks, threads
  <1>3. CASE BeginEpoch
    BY <1>3 DEF BeginEpoch, ranks, threads
  <1>4. CASE PublishRequest
    BY <1>4, SMT DEF PublishRequest, ranks, threads
  <1>5. ASSUME NEW e \in requests, Expire(e) PROVE WorldInv'
    BY <1>5 DEF Expire, store, manager, ranks, threads
  <1>6. ASSUME NEW n \in Nodes, ReadRequest(n) PROVE WorldInv'
    BY <1>6, SMT DEF ReadRequest, store, ranks, threads
  <1>7. ASSUME NEW n \in Nodes, RequestUnreadable(n) PROVE WorldInv'
    BY <1>7, SMT DEF RequestUnreadable, FailPhases, ranks, threads
  <1>8. ASSUME NEW n \in Nodes, Arm(n) PROVE WorldInv'
    BY <1>8, SMT DEF Arm, AckOk, ranks
  <1>9. ASSUME NEW n \in Nodes, ArmFails(n) PROVE WorldInv'
    BY <1>9, SMT DEF ArmFails, GiveUp, store, ranks
  <1>10. ASSUME NEW n \in Nodes, PassArmed(n) PROVE WorldInv'
    BY <1>10, SMT DEF PassArmed, BarrierPasses, store, ranks, threads
  <1>11. ASSUME NEW n \in Nodes, FailArmed(n) PROVE WorldInv'
    BY <1>11 DEF FailArmed, BarrierFails, store, ranks, threads
  <1>12. ASSUME NEW n \in Nodes, TearDown(n) PROVE WorldInv'
    BY <1>12, SMT DEF TearDown, AckOk
  <1>13. ASSUME NEW n \in Nodes, TearDownAborts(n) PROVE WorldInv'
    BY <1>13, SMT DEF TearDownAborts, GiveUp, store
  <1>14. ASSUME NEW n \in Nodes, TearDownFails(n) PROVE WorldInv'
    BY <1>14, SMT DEF TearDownFails, GiveUp, store, ranks
  <1>15. ASSUME NEW n \in Nodes, PassTornDown(n) PROVE WorldInv'
    BY <1>15, SMT DEF PassTornDown, BarrierPasses, store, ranks, threads
  <1>16. ASSUME NEW n \in Nodes, FailBarrier(n) PROVE WorldInv'
    BY <1>16, SMT DEF FailBarrier, BarrierFails, GiveUp, store, ranks
  <1>17. ASSUME NEW n \in Nodes, Spawn(n) PROVE WorldInv'
    BY <1>17, SMT DEF Spawn, store, threads
  <1>18. ASSUME NEW n \in Nodes, SpawnFails(n) PROVE WorldInv'
    BY <1>18, SMT DEF SpawnFails, GiveUp, store, ranks
  <1>19. ASSUME NEW n \in Nodes, Ready(n) PROVE WorldInv'
    BY <1>19, SMT DEF Ready, AckOk, ranks, threads
  <1>20. ASSUME NEW n \in Nodes, ReadyFails(n) PROVE WorldInv'
    BY <1>20, SMT DEF ReadyFails, GiveUp, store, ranks
  <1>21. ASSUME NEW n \in Nodes, PassReady(n) PROVE WorldInv'
    BY <1>21, SMT DEF PassReady, BarrierPasses, store, ranks, threads
  <1>22. ASSUME NEW n \in Nodes, Hooks(n) PROVE WorldInv'
    <2>1. <<run[n], "P1", n>> \in okAcks /\ AllAcked(run[n], "P2")
      BY <1>22 DEF Hooks
    <2>2. cohort[n] > 0 => cohort[n] = run[n]
      BY <2>1, SMTT(30)
    <2>3. ServesWholeWorld'
      BY <1>22, <2>1, <2>2, SMT DEF Hooks, store, ranks, threads
    <2> QED
      BY <1>22, <2>3, SMT DEF Hooks, store, ranks, threads
  <1>23. ASSUME NEW n \in Nodes, HooksFail(n) PROVE WorldInv'
    BY <1>23, SMTT(30) DEF HooksFail, GiveUp, store, ranks
  <1>24. ASSUME NEW n \in Nodes, PublishFailure(n) PROVE WorldInv'
    BY <1>24, SMT DEF PublishFailure, FailPhases, manager, ranks
  <1>25. ASSUME NEW n \in Nodes, RanksFail(n) PROVE WorldInv'
    BY <1>25 DEF RanksFail, store, manager, threads
  <1>26. ASSUME NEW n \in Nodes, Claim(n) PROVE WorldInv'
    BY <1>26 DEF Claim, TakeDown, store, ranks
  <1>27. ASSUME NEW n \in Nodes, PublishDown(n) PROVE WorldInv'
    BY <1>27 DEF PublishDown, manager, ranks
  <1>28. ASSUME NEW n \in Nodes, HandlerTeardown(n) PROVE WorldInv'
    BY <1>28, SMT DEF HandlerTeardown, store, manager, ranks
  <1>29. ASSUME NEW n \in Nodes, Follow(n) PROVE WorldInv'
    BY <1>29, SMT DEF Follow, FollowerFree, store, ranks, threads
  <1>30. ASSUME NEW n \in Nodes, PollDown(n) PROVE WorldInv'
    BY <1>30 DEF PollDown, store, manager, ranks
  <1>31. ASSUME NEW n \in Nodes, PollLost(n) PROVE WorldInv'
    BY <1>31 DEF PollLost, store, manager, ranks
  <1>32. ASSUME NEW n \in Nodes, ControlLost(n) PROVE WorldInv'
    BY <1>32 DEF ControlLost, store, manager, ranks
  <1>33. ASSUME NEW n \in Nodes, React(n) PROVE WorldInv'
    BY <1>33, SMT DEF React, TakeDown, store, ranks
  <1>34. ASSUME NEW n \in Nodes, Stop(n) PROVE WorldInv'
    BY <1>34, SMT DEF Stop, FailPhases, manager, ranks, threads
  <1>35. ASSUME NEW n \in Nodes, StopEnds(n) PROVE WorldInv'
    BY <1>35, SMT DEF StopEnds, Leave, store
  <1>36. ASSUME NEW n \in Nodes, Kill(n) PROVE WorldInv'
    BY <1>36, SMT DEF Kill, Leave, store
  <1>37. ASSUME NEW n \in Nodes, LateSpawn(n) PROVE WorldInv'
    BY <1>37, SMT DEF LateSpawn, store, manager, threads
  <1>38. ASSUME NEW n \in Nodes, TakeExitLock(n) PROVE WorldInv'
    BY <1>38, SMT DEF TakeExitLock, store, manager, ranks
  <1> QED
    BY <1>1, <1>2, <1>3, <1>4, <1>5, <1>6, <1>7, <1>8, <1>9, <1>10, <1>11, <1>12,
       <1>13, <1>14, <1>15, <1>16, <1>17, <1>18, <1>19, <1>20, <1>21, <1>22, <1>23,
       <1>24, <1>25, <1>26, <1>27, <1>28, <1>29, <1>30, <1>31, <1>32, <1>33, <1>34,
       <1>35, <1>36, <1>37, <1>38
    DEF Next, RestartStep, HandlerStep, FollowerStep

\* Nobody has acked or failed an epoch it has not joined.
LEMMA FreshEpoch ==
    ASSUME CoreTypeOK, JoinedInv, FlightInv, NEW n \in Nodes, NEW e \in Nat, e > run[n], NEW p \in Phases
    PROVE  <<e, p, n>> \notin okAcks /\ <<e, p, n>> \notin failedAcks
  <1>1. run[n] \in Nat /\ ~(e <= run[n])
    BY SMT DEF CoreTypeOK
  <1>2. <<e, p, n>> \in okAcks => e <= run[n]
    BY DEF JoinedInv
  <1>3. <<e, p, n>> \in failedAcks => e <= run[n]
    BY DEF FlightInv, Flight
  <1> QED
    BY <1>1, <1>2, <1>3

\* A restart that goes on without a word to the store, to a step no earlier.
LEMMA FlightMoves ==
    ASSUME CoreTypeOK, FlightInv, NEW n \in Nodes, NEW v, at' = [at EXCEPT ![n] = v],
           at[n] \notin {"idle", "begin"}, \A m \in Nodes : Up(m) => Up(m)',
           UNCHANGED <<run, okAcks, failedAcks, stopping>>,
           v \in {"publish", "reading", "arming"} => at[n] \in {"publish", "reading", "arming"},
           v \in Owning => at[n] \in {"publish", "reading", "arming"} \union Owning,
           v \in {"P1", "spawn", "wait"} =>
               at[n] \in {"publish", "reading", "arming", "P1", "spawn", "wait"} \union Owning
    PROVE  FlightInv'
  <1> SUFFICES ASSUME NEW m \in Nodes PROVE Flight(m)'
    BY DEF FlightInv
  <1>1. Flight(m) /\ (Up(m) => Up(m)')
    BY DEF FlightInv
  <1>2. CASE m = n
    <2>1. at'[m] = v
      BY <1>2 DEF CoreTypeOK
    <2> QED
      BY <1>1, <1>2, <2>1 DEF Flight
  <1>3. CASE m # n
    <2>1. at'[m] = at[m]
      BY <1>3 DEF CoreTypeOK
    <2> QED
      BY <1>1, <2>1 DEF Flight
  <1> QED
    BY <1>2, <1>3

\* Every step keeps the restart of a node in the phase its acks say.
LEMMA FlightNext ==
    ASSUME CoreTypeOK, JoinedInv, FlightInv, OwedInv, [Next]_vars
    PROVE  FlightInv'
  <1> USE ClusterAssumption DEF CoreTypeOK, JoinedInv, FlightInv, Flight, Owning, Phases, Up
  <1>1. CASE UNCHANGED vars
    BY <1>1 DEF vars, store, manager, ranks, threads
  <1>2. CASE RestartEnter
    BY <1>2 DEF RestartEnter, store, ranks, threads
  <1>3. CASE BeginEpoch
    <2> HIDE DEF CoreTypeOK, JoinedInv, FlightInv, Flight
    <2>1. /\ run' = [run EXCEPT ![Node0] = (epoch + 1)] /\ at' = [at EXCEPT ![Node0] = "publish"] /\ Up(Node0)
          /\ (epoch + 1) \in Nat /\ (epoch + 1) > run[Node0]
          /\ UNCHANGED <<okAcks, failedAcks, state, stopping>>
      <3>1. run[Node0] \in Nat /\ epoch \in Nat /\ run[Node0] <= epoch
        BY DEF CoreTypeOK, JoinedInv
      <3>2. at[Node0] # "idle" /\ Flight(Node0)
        BY <1>3 DEF BeginEpoch, FlightInv
      <3>3. (epoch + 1) \in Nat /\ (epoch + 1) > run[Node0]
        BY ONLY <3>1, SMT
      <3> QED
        BY <1>3, <3>2, <3>3 DEF BeginEpoch, Flight, ranks, threads
    <2>2. \A p \in Phases : <<(epoch + 1), p, Node0>> \notin okAcks /\ <<(epoch + 1), p, Node0>> \notin failedAcks
      BY <2>1, FreshEpoch
    <2> SUFFICES ASSUME NEW m \in Nodes PROVE Flight(m)'
      BY DEF FlightInv
    <2>3. CASE m = Node0
      <3>1. run'[m] = (epoch + 1) /\ at'[m] = "publish" /\ Up(m)'
        BY <2>1, <2>3 DEF CoreTypeOK
      <3>2. ASSUME NEW e \in Nat, NEW p \in Phases, <<e, p, m>> \in failedAcks'
            PROVE  e <= run'[m] /\ e # run'[m]
        <4>1. e <= run[m] /\ run[m] \in Nat
          BY <2>1, <3>2 DEF FlightInv, Flight, CoreTypeOK
        <4> QED
          BY <2>1, <2>3, <3>1, <4>1, SMT
      <3>3. \A p \in Phases : <<run'[m], p, m>> \notin okAcks'
        BY <2>1, <2>2, <2>3, <3>1, SMTT(30)
      <3> QED
        BY <2>1, <3>1, <3>2, <3>3 DEF Flight
    <2>4. CASE m # Node0
      <3>1. run'[m] = run[m] /\ at'[m] = at[m] /\ Flight(m)
        BY <2>1, <2>4 DEF CoreTypeOK, FlightInv
      <3> QED
        BY <2>1, <3>1, SMT DEF Flight
    <2> QED
      BY <2>3, <2>4
  <1>4. CASE PublishRequest
    BY <1>4, FlightMoves DEF PublishRequest, ranks, threads
  <1>5. ASSUME NEW e \in requests, Expire(e) PROVE FlightInv'
    BY <1>5 DEF Expire, store, manager, ranks, threads
  <1>6. ASSUME NEW n \in Nodes, ReadRequest(n) PROVE FlightInv'
    <2>1. \A m \in Nodes : Up(m) => Up(m)'
      BY <1>6, SMT DEF ReadRequest
    <2> QED
      BY <1>6, <2>1, FlightMoves DEF ReadRequest, store
  <1>7. ASSUME NEW n \in Nodes, RequestUnreadable(n) PROVE FlightInv'
    <2>1. /\ failedAcks' \subseteq failedAcks \union {<<run[n], "P0", n>>}
          /\ at' = [at EXCEPT ![n] = "idle"]
          /\ UNCHANGED <<run, okAcks, state, stopping>>
      BY <1>7, SMT DEF RequestUnreadable, FailPhases
    <2> SUFFICES ASSUME NEW m \in Nodes PROVE Flight(m)'
      BY DEF FlightInv
    <2>2. CASE m = n
      <3>1. at'[m] = "idle" /\ run[n] <= run[n]
        BY <2>1, <2>2, SMT DEF CoreTypeOK
      <3> QED
        BY <2>1, <2>2, <3>1 DEF Flight
    <2>3. CASE m # n
      <3>1. /\ at'[m] = at[m] /\ Up(m)' = Up(m)
            /\ \A e, p : <<e, p, m>> \in failedAcks' => <<e, p, m>> \in failedAcks
        BY <2>1, <2>3, SMT DEF CoreTypeOK, Up
      <3> QED
        BY <2>1, <3>1 DEF Flight
    <2> QED
      BY <2>2, <2>3
  <1>8. ASSUME NEW n \in Nodes, Arm(n) PROVE FlightInv'
    <2>1. CASE ~StoreUp
      <3>1. /\ at[n] = "arming" /\ at' = [at EXCEPT ![n] = "armFailed"]
            /\ UNCHANGED <<run, okAcks, failedAcks, state, stopping>>
        BY <1>8, <2>1 DEF Arm
      <3> QED
        BY <3>1, FlightMoves
    <2>2. CASE StoreUp
      <3>1. /\ okAcks' = okAcks \union {<<run[n], "P0", n>>} /\ failedAcks' = failedAcks \ {<<run[n], "P0", n>>}
            /\ at' = [at EXCEPT ![n] = "P0"] /\ at[n] = "arming"
            /\ UNCHANGED <<run, state, stopping>>
        BY <1>8, <2>2 DEF Arm, AckOk
      <3> SUFFICES ASSUME NEW m \in Nodes PROVE Flight(m)'
        BY DEF FlightInv
      <3>2. CASE m = n
        BY <3>1, <3>2 DEF Flight, Owning, Up
      <3>3. CASE m # n
        BY <3>1, <3>3 DEF Flight, Up
      <3> QED
        BY <3>2, <3>3
    <2> QED
      BY <2>1, <2>2
  <1>9. ASSUME NEW n \in Nodes, ArmFails(n) PROVE FlightInv'
    BY <1>9 DEF ArmFails, GiveUp, store, ranks
  <1>10. ASSUME NEW n \in Nodes, PassArmed(n) PROVE FlightInv'
    BY <1>10, FlightMoves DEF PassArmed, BarrierPasses, store, ranks, threads
  <1>11. ASSUME NEW n \in Nodes, FailArmed(n) PROVE FlightInv'
    BY <1>11, FlightMoves DEF FailArmed, BarrierFails, store, ranks, threads
  <1>12. ASSUME NEW n \in Nodes, TearDown(n) PROVE FlightInv'
    <2>1. /\ okAcks' = okAcks \union {<<run[n], "P1", n>>} /\ failedAcks' = failedAcks \ {<<run[n], "P1", n>>}
          /\ at' = [at EXCEPT ![n] = "P1"] /\ at[n] = "teardown"
          /\ UNCHANGED <<run, state, stopping>>
      BY <1>12 DEF TearDown, AckOk
    <2> SUFFICES ASSUME NEW m \in Nodes PROVE Flight(m)'
      BY DEF FlightInv
    <2>2. CASE m = n
      BY <2>1, <2>2 DEF Flight, Owning, Up
    <2>3. CASE m # n
      BY <2>1, <2>3 DEF Flight, Up
    <2> QED
      BY <2>2, <2>3
  <1>13. ASSUME NEW n \in Nodes, TearDownAborts(n) PROVE FlightInv'
    BY <1>13 DEF TearDownAborts, GiveUp, store
  <1>14. ASSUME NEW n \in Nodes, TearDownFails(n) PROVE FlightInv'
    BY <1>14 DEF TearDownFails, GiveUp, store, ranks
  <1>15. ASSUME NEW n \in Nodes, PassTornDown(n) PROVE FlightInv'
    BY <1>15, FlightMoves DEF PassTornDown, BarrierPasses, store, ranks, threads
  <1>16. ASSUME NEW n \in Nodes, FailBarrier(n) PROVE FlightInv'
    BY <1>16 DEF FailBarrier, BarrierFails, GiveUp, store, ranks
  <1>17. ASSUME NEW n \in Nodes, Spawn(n) PROVE FlightInv'
    BY <1>17, FlightMoves DEF Spawn, store, threads
  <1>18. ASSUME NEW n \in Nodes, SpawnFails(n) PROVE FlightInv'
    BY <1>18 DEF SpawnFails, GiveUp, store, ranks
  <1>19. ASSUME NEW n \in Nodes, Ready(n) PROVE FlightInv'
    <2>1. /\ okAcks' = okAcks \union {<<run[n], "P2", n>>} /\ failedAcks' = failedAcks \ {<<run[n], "P2", n>>}
          /\ at' = [at EXCEPT ![n] = "P2"] /\ at[n] = "wait"
          /\ UNCHANGED <<run, state, stopping>>
      BY <1>19 DEF Ready, AckOk
    <2> SUFFICES ASSUME NEW m \in Nodes PROVE Flight(m)'
      BY DEF FlightInv
    <2>2. CASE m = n
      BY <2>1, <2>2 DEF Flight, Owning, Up
    <2>3. CASE m # n
      BY <2>1, <2>3 DEF Flight, Up
    <2> QED
      BY <2>2, <2>3
  <1>20. ASSUME NEW n \in Nodes, ReadyFails(n) PROVE FlightInv'
    BY <1>20 DEF ReadyFails, GiveUp, store, ranks
  <1>21. ASSUME NEW n \in Nodes, PassReady(n) PROVE FlightInv'
    BY <1>21, FlightMoves DEF PassReady, BarrierPasses, store, ranks, threads
  <1>22. ASSUME NEW n \in Nodes, Hooks(n) PROVE FlightInv'
    BY <1>22 DEF Hooks, store, ranks, threads
  <1>23. ASSUME NEW n \in Nodes, HooksFail(n) PROVE FlightInv'
    BY <1>23 DEF HooksFail, GiveUp, store, ranks
  <1>24. ASSUME NEW n \in Nodes, PublishFailure(n) PROVE FlightInv'
    <2> HIDE DEF CoreTypeOK, JoinedInv, FlightInv, Flight
    <2>1. PICK o \in owed[n] : FailPhases(n, o.epoch, {o.phase})
      BY <1>24 DEF PublishFailure
    <2>2. o.epoch <= run[n] /\ (o.epoch = run[n] => at[n] \in {"idle", "begin"})
      BY DEF OwedInv
    <2>3. failedAcks' \subseteq failedAcks \union {<<o.epoch, o.phase, n>>} /\ okAcks' = okAcks
      BY <2>1 DEF FailPhases
    <2>4. UNCHANGED <<at, run, state, stopping>>
      BY <1>24 DEF PublishFailure, manager
    <2> SUFFICES ASSUME NEW m \in Nodes PROVE Flight(m)'
      BY DEF FlightInv
    <2>5. Flight(m)
      BY DEF FlightInv
    <2> QED
      BY <2>2, <2>3, <2>4, <2>5 DEF Flight
  <1>25. ASSUME NEW n \in Nodes, RanksFail(n) PROVE FlightInv'
    BY <1>25 DEF RanksFail, store, manager, threads
  <1>26. ASSUME NEW n \in Nodes, Claim(n) PROVE FlightInv'
    BY <1>26, SMTT(30) DEF Claim, TakeDown, store, ranks
  <1>27. ASSUME NEW n \in Nodes, PublishDown(n) PROVE FlightInv'
    BY <1>27 DEF PublishDown, manager, ranks
  <1>28. ASSUME NEW n \in Nodes, HandlerTeardown(n) PROVE FlightInv'
    BY <1>28 DEF HandlerTeardown, store, manager, ranks
  <1>29. ASSUME NEW n \in Nodes, Follow(n) PROVE FlightInv'
    <2> HIDE DEF CoreTypeOK, JoinedInv, FlightInv, Flight
    <2>1. /\ run' = [run EXCEPT ![n] = epoch] /\ at' = [at EXCEPT ![n] = "reading"] /\ Up(n)
          /\ epoch \in Nat /\ epoch > run[n]
          /\ UNCHANGED <<okAcks, failedAcks, state, stopping>>
      BY <1>29 DEF Follow, FollowerFree, store, CoreTypeOK
    <2>2. \A p \in Phases : <<epoch, p, n>> \notin okAcks /\ <<epoch, p, n>> \notin failedAcks
      BY <2>1, FreshEpoch
    <2> SUFFICES ASSUME NEW m \in Nodes PROVE Flight(m)'
      BY DEF FlightInv
    <2>3. CASE m = n
      <3>1. run'[m] = epoch /\ at'[m] = "reading" /\ Up(m)'
        BY <2>1, <2>3 DEF CoreTypeOK
      <3>2. ASSUME NEW e \in Nat, NEW p \in Phases, <<e, p, m>> \in failedAcks'
            PROVE  e <= run'[m] /\ e # run'[m]
        <4>1. e <= run[m] /\ run[m] \in Nat
          BY <2>1, <3>2 DEF FlightInv, Flight, CoreTypeOK
        <4> QED
          BY <2>1, <2>3, <3>1, <4>1, SMT
      <3>3. \A p \in Phases : <<run'[m], p, m>> \notin okAcks'
        BY <2>1, <2>2, <2>3, <3>1, SMTT(30)
      <3> QED
        BY <2>1, <3>1, <3>2, <3>3 DEF Flight
    <2>4. CASE m # n
      <3>1. run'[m] = run[m] /\ at'[m] = at[m] /\ Flight(m)
        BY <2>1, <2>4 DEF CoreTypeOK, FlightInv
      <3> QED
        BY <2>1, <3>1, SMT DEF Flight
    <2> QED
      BY <2>3, <2>4
  <1>30. ASSUME NEW n \in Nodes, PollDown(n) PROVE FlightInv'
    BY <1>30 DEF PollDown, store, manager, ranks
  <1>31. ASSUME NEW n \in Nodes, PollLost(n) PROVE FlightInv'
    BY <1>31 DEF PollLost, store, manager, ranks
  <1>32. ASSUME NEW n \in Nodes, ControlLost(n) PROVE FlightInv'
    BY <1>32 DEF ControlLost, store, manager, ranks
  <1>33. ASSUME NEW n \in Nodes, React(n) PROVE FlightInv'
    <2>1. /\ UNCHANGED <<okAcks, failedAcks, at, run, stopping>>
          /\ \A m \in Nodes : Up(m) => Up(m)'
      BY <1>33, SMT DEF React, TakeDown, store, Up
    <2> QED
      BY <2>1 DEF Flight
  <1>34. ASSUME NEW n \in Nodes, Stop(n) PROVE FlightInv'
    BY <1>34, SMT DEF Coordinated, InRestart, Remaining, PhaseOf, Stop, FailPhases, manager, ranks, threads
  <1>35. ASSUME NEW n \in Nodes, StopEnds(n) PROVE FlightInv'
    BY <1>35 DEF StopEnds, Leave, store
  <1>36. ASSUME NEW n \in Nodes, Kill(n) PROVE FlightInv'
    BY <1>36 DEF Kill, Leave, store
  <1>37. ASSUME NEW n \in Nodes, LateSpawn(n) PROVE FlightInv'
    BY <1>37 DEF LateSpawn, store, manager, threads
  <1>38. ASSUME NEW n \in Nodes, TakeExitLock(n) PROVE FlightInv'
    BY <1>38 DEF TakeExitLock, store, manager, ranks
  <1> QED
    BY <1>1, <1>2, <1>3, <1>4, <1>5, <1>6, <1>7, <1>8, <1>9, <1>10, <1>11, <1>12,
       <1>13, <1>14, <1>15, <1>16, <1>17, <1>18, <1>19, <1>20, <1>21, <1>22, <1>23,
       <1>24, <1>25, <1>26, <1>27, <1>28, <1>29, <1>30, <1>31, <1>32, <1>33, <1>34,
       <1>35, <1>36, <1>37, <1>38
    DEF Next, RestartStep, HandlerStep, FollowerStep

\* What excuses a node stays: no failed phase is overwritten but by a node that
\* is stopping, and a node that is gone does not come back.
LEMMA ExcusedStays ==
    ASSUME CoreTypeOK, LockInv, FlightInv, [Next]_vars, NEW x \in Nat, Excused(x)
    PROVE  Excused(x)'
  <1> USE ClusterAssumption DEF CoreTypeOK, LockInv, FlightInv, Flight, Excused, Owning, Phases, Up
  <1>1. CASE UNCHANGED vars
    BY <1>1 DEF vars, store, manager, ranks, threads
  <1>2. CASE RestartEnter
    BY <1>2 DEF RestartEnter, store, ranks, threads
  <1>3. CASE BeginEpoch
    BY <1>3 DEF BeginEpoch, ranks, threads
  <1>4. CASE PublishRequest
    BY <1>4 DEF PublishRequest, ranks, threads
  <1>5. ASSUME NEW e \in requests, Expire(e) PROVE Excused(x)'
    BY <1>5 DEF Expire, store, manager, ranks, threads
  <1>6. ASSUME NEW n \in Nodes, ReadRequest(n) PROVE Excused(x)'
    BY <1>6 DEF ReadRequest, store, ranks, threads
  <1>7. ASSUME NEW n \in Nodes, RequestUnreadable(n) PROVE Excused(x)'
    BY <1>7 DEF RequestUnreadable, FailPhases, ranks, threads
  <1>8. ASSUME NEW n \in Nodes, Arm(n) PROVE Excused(x)'
    BY <1>8 DEF Arm, AckOk, ranks
  <1>9. ASSUME NEW n \in Nodes, ArmFails(n) PROVE Excused(x)'
    BY <1>9 DEF ArmFails, GiveUp, store, ranks
  <1>10. ASSUME NEW n \in Nodes, PassArmed(n) PROVE Excused(x)'
    BY <1>10 DEF PassArmed, BarrierPasses, store, ranks, threads
  <1>11. ASSUME NEW n \in Nodes, FailArmed(n) PROVE Excused(x)'
    BY <1>11 DEF FailArmed, BarrierFails, store, ranks, threads
  <1>12. ASSUME NEW n \in Nodes, TearDown(n) PROVE Excused(x)'
    BY <1>12 DEF TearDown, AckOk
  <1>13. ASSUME NEW n \in Nodes, TearDownAborts(n) PROVE Excused(x)'
    BY <1>13 DEF TearDownAborts, GiveUp, store
  <1>14. ASSUME NEW n \in Nodes, TearDownFails(n) PROVE Excused(x)'
    BY <1>14 DEF TearDownFails, GiveUp, store, ranks
  <1>15. ASSUME NEW n \in Nodes, PassTornDown(n) PROVE Excused(x)'
    BY <1>15 DEF PassTornDown, BarrierPasses, store, ranks, threads
  <1>16. ASSUME NEW n \in Nodes, FailBarrier(n) PROVE Excused(x)'
    BY <1>16 DEF FailBarrier, BarrierFails, GiveUp, store, ranks
  <1>17. ASSUME NEW n \in Nodes, Spawn(n) PROVE Excused(x)'
    BY <1>17 DEF Spawn, store, threads
  <1>18. ASSUME NEW n \in Nodes, SpawnFails(n) PROVE Excused(x)'
    BY <1>18 DEF SpawnFails, GiveUp, store, ranks
  <1>19. ASSUME NEW n \in Nodes, Ready(n) PROVE Excused(x)'
    BY <1>19 DEF Ready, AckOk, ranks, threads
  <1>20. ASSUME NEW n \in Nodes, ReadyFails(n) PROVE Excused(x)'
    BY <1>20 DEF ReadyFails, GiveUp, store, ranks
  <1>21. ASSUME NEW n \in Nodes, PassReady(n) PROVE Excused(x)'
    BY <1>21 DEF PassReady, BarrierPasses, store, ranks, threads
  <1>22. ASSUME NEW n \in Nodes, Hooks(n) PROVE Excused(x)'
    BY <1>22 DEF Hooks, store, ranks, threads
  <1>23. ASSUME NEW n \in Nodes, HooksFail(n) PROVE Excused(x)'
    BY <1>23 DEF HooksFail, GiveUp, store, ranks
  <1>24. ASSUME NEW n \in Nodes, PublishFailure(n) PROVE Excused(x)'
    <2>1. PICK o \in owed[n] : FailPhases(n, o.epoch, {o.phase})
      BY <1>24 DEF PublishFailure
    <2>2. failedAcks \subseteq failedAcks' /\ UNCHANGED <<expired, state, stopping>>
      BY <1>24, <2>1 DEF PublishFailure, FailPhases, manager
    <2> QED
      BY <2>2
  <1>25. ASSUME NEW n \in Nodes, RanksFail(n) PROVE Excused(x)'
    BY <1>25 DEF RanksFail, store, manager, threads
  <1>26. ASSUME NEW n \in Nodes, Claim(n) PROVE Excused(x)'
    BY <1>26 DEF Claim, TakeDown, store, ranks
  <1>27. ASSUME NEW n \in Nodes, PublishDown(n) PROVE Excused(x)'
    BY <1>27 DEF PublishDown, manager, ranks
  <1>28. ASSUME NEW n \in Nodes, HandlerTeardown(n) PROVE Excused(x)'
    BY <1>28 DEF HandlerTeardown, store, manager, ranks
  <1>29. ASSUME NEW n \in Nodes, Follow(n) PROVE Excused(x)'
    BY <1>29 DEF Follow, FollowerFree, store, ranks, threads
  <1>30. ASSUME NEW n \in Nodes, PollDown(n) PROVE Excused(x)'
    BY <1>30 DEF PollDown, store, manager, ranks
  <1>31. ASSUME NEW n \in Nodes, PollLost(n) PROVE Excused(x)'
    BY <1>31 DEF PollLost, store, manager, ranks
  <1>32. ASSUME NEW n \in Nodes, ControlLost(n) PROVE Excused(x)'
    BY <1>32 DEF ControlLost, store, manager, ranks
  <1>33. ASSUME NEW n \in Nodes, React(n) PROVE Excused(x)'
    <2>1. /\ UNCHANGED <<expired, failedAcks, stopping>>
          /\ \A m \in Nodes : ~Up(m) => ~Up(m)'
      BY <1>33, SMT DEF React, TakeDown, store
    <2> QED
      BY <2>1
  <1>34. ASSUME NEW n \in Nodes, Stop(n) PROVE Excused(x)'
    BY <1>34, SMT DEF Stop, FailPhases, manager, ranks, threads
  <1>35. ASSUME NEW n \in Nodes, StopEnds(n) PROVE Excused(x)'
    BY <1>35 DEF StopEnds, Leave, store
  <1>36. ASSUME NEW n \in Nodes, Kill(n) PROVE Excused(x)'
    BY <1>36 DEF Kill, Leave, store
  <1>37. ASSUME NEW n \in Nodes, LateSpawn(n) PROVE Excused(x)'
    BY <1>37 DEF LateSpawn, store, manager, threads
  <1>38. ASSUME NEW n \in Nodes, TakeExitLock(n) PROVE Excused(x)'
    BY <1>38 DEF TakeExitLock, store, manager, ranks
  <1> QED
    BY <1>1, <1>2, <1>3, <1>4, <1>5, <1>6, <1>7, <1>8, <1>9, <1>10, <1>11, <1>12,
       <1>13, <1>14, <1>15, <1>16, <1>17, <1>18, <1>19, <1>20, <1>21, <1>22, <1>23,
       <1>24, <1>25, <1>26, <1>27, <1>28, <1>29, <1>30, <1>31, <1>32, <1>33, <1>34,
       <1>35, <1>36, <1>37, <1>38
    DEF Next, RestartStep, HandlerStep, FollowerStep

\* A step that neither gives up nor publishes keeps what is owed: nobody acks an
\* epoch it gave up, and a node that joins another epoch joins a newer one.
LEMMA OwedKept ==
    ASSUME CoreTypeOK, OwedInv, \A x \in Nat : Excused(x) => Excused(x)',
           owed' = owed, gaveUp' = gaveUp, down \subseteq down', run' \in [Nodes -> Nat],
           \A n \in Nodes : /\ run[n] <= run'[n]
                            /\ run'[n] = run[n] /\ at[n] \in {"idle", "begin"} => at'[n] \in {"idle", "begin"},
           \A n \in Nodes, e \in Nat, p \in Phases : <<e, p, n>> \in okAcks' =>
               <<e, p, n>> \in okAcks \/ (e = run[n] /\ at[n] \notin {"idle", "begin"})
    PROVE  OwedInv'
  <1>1. ASSUME NEW n \in Nodes, NEW o \in owed[n]
        PROVE  /\ o.epoch \in Nat /\ o.epoch <= run'[n] /\ o.phase \in Phases
               /\ o.epoch = run'[n] => at'[n] \in {"idle", "begin"}
               /\ o.ready \/ <<o.epoch, o.phase, n>> \notin okAcks' \/ Excused(o.epoch)'
    <2>1. /\ o.epoch \in Nat /\ o.epoch <= run[n] /\ o.phase \in Phases
          /\ o.epoch = run[n] => at[n] \in {"idle", "begin"}
          /\ o.ready \/ <<o.epoch, o.phase, n>> \notin okAcks \/ Excused(o.epoch)
      BY DEF OwedInv
    <2>2. run[n] \in Nat /\ run'[n] \in Nat /\ run[n] <= run'[n]
      BY DEF CoreTypeOK
    <2>3. o.epoch <= run'[n] /\ (o.epoch = run'[n] => run'[n] = run[n] /\ o.epoch = run[n])
      BY <2>1, <2>2, SMT
    <2>4. <<o.epoch, o.phase, n>> \in okAcks' => <<o.epoch, o.phase, n>> \in okAcks
      BY <2>1
    <2> QED
      BY <2>1, <2>3, <2>4
  <1>2. ASSUME NEW e \in Nat, NEW n \in Nodes, <<e, n>> \in gaveUp
        PROVE  Excused(e)' \/ (\E o \in owed[n] : o.epoch = e) \/ (\E key \in down' : key[2] = n)
    BY <1>2 DEF OwedInv
  <1> QED
    BY <1>1, <1>2 DEF OwedInv

\* The same where the restart threads stay where they are.
LEMMA OwedSame ==
    ASSUME OwedInv, \A x \in Nat : Excused(x) => Excused(x)',
           UNCHANGED <<owed, gaveUp, run, at, okAcks>>, down \subseteq down'
    PROVE  OwedInv'
  BY DEF OwedInv

\* The same where a restart goes on to its next step, acking the one before.
LEMMA OwedMoves ==
    ASSUME CoreTypeOK, OwedInv, \A x \in Nat : Excused(x) => Excused(x)',
           NEW n \in Nodes, NEW v, at[n] \notin {"idle", "begin"}, at' = [at EXCEPT ![n] = v],
           UNCHANGED <<owed, gaveUp, run, down>>,
           NEW p, okAcks' = okAcks \union {<<run[n], p, n>>} \/ okAcks' = okAcks
    PROVE  OwedInv'
  <1>1. \A m \in Nodes : at[m] \in {"idle", "begin"} => at'[m] \in {"idle", "begin"}
    BY DEF CoreTypeOK
  <1>2. \A m \in Nodes, e \in Nat, q \in Phases : <<e, q, m>> \in okAcks' =>
          <<e, q, m>> \in okAcks \/ (e = run[m] /\ at[m] \notin {"idle", "begin"})
    BY SMT
  <1>3. run' \in [Nodes -> Nat] /\ \A m \in Nodes : run[m] <= run'[m]
    BY SMT DEF CoreTypeOK
  <1> QED
    BY <1>1, <1>2, <1>3, OwedKept

\* A node that gives up owes a phase it has not acked, unless its barrier ended
\* for a reason the others know.
LEMMA GiveUpOwed ==
    ASSUME CoreTypeOK, FlightInv, OwedInv, \A x \in Nat : Excused(x) => Excused(x)',
           NEW n \in Nodes, GiveUp(n), UNCHANGED <<okAcks, down>>,
           at[n] \in {"arming", "P1", "P2"} \union {"teardown", "armFailed"} \union {"spawn", "wait", "hooks"},
           at[n] \in {"P1", "P2"} => Excused(run[n])
    PROVE  OwedInv'
  <1> DEFINE new == [epoch |-> run[n], phase |-> PhaseOf(at[n]), ready |-> at[n] = "hooks"]
  <1>1. /\ owed' = [owed EXCEPT ![n] = @ \union {new}]
        /\ gaveUp' = gaveUp \union {<<run[n], n>>}
        /\ at' = [at EXCEPT ![n] = "idle"] /\ run' = run
    BY DEF GiveUp
  <1>2. /\ new.epoch = run[n] /\ new.phase = PhaseOf(at[n]) /\ new.ready = (at[n] = "hooks")
        /\ run[n] \in Nat
    BY DEF CoreTypeOK
  <1>3. /\ PhaseOf(at[n]) \in Phases
        /\ at[n] = "hooks" \/ <<run[n], PhaseOf(at[n]), n>> \notin okAcks \/ Excused(run[n])
    BY DEF FlightInv, Flight, PhaseOf, Phases, Owning
  <1> HIDE DEF new
  <1>4. ASSUME NEW m \in Nodes, NEW o \in owed'[m]
        PROVE  /\ o.epoch \in Nat /\ o.epoch <= run[m] /\ o.phase \in Phases
               /\ o.epoch = run[m] => at'[m] \in {"idle", "begin"}
               /\ o.ready \/ <<o.epoch, o.phase, m>> \notin okAcks \/ Excused(o.epoch)'
    <2>1. CASE m = n /\ o = new
      <3>1. run[n] <= run[n] /\ at'[n] = "idle"
        BY <1>1, <1>2, SMT DEF CoreTypeOK
      <3> QED
        BY <1>2, <1>3, <2>1, <3>1
    <2>2. CASE o \in owed[m]
      <3>1. at[m] \in {"idle", "begin"} => at'[m] \in {"idle", "begin"}
        BY <1>1 DEF CoreTypeOK
      <3> QED
        BY <2>2, <3>1 DEF OwedInv
    <2>3. o \in owed[m] \/ (m = n /\ o = new)
      BY <1>1, <1>4, SMT
    <2> QED
      BY <2>1, <2>2, <2>3
  <1>5. ASSUME NEW e \in Nat, NEW m \in Nodes, <<e, m>> \in gaveUp'
        PROVE  Excused(e)' \/ (\E o \in owed'[m] : o.epoch = e) \/ (\E key \in down : key[2] = m)
    <2>1. CASE e = run[n] /\ m = n
      <3>1. new \in owed'[n]
        BY <1>1 DEF OwedInv
      <3> QED
        BY <1>2, <2>1, <3>1
    <2>2. CASE <<e, m>> \in gaveUp
      <3>1. owed[m] \subseteq owed'[m]
        BY <1>1, SMT
      <3> QED
        BY <2>2, <3>1 DEF OwedInv
    <2> QED
      BY <1>1, <1>5, <2>1, <2>2
  <1> QED
    BY <1>1, <1>4, <1>5, SMT DEF OwedInv

\* Publishing what is owed leaves word of it: the store is lost, the phase is
\* failed there, or the cohort is published as down.
LEMMA PublishOwed ==
    ASSUME CoreTypeOK, OwedInv, \A x \in Nat : Excused(x) => Excused(x)',
           NEW n \in Nodes, PublishFailure(n)
    PROVE  OwedInv'
  <1>1. PICK o \in owed[n] :
          /\ owed' = [owed EXCEPT ![n] = @ \ {o}]
          /\ FailPhases(n, o.epoch, {o.phase})
          /\ down' = IF o.ready /\ StoreUp THEN down \union {<<generation[n] + 1, n>>} ELSE down
    BY DEF PublishFailure
  <1>2. UNCHANGED <<run, at, okAcks, state, gaveUp>> /\ down \subseteq down'
    BY <1>1 DEF PublishFailure, FailPhases, manager
  <1>3. o.epoch \in Nat /\ o.phase \in Phases
    BY DEF OwedInv
  <1>4. Excused(o.epoch)' \/ \E key \in down' : key[2] = n
    <2>1. CASE ~StoreUp
      BY <1>2, <2>1, ClusterAssumption DEF StoreUp, Up, Excused
    <2>2. CASE StoreUp /\ o.ready
      <3>1. <<generation[n] + 1, n>> \in down'
        BY <1>1, <2>2
      <3> QED
        BY <3>1
    <2>3. CASE StoreUp /\ <<o.epoch, o.phase, n>> \notin okAcks
      <3>1. <<o.epoch, o.phase, n>> \in failedAcks'
        BY <1>1, <2>3 DEF FailPhases
      <3> QED
        BY <1>3, <3>1 DEF Excused
    <2> QED
      BY <1>3, <2>1, <2>2, <2>3 DEF OwedInv
  <1>5. /\ DOMAIN owed' = Nodes
        /\ \A m \in Nodes : owed'[m] \subseteq owed[m] /\ \A q \in owed[m] : q \in owed'[m] \/ (m = n /\ q = o)
    BY <1>1 DEF OwedInv
  <1>6. ASSUME NEW m \in Nodes, NEW q \in owed'[m]
        PROVE  /\ q.epoch \in Nat /\ q.epoch <= run[m] /\ q.phase \in Phases
               /\ q.epoch = run[m] => at[m] \in {"idle", "begin"}
               /\ q.ready \/ <<q.epoch, q.phase, m>> \notin okAcks \/ Excused(q.epoch)'
    BY <1>5, <1>6 DEF OwedInv
  <1>7. ASSUME NEW e \in Nat, NEW m \in Nodes, <<e, m>> \in gaveUp
        PROVE  Excused(e)' \/ (\E q \in owed'[m] : q.epoch = e) \/ (\E key \in down' : key[2] = m)
    BY <1>2, <1>4, <1>5, <1>7, SMT DEF OwedInv
  <1> QED
    BY <1>2, <1>5, <1>6, <1>7 DEF OwedInv

\* A node that ends owes nothing more, and its end is seen by the others.
LEMMA LeaveOwed ==
    ASSUME CoreTypeOK, OwedInv, \A x \in Nat : Excused(x) => Excused(x)',
           NEW n \in Nodes, Leave(n)
    PROVE  OwedInv'
  <1>1. /\ owed' = [owed EXCEPT ![n] = {}] /\ at' = [at EXCEPT ![n] = "idle"]
        /\ state' = [state EXCEPT ![n] = "gone"]
        /\ UNCHANGED <<run, okAcks, gaveUp, down>>
    BY DEF Leave, store
  <1>2. \A e \in Nat : Excused(e)'
    BY <1>1 DEF CoreTypeOK, Excused, Up
  <1>3. /\ DOMAIN owed' = Nodes
        /\ \A m \in Nodes : owed'[m] \subseteq owed[m]
        /\ \A m \in Nodes : at[m] \in {"idle", "begin"} => at'[m] \in {"idle", "begin"}
    BY <1>1 DEF OwedInv, CoreTypeOK
  <1> QED
    BY <1>1, <1>2, <1>3 DEF OwedInv

\* Every step keeps a failure owed until there is word of it.
LEMMA OwedNext ==
    ASSUME CoreTypeOK, LockInv, JoinedInv, FlightInv, OwedInv, [Next]_vars
    PROVE  OwedInv'
  <1>0. \A x \in Nat : Excused(x) => Excused(x)'
    BY ExcusedStays
  <1> USE <1>0, ClusterAssumption DEF CoreTypeOK, JoinedInv
  <1>1. CASE UNCHANGED vars
    BY <1>1, OwedSame DEF vars, store, manager, ranks, threads
  <1>2. CASE RestartEnter
    BY <1>2, OwedKept, SMTT(30) DEF RestartEnter, store, ranks, threads
  <1>3. CASE BeginEpoch
    BY <1>3, OwedKept, SMT DEF BeginEpoch, ranks, threads
  <1>4. CASE PublishRequest
    BY <1>4, OwedMoves DEF PublishRequest, ranks, threads
  <1>5. ASSUME NEW e \in requests, Expire(e) PROVE OwedInv'
    BY <1>5, OwedSame DEF Expire, store, manager, ranks, threads
  <1>6. ASSUME NEW n \in Nodes, ReadRequest(n) PROVE OwedInv'
    BY <1>6, OwedMoves DEF ReadRequest, store, ranks, threads
  <1>7. ASSUME NEW n \in Nodes, RequestUnreadable(n) PROVE OwedInv'
    BY <1>7, OwedMoves DEF RequestUnreadable, FailPhases, ranks, threads
  <1>8. ASSUME NEW n \in Nodes, Arm(n) PROVE OwedInv'
    BY <1>8, OwedMoves DEF Arm, AckOk, ranks
  <1>9. ASSUME NEW n \in Nodes, ArmFails(n) PROVE OwedInv'
    BY <1>9, GiveUpOwed DEF ArmFails, store, ranks
  <1>10. ASSUME NEW n \in Nodes, PassArmed(n) PROVE OwedInv'
    BY <1>10, OwedMoves DEF PassArmed, BarrierPasses, store, ranks, threads
  <1>11. ASSUME NEW n \in Nodes, FailArmed(n) PROVE OwedInv'
    BY <1>11, OwedMoves DEF FailArmed, BarrierFails, store, ranks, threads
  <1>12. ASSUME NEW n \in Nodes, TearDown(n) PROVE OwedInv'
    BY <1>12, OwedMoves DEF TearDown, AckOk
  <1>13. ASSUME NEW n \in Nodes, TearDownAborts(n) PROVE OwedInv'
    BY <1>13, GiveUpOwed DEF TearDownAborts, store
  <1>14. ASSUME NEW n \in Nodes, TearDownFails(n) PROVE OwedInv'
    BY <1>14, GiveUpOwed DEF TearDownFails, store, ranks
  <1>15. ASSUME NEW n \in Nodes, PassTornDown(n) PROVE OwedInv'
    BY <1>15, OwedMoves DEF PassTornDown, BarrierPasses, store, ranks, threads
  <1>16. ASSUME NEW n \in Nodes, FailBarrier(n) PROVE OwedInv'
    <2>1. Excused(run[n])
      BY <1>16 DEF FailBarrier, BarrierFails, PeerFailed, Peers, StoreUp, Excused, Phases
    <2>2. /\ GiveUp(n) /\ UNCHANGED <<okAcks, down>>
          /\ at[n] \in {"P1", "P2"}
      BY <1>16 DEF FailBarrier, BarrierFails, store
    <2> QED
      BY <2>1, <2>2, GiveUpOwed
  <1>17. ASSUME NEW n \in Nodes, Spawn(n) PROVE OwedInv'
    BY <1>17, OwedMoves DEF Spawn, store, threads
  <1>18. ASSUME NEW n \in Nodes, SpawnFails(n) PROVE OwedInv'
    BY <1>18, GiveUpOwed DEF SpawnFails, store, ranks
  <1>19. ASSUME NEW n \in Nodes, Ready(n) PROVE OwedInv'
    BY <1>19, OwedMoves DEF Ready, AckOk, ranks, threads
  <1>20. ASSUME NEW n \in Nodes, ReadyFails(n) PROVE OwedInv'
    BY <1>20, GiveUpOwed DEF ReadyFails, store, ranks
  <1>21. ASSUME NEW n \in Nodes, PassReady(n) PROVE OwedInv'
    BY <1>21, OwedMoves DEF PassReady, BarrierPasses, store, ranks, threads
  <1>22. ASSUME NEW n \in Nodes, Hooks(n) PROVE OwedInv'
    BY <1>22, OwedMoves DEF Hooks, store, ranks, threads
  <1>23. ASSUME NEW n \in Nodes, HooksFail(n) PROVE OwedInv'
    BY <1>23, GiveUpOwed DEF HooksFail, store, ranks
  <1>24. ASSUME NEW n \in Nodes, PublishFailure(n) PROVE OwedInv'
    BY <1>24, PublishOwed
  <1>25. ASSUME NEW n \in Nodes, RanksFail(n) PROVE OwedInv'
    BY <1>25, OwedSame DEF RanksFail, store, manager, threads
  <1>26. ASSUME NEW n \in Nodes, Claim(n) PROVE OwedInv'
    BY <1>26, OwedSame DEF Claim, TakeDown, store, ranks
  <1>27. ASSUME NEW n \in Nodes, PublishDown(n) PROVE OwedInv'
    BY <1>27, OwedSame DEF PublishDown, manager, ranks
  <1>28. ASSUME NEW n \in Nodes, HandlerTeardown(n) PROVE OwedInv'
    BY <1>28, OwedSame DEF HandlerTeardown, store, manager, ranks
  <1>29. ASSUME NEW n \in Nodes, Follow(n) PROVE OwedInv'
    BY <1>29, OwedKept, SMT DEF Follow, FollowerFree, store, ranks, threads
  <1>30. ASSUME NEW n \in Nodes, PollDown(n) PROVE OwedInv'
    BY <1>30, OwedSame DEF PollDown, store, manager, ranks
  <1>31. ASSUME NEW n \in Nodes, PollLost(n) PROVE OwedInv'
    BY <1>31, OwedSame DEF PollLost, store, manager, ranks
  <1>32. ASSUME NEW n \in Nodes, ControlLost(n) PROVE OwedInv'
    BY <1>32, OwedSame DEF ControlLost, store, manager, ranks
  <1>33. ASSUME NEW n \in Nodes, React(n) PROVE OwedInv'
    BY <1>33, OwedSame DEF React, TakeDown, store, ranks
  <1>34. ASSUME NEW n \in Nodes, Stop(n) PROVE OwedInv'
    BY <1>34, OwedSame DEF Stop, FailPhases, manager, ranks, threads
  <1>35. ASSUME NEW n \in Nodes, StopEnds(n) PROVE OwedInv'
    BY <1>35, LeaveOwed DEF StopEnds
  <1>36. ASSUME NEW n \in Nodes, Kill(n) PROVE OwedInv'
    BY <1>36, LeaveOwed DEF Kill
  <1>37. ASSUME NEW n \in Nodes, LateSpawn(n) PROVE OwedInv'
    BY <1>37, OwedSame DEF LateSpawn, store, manager, threads
  <1>38. ASSUME NEW n \in Nodes, TakeExitLock(n) PROVE OwedInv'
    BY <1>38, OwedSame DEF TakeExitLock, store, manager, ranks
  <1> QED
    BY <1>1, <1>2, <1>3, <1>4, <1>5, <1>6, <1>7, <1>8, <1>9, <1>10, <1>11, <1>12,
       <1>13, <1>14, <1>15, <1>16, <1>17, <1>18, <1>19, <1>20, <1>21, <1>22, <1>23,
       <1>24, <1>25, <1>26, <1>27, <1>28, <1>29, <1>30, <1>31, <1>32, <1>33, <1>34,
       <1>35, <1>36, <1>37, <1>38
    DEF Next, RestartStep, HandlerStep, FollowerStep

-----------------------------------------------------------------------------
\* The pool that serves at start-up is one world, and no teardown has begun.
LEMMA InvInit ==
    Init => CoreTypeOK /\ LockInv /\ JoinedInv /\ WorldInv /\ FlightInv /\ OwedInv
  <1>1. Init => CoreTypeOK /\ LockInv /\ JoinedInv /\ WorldInv
    BY SMT DEF Init, CoreTypeOK, LockInv, JoinedInv, WorldInv, ServesWholeWorld, Owning, PastP1, NoRanks
  <1>2. Init => FlightInv /\ OwedInv
    BY DEF Init, FlightInv, Flight, OwedInv, Owning, Up
  <1> QED
    BY <1>1, <1>2

\* Ranks of two epochs cannot coexist once each epoch's P1 was global: the
\* older ranks' node has acked the newer epoch's teardown.
LEMMA OneWorld ==
    ASSUME CoreTypeOK, WorldInv
    PROVE  NoMixedWorld
  <1> SUFFICES ASSUME NEW n \in Nodes, NEW m \in Nodes,
                      cohort[n] # NoRanks, cohort[m] # NoRanks, cohort[n] < cohort[m]
               PROVE  FALSE
    BY SMT DEF NoMixedWorld, CoreTypeOK, NoRanks
  <1>1. cohort[m] \in Nat /\ cohort[m] > 0
    BY SMT DEF CoreTypeOK, NoRanks
  <1>2. <<cohort[m], "P1", n>> \in okAcks
    BY <1>1 DEF WorldInv, AllAcked
  <1>3. cohort[m] <= cohort[n]
    BY <1>1, <1>2 DEF WorldInv
  <1> QED
    BY <1>1, <1>3, SMT DEF CoreTypeOK, NoRanks

\* The lock is free in every serving pool, or taken to end the node, and whoever
\* tears a cohort down holds it.
LEMMA OneOwner ==
    ASSUME CoreTypeOK, LockInv
    PROVE  OneTeardownOwner
  BY DEF CoreTypeOK, LockInv, OneTeardownOwner, Owning

\* The inductive invariant holds throughout, whatever fails.
THEOREM Invariants ==
    Spec => [](CoreTypeOK /\ LockInv /\ JoinedInv /\ WorldInv /\ FlightInv /\ OwedInv)
  <1>1. CoreTypeOK /\ LockInv /\ JoinedInv /\ WorldInv /\ FlightInv /\ OwedInv /\ [Next]_vars
          => (CoreTypeOK /\ LockInv /\ JoinedInv /\ WorldInv /\ FlightInv /\ OwedInv)'
    BY CoreTypeNext, LockNext, JoinedNext, WorldNext, FlightNext, OwedNext
  <1> QED
    BY <1>1, InvInit, PTL DEF Spec

\* Ranks spawned by two restarts never exist together on any nodes, for any
\* number of nodes, restarts and faults (the P1 barrier of restart_workers).
THEOREM WorldsApart ==
    Spec => []NoMixedWorld
  BY Invariants, OneWorld, PTL

\* A restarted node serves only a cohort every node has reported ready (the P2
\* barrier of restart_workers).
THEOREM ServesReadyWorld ==
    Spec => []ServesWholeWorld
  <1>1. WorldInv => ServesWholeWorld
    BY DEF WorldInv
  <1> QED
    BY <1>1, Invariants, PTL

\* Failure handling and restart never tear one cohort down side by side.
THEOREM TeardownOwned ==
    Spec => []OneTeardownOwner
  BY Invariants, OneOwner, PTL

\* A node that gives up on an epoch leaves word of it for the others in it, or
\* they have other cause to end it (the except block of restart_workers), for
\* any number of nodes, restarts and faults.
THEOREM FailuresPublished ==
    Spec => []GivenUpIsPublished
  <1>1. CoreTypeOK /\ OwedInv => GivenUpIsPublished
    <2> SUFFICES ASSUME CoreTypeOK, OwedInv, NEW e \in 1..epoch, NEW n \in Nodes, <<e, n>> \in gaveUp
                 PROVE  Excused(e) \/ (\E o \in owed[n] : o.epoch = e) \/ (\E key \in down : key[2] = n)
      BY DEF GivenUpIsPublished, Excused
    <2>1. e \in Nat
      BY SMT DEF CoreTypeOK
    <2> QED
      BY <2>1 DEF OwedInv
  <1> QED
    BY <1>1, Invariants, PTL

=============================================================================
