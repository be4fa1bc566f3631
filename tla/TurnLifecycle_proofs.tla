------------------------ MODULE TurnLifecycle_proofs ------------------------
(***************************************************************************)
(* TLAPS proofs about TurnLifecycle, for any clients, any number of turns, *)
(* any bound on process deaths and any subset of the requests.  The        *)
(* inductive invariant IInv is split in four: types, locks, rows, calls.   *)
(* On it rest served rows (LInv), honest orphans (StampInv), sessions that *)
(* let go (ActiveInv) and, of one client, the turn it names (SingleInv).   *)
(* The last part proves that TurnLifecycle implements TurnContract.        *)
(***************************************************************************)
EXTENDS TurnLifecycle, TLAPS

\* The jobs of the lock pair are the turns and the upkeep job, all distinct from the null.
LEMMA JobsAreDistinct ==
    /\ Turns \subseteq Jobs /\ Upkeep \in Jobs
    /\ Upkeep \notin Turns /\ NoTurn \notin Turns /\ NoJob \notin Turns /\ NoJob # Upkeep
    /\ NoClient \notin Clients /\ NoJob = NoTurn
    /\ Turns \subseteq Nat /\ MaxTurns \in Nat /\ MaxCrashes \in Nat /\ MaxRefreshes \in Nat
    /\ Turns = 1..MaxTurns
    /\ Validates \in BOOLEAN
BY LifecycleAssumption, NullsAreOutside DEF Turns

\* A fact about the initial states: nothing exists, every lock is free.
LEMMA InitIInv == Init => IInv
<1> SUFFICES ASSUME Init PROVE IInv
    OBVIOUS
<1>1. TypeOK
    BY JobsAreDistinct
    DEF Init, LockInit, TypeOK, LockTypeOK, RowStatus, Terminal, SessionStatus, TaskPhase,
        Call, Ops, Idle
<1>2. LiveTurnsHaveAClient /\ LocksAreHeld /\ RowsAreInOrder /\ TasksAreStarted
    BY DEF Init, LiveTurnsHaveAClient, LocksAreHeld, RowsAreInOrder, TasksAreStarted, Live,
           Driving
<1>3. ActiveTurnExists /\ CallsAreSound /\ EndedTurnsAreTerminal
    BY JobsAreDistinct DEF Init, ActiveTurnExists, CallsAreSound, EndedTurnsAreTerminal, Idle
<1> QED
    BY <1>1, <1>2, <1>3 DEF IInv

RowTypeOK ==
    /\ status \in [Turns -> RowStatus]
    /\ finished \in [Turns -> BOOLEAN]
    /\ age \in [Turns -> 0..2]

CallTypeOK == call \in [Clients -> Call]

\* The two ways the store writes a row keep its columns' types.
LEMMA LiveRowTypes ==
    ASSUME RowTypeOK, NEW t \in Turns, NEW s \in RowStatus, NEW answered \in BOOLEAN,
           UpdateLiveRow(t, s, answered)
    PROVE  RowTypeOK'
<1>1. CASE status[t] = "running"
  <2>1. status' = [status EXCEPT ![t] = s] /\ finished' = [finished EXCEPT ![t] = answered]
        /\ age' = [age EXCEPT ![t] = 0]
        BY <1>1 DEF UpdateLiveRow
  <2> QED
        BY <2>1 DEF RowTypeOK
<1>2. CASE status[t] # "running"
    BY <1>2 DEF UpdateLiveRow, RowTypeOK, rowVars
<1> QED
    BY <1>1, <1>2

LEMMA RowTypes ==
    ASSUME RowTypeOK, NEW t \in Turns, NEW s \in RowStatus, UpdateRow(t, s)
    PROVE  RowTypeOK'
BY DEF UpdateRow, RowTypeOK

\* Where a client's code goes next is a call of the known form.
LEMMA GotoTypes ==
    ASSUME CallTypeOK, NEW c, NEW next \in Call, Goto(c, next)
    PROVE  CallTypeOK'
BY DEF CallTypeOK, Goto

LEMMA CallForm ==
    ASSUME NEW op \in Ops, NEW t \in Turns \cup {NoTurn},
           NEW outcome \in {"none"} \cup Terminal
    PROVE  In(op, t, outcome) \in Call /\ Idle \in Call
BY DEF In, Idle, Call, Ops

\* The parts of IInv that the step lemmas below establish one at a time.
LockInv == LiveTurnsHaveAClient /\ LocksAreHeld
RowInv == RowsAreInOrder /\ TasksAreStarted /\ EndedTurnsAreTerminal
CallInv == ActiveTurnExists /\ CallsAreSound


\* Types are preserved by every step.
LEMMA TypeStep == IInv /\ [Next]_vars => TypeOK'
<1> SUFFICES ASSUME IInv, [Next]_vars PROVE TypeOK'
    OBVIOUS
<1> USE DEF IInv, TypeOK, LockTypeOK, RowTypeOK, CallTypeOK, CallsAreSound,
           RowStatus, Terminal, SessionStatus, Driving, Live, Dead, TaskPhase, Call, Ops, Idle, In, Goto, rowVars, sessionVars, taskVars,
           sideVars, boundVars, lockVars
<1>1. ASSUME NEW c \in Clients, StartTurn(c) PROVE TypeOK'
    BY <1>1, JobsAreDistinct DEF StartTurn, Asked
<1>2. ASSUME NEW c \in Clients, QueueTurn(c) PROVE TypeOK'
    BY <1>2, JobsAreDistinct DEF QueueTurn, Asked
<1>3. ASSUME NEW c \in Clients, CancelTurn(c) PROVE TypeOK'
    BY <1>3, JobsAreDistinct DEF CancelTurn, Asked
<1>4. ASSUME NEW c \in Clients, Reclaim(c) PROVE TypeOK'
    BY <1>4, JobsAreDistinct DEF Reclaim, Asked
<1>5. ASSUME NEW c \in Clients, RefreshSession(c) PROVE TypeOK'
    BY <1>5, JobsAreDistinct DEF RefreshSession, Asked, UpdateSession
<1>6. ASSUME NEW c \in Clients, CloseClient(c) PROVE TypeOK'
    BY <1>6, JobsAreDistinct DEF CloseClient, Asked
<1>7. ASSUME NEW c \in Clients, UpkeepStart(c) PROVE TypeOK'
    BY <1>7, JobsAreDistinct DEF UpkeepStart, Asked
<1>8. ASSUME NEW c \in Clients, CreateTurn(c) PROVE TypeOK'
    BY <1>8, JobsAreDistinct DEF CreateTurn, NewRow, UpdateRow
<1>9. ASSUME NEW c \in Clients, MarkRunning(c) PROVE TypeOK'
    BY <1>9, JobsAreDistinct DEF MarkRunning, UpdateSession, Spawn
<1>10. ASSUME NEW c \in Clients, Enqueue(c) PROVE TypeOK'
    BY <1>10, JobsAreDistinct DEF Enqueue, NewRow, UpdateRow
<1>11. ASSUME NEW c \in Clients, DrainEmpty(c) PROVE TypeOK'
    BY <1>11, JobsAreDistinct DEF DrainEmpty
<1>12. ASSUME NEW c \in Clients, DrainClaim(c) PROVE TypeOK'
    BY <1>12, JobsAreDistinct DEF DrainClaim, OldestQueued, Queued, UpdateRow, UpdateSession, Spawn
<1>13. ASSUME NEW c \in Clients, DrainRefused(c) PROVE TypeOK'
    BY <1>13, JobsAreDistinct DEF DrainRefused
<1>14. ASSUME NEW c \in Clients, Dequeue(c) PROVE TypeOK'
  <2>1. RowTypeOK'
        BY <1>14, RowTypes DEF Dequeue
  <2>2. CallTypeOK'
        BY <1>14 DEF Dequeue
  <2> QED
        BY <1>14, <2>1, <2>2 DEF Dequeue
<1>15. ASSUME NEW c \in Clients, CancelRow(c) PROVE TypeOK'
  <2>write. call[c].turn \in Turns /\ UpdateLiveRow(call[c].turn, "cancelled", finished[call[c].turn])
        BY <1>15 DEF CancelRow
  <2>bool. (finished[call[c].turn]) \in BOOLEAN
        BY <2>write
  <2>1. RowTypeOK'
        BY <2>write, <2>bool, LiveRowTypes
  <2>2. CallTypeOK'
        BY <1>15, CallForm, GotoTypes DEF CancelRow
  <2> QED
        BY <1>15, <2>1, <2>2 DEF CancelRow
<1>16. ASSUME NEW c \in Clients, FinishRead(c) PROVE TypeOK'
    BY <1>16, JobsAreDistinct DEF FinishRead
<1>17. ASSUME NEW c \in Clients, FinishWrite(c) PROVE TypeOK'
    BY <1>17, JobsAreDistinct DEF FinishWrite, UpdateSession
<1>18. ASSUME NEW c \in Clients, Probe(c) PROVE TypeOK'
    BY <1>18, JobsAreDistinct DEF Probe
<1>19. ASSUME NEW c \in Clients, OrphanRow(c) PROVE TypeOK'
    BY <1>19, JobsAreDistinct DEF OrphanRow
<1>20. ASSUME NEW c \in Clients, OrphanWrite(c) PROVE TypeOK'
    BY <1>20, JobsAreDistinct DEF OrphanWrite, UpdateRow
<1>21. ASSUME NEW c \in Clients, OrphanSession(c) PROVE TypeOK'
    BY <1>21, JobsAreDistinct DEF OrphanSession, UpdateSession
<1>22. ASSUME NEW c \in Clients, UpkeepLoopLock(c) PROVE TypeOK'
    BY <1>22, JobsAreDistinct DEF UpkeepLoopLock, TakeLoopLock, LoopFree
<1>23. ASSUME NEW c \in Clients, UpkeepFlock(c) PROVE TypeOK'
    BY <1>23, JobsAreDistinct DEF UpkeepFlock, TakeFlock
<1>24. ASSUME NEW c \in Clients, UpkeepBegin(c) PROVE TypeOK'
    BY <1>24, JobsAreDistinct DEF UpkeepBegin, ReleaseLocks, HoldsLocks
<1>25. ASSUME NEW c \in Clients, UpkeepEnd(c) PROVE TypeOK'
    BY <1>25, JobsAreDistinct DEF UpkeepEnd, ReleaseLocks
<1>26. ASSUME NEW c \in Clients, DrainPoll(c) PROVE TypeOK'
    BY <1>26, JobsAreDistinct DEF DrainPoll
<1>27. ASSUME NEW c \in Clients, Sweep(c) PROVE TypeOK'
    BY <1>27, JobsAreDistinct DEF Sweep, Asked
<1>28. ASSUME NEW c \in Clients, RecordSteer(c) PROVE TypeOK'
    BY <1>28, JobsAreDistinct DEF RecordSteer, UpdateSession
<1>29. ASSUME NEW c \in Clients, Crash(c) PROVE TypeOK'
    BY <1>29, JobsAreDistinct DEF Crash, ReleaseLocks
<1>30. ASSUME NEW c \in Clients, NEW t \in Turns, CancelQueued(c, t) PROVE TypeOK'
    BY <1>30, JobsAreDistinct DEF CancelQueued, Asked, Queued
<1>31. ASSUME NEW c \in Clients, NEW t \in Turns, SteerTurn(c, t) PROVE TypeOK'
  <2>1. RowTypeOK'
        BY <1>31, LiveRowTypes, JobsAreDistinct DEF SteerTurn
  <2>2. task' \in [Turns -> TaskPhase]
    <3>1. CASE task[t] = "waiting"
          BY <1>31, <3>1 DEF SteerTurn
    <3>2. CASE task[t] # "waiting"
          BY <1>31, <3>2 DEF SteerTurn
    <3> QED
          BY <3>1, <3>2
  <2>3. steerNote' \in [Clients -> Turns \cup {NoTurn}]
        BY <1>31 DEF SteerTurn
  <2> QED
        BY <1>31, <2>1, <2>2, <2>3 DEF SteerTurn
<1>32. ASSUME NEW t \in Turns, TaskLoopLock(t) PROVE TypeOK'
    BY <1>32, JobsAreDistinct DEF TaskLoopLock, TakeLoopLock
<1>33. ASSUME NEW t \in Turns, TaskFlock(t) PROVE TypeOK'
    BY <1>33, JobsAreDistinct DEF TaskFlock, TakeFlock
<1>34. ASSUME NEW t \in Turns, TaskBegin(t) PROVE TypeOK'
  <2>1. task' \in [Turns -> TaskPhase]
        BY <1>34 DEF TaskBegin
  <2>2. CallTypeOK'
        BY <1>34, CallForm, GotoTypes DEF TaskBegin
  <2> QED
        BY <1>34, <2>1, <2>2 DEF TaskBegin
<1>35. ASSUME NEW t \in Turns, TaskComplete(t) PROVE TypeOK'
  <2>write. t \in Turns /\ UpdateLiveRow(t, "completed", finished[t] \/ Validates)
        BY <1>35 DEF TaskComplete, EndTask
  <2>bool. (finished[t] \/ Validates) \in BOOLEAN
        OBVIOUS
  <2>1. RowTypeOK'
        BY <2>write, <2>bool, LiveRowTypes
  <2>2. CallTypeOK'
        BY <1>35, CallForm, GotoTypes DEF TaskComplete, EndTask
  <2>3. task' \in [Turns -> TaskPhase]
        BY <1>35 DEF TaskComplete, EndTask
  <2> QED
        BY <1>35, <2>1, <2>2, <2>3 DEF TaskComplete, EndTask
<1>36. ASSUME NEW t \in Turns, TaskFail(t) PROVE TypeOK'
  <2>write. t \in Turns /\ UpdateLiveRow(t, "failed", finished[t])
        BY <1>36 DEF TaskFail, EndTask
  <2>bool. (finished[t]) \in BOOLEAN
        OBVIOUS
  <2>1. RowTypeOK'
        BY <2>write, <2>bool, LiveRowTypes
  <2>2. CallTypeOK'
        BY <1>36, CallForm, GotoTypes DEF TaskFail, EndTask
  <2>3. task' \in [Turns -> TaskPhase]
        BY <1>36 DEF TaskFail, EndTask
  <2> QED
        BY <1>36, <2>1, <2>2, <2>3 DEF TaskFail, EndTask
<1>37. ASSUME NEW t \in Turns, TaskCancelled(t) PROVE TypeOK'
    BY <1>37, JobsAreDistinct DEF TaskCancelled
<1>38. ASSUME NEW t \in Turns, TaskRelease(t) PROVE TypeOK'
    BY <1>38, JobsAreDistinct DEF TaskRelease, ReleaseLocks
<1>39. ASSUME NEW t \in Turns, TaskResult(t) PROVE TypeOK'
  <2>1. RowTypeOK'
        BY <1>39, LiveRowTypes, JobsAreDistinct DEF TaskResult
  <2>2. task' \in [Turns -> TaskPhase]
        BY <1>39 DEF TaskResult
  <2> QED
        BY <1>39, <2>1, <2>2 DEF TaskResult
<1>40. ASSUME NEW t \in Turns, TaskFollowUp(t) PROVE TypeOK'
  <2>1. RowTypeOK'
        BY <1>40, LiveRowTypes, JobsAreDistinct DEF TaskFollowUp
  <2>2. task' \in [Turns -> TaskPhase]
        BY <1>40 DEF TaskFollowUp
  <2> QED
        BY <1>40, <2>1, <2>2 DEF TaskFollowUp
<1>41. ASSUME NEW t \in Turns, Ages(t) PROVE TypeOK'
  <2>1. age[t] + 1 \in 0..2
        BY <1>41 DEF Ages
  <2>2. age' \in [Turns -> 0..2]
        BY <1>41, <2>1 DEF Ages
  <2> QED
        BY <1>41, <2>2 DEF Ages
<1>42. CASE UNCHANGED vars
    BY <1>42 DEF vars
<1> QED
    BY <1>1, <1>2, <1>3, <1>4, <1>5, <1>6, <1>7, <1>8, <1>9, <1>10, <1>11, <1>12,
       <1>13, <1>14, <1>15, <1>16, <1>17, <1>18, <1>19, <1>20, <1>21, <1>22, <1>23,
       <1>24, <1>25, <1>26, <1>27, <1>28, <1>29, <1>30, <1>31, <1>32, <1>33, <1>34,
       <1>35, <1>36, <1>37, <1>38, <1>39, <1>40, <1>41, <1>42
    DEF Next, Request, LoopStep, UpkeepStep, TaskStep, TaskAdvance, TaskEnd


\* Live turns have a client, and whoever is inside the locked region holds both locks.
LEMMA LockStep == IInv /\ [Next]_vars => LockInv'
<1> SUFFICES ASSUME IInv, [Next]_vars PROVE LockInv'
    OBVIOUS
<1> USE DEF IInv, LockInv, TypeOK, LockTypeOK, LiveTurnsHaveAClient, LocksAreHeld,
           HoldsLocks, Live, Driving, Dead, TaskPhase, rowVars, sessionVars, taskVars, sideVars, boundVars, lockVars
<1>1. ASSUME NEW c \in Clients, StartTurn(c) PROVE LockInv'
    BY <1>1, JobsAreDistinct DEF StartTurn, Asked
<1>2. ASSUME NEW c \in Clients, QueueTurn(c) PROVE LockInv'
    BY <1>2, JobsAreDistinct DEF QueueTurn, Asked
<1>3. ASSUME NEW c \in Clients, CancelTurn(c) PROVE LockInv'
    BY <1>3, JobsAreDistinct DEF CancelTurn, Asked
<1>4. ASSUME NEW c \in Clients, Reclaim(c) PROVE LockInv'
    BY <1>4, JobsAreDistinct DEF Reclaim, Asked
<1>5. ASSUME NEW c \in Clients, RefreshSession(c) PROVE LockInv'
    BY <1>5, JobsAreDistinct DEF RefreshSession, Asked, UpdateSession
<1>6. ASSUME NEW c \in Clients, CloseClient(c) PROVE LockInv'
    BY <1>6, JobsAreDistinct DEF CloseClient, Asked
<1>7. ASSUME NEW c \in Clients, UpkeepStart(c) PROVE LockInv'
    BY <1>7, JobsAreDistinct DEF UpkeepStart, Asked
<1>8. ASSUME NEW c \in Clients, CreateTurn(c) PROVE LockInv'
    BY <1>8, JobsAreDistinct DEF CreateTurn, NewRow, UpdateRow
<1>9. ASSUME NEW c \in Clients, MarkRunning(c) PROVE LockInv'
    BY <1>9, JobsAreDistinct DEF MarkRunning, UpdateSession, Spawn
<1>10. ASSUME NEW c \in Clients, Enqueue(c) PROVE LockInv'
    BY <1>10, JobsAreDistinct DEF Enqueue, NewRow, UpdateRow
<1>11. ASSUME NEW c \in Clients, DrainEmpty(c) PROVE LockInv'
    BY <1>11, JobsAreDistinct DEF DrainEmpty
<1>12. ASSUME NEW c \in Clients, DrainClaim(c) PROVE LockInv'
    BY <1>12, JobsAreDistinct DEF DrainClaim, OldestQueued, Queued, UpdateRow, UpdateSession, Spawn
<1>13. ASSUME NEW c \in Clients, DrainRefused(c) PROVE LockInv'
    BY <1>13, JobsAreDistinct DEF DrainRefused
<1>14. ASSUME NEW c \in Clients, Dequeue(c) PROVE LockInv'
    BY <1>14, JobsAreDistinct DEF Dequeue, UpdateRow
<1>15. ASSUME NEW c \in Clients, CancelRow(c) PROVE LockInv'
    BY <1>15, JobsAreDistinct DEF CancelRow, UpdateLiveRow
<1>16. ASSUME NEW c \in Clients, FinishRead(c) PROVE LockInv'
    BY <1>16, JobsAreDistinct DEF FinishRead
<1>17. ASSUME NEW c \in Clients, FinishWrite(c) PROVE LockInv'
    BY <1>17, JobsAreDistinct DEF FinishWrite, UpdateSession
<1>18. ASSUME NEW c \in Clients, Probe(c) PROVE LockInv'
    BY <1>18, JobsAreDistinct DEF Probe
<1>19. ASSUME NEW c \in Clients, OrphanRow(c) PROVE LockInv'
    BY <1>19, JobsAreDistinct DEF OrphanRow
<1>20. ASSUME NEW c \in Clients, OrphanWrite(c) PROVE LockInv'
    BY <1>20, JobsAreDistinct DEF OrphanWrite, UpdateRow
<1>21. ASSUME NEW c \in Clients, OrphanSession(c) PROVE LockInv'
    BY <1>21, JobsAreDistinct DEF OrphanSession, UpdateSession
<1>22. ASSUME NEW c \in Clients, UpkeepLoopLock(c) PROVE LockInv'
    BY <1>22, JobsAreDistinct DEF UpkeepLoopLock, TakeLoopLock, LoopFree
<1>23. ASSUME NEW c \in Clients, UpkeepFlock(c) PROVE LockInv'
    BY <1>23, JobsAreDistinct DEF UpkeepFlock, TakeFlock
<1>24. ASSUME NEW c \in Clients, UpkeepBegin(c) PROVE LockInv'
    BY <1>24, JobsAreDistinct DEF UpkeepBegin, ReleaseLocks, HoldsLocks
<1>25. ASSUME NEW c \in Clients, UpkeepEnd(c) PROVE LockInv'
    BY <1>25, JobsAreDistinct DEF UpkeepEnd, ReleaseLocks
<1>26. ASSUME NEW c \in Clients, DrainPoll(c) PROVE LockInv'
    BY <1>26, JobsAreDistinct DEF DrainPoll
<1>27. ASSUME NEW c \in Clients, Sweep(c) PROVE LockInv'
    BY <1>27, JobsAreDistinct DEF Sweep, Asked
<1>28. ASSUME NEW c \in Clients, RecordSteer(c) PROVE LockInv'
    BY <1>28, JobsAreDistinct DEF RecordSteer, UpdateSession
<1>29. ASSUME NEW c \in Clients, Crash(c) PROVE LockInv'
    BY <1>29, JobsAreDistinct DEF Crash, ReleaseLocks
<1>30. ASSUME NEW c \in Clients, NEW t \in Turns, CancelQueued(c, t) PROVE LockInv'
    BY <1>30, JobsAreDistinct DEF CancelQueued, Asked, Queued
<1>31. ASSUME NEW c \in Clients, NEW t \in Turns, SteerTurn(c, t) PROVE LockInv'
    BY <1>31, JobsAreDistinct DEF SteerTurn, Asked, UpdateLiveRow
<1>32. ASSUME NEW t \in Turns, TaskLoopLock(t) PROVE LockInv'
    BY <1>32, JobsAreDistinct DEF TaskLoopLock, TakeLoopLock
<1>33. ASSUME NEW t \in Turns, TaskFlock(t) PROVE LockInv'
    BY <1>33, JobsAreDistinct DEF TaskFlock, TakeFlock
<1>34. ASSUME NEW t \in Turns, TaskBegin(t) PROVE LockInv'
    BY <1>34, JobsAreDistinct DEF TaskBegin, HoldsLocks
<1>35. ASSUME NEW t \in Turns, TaskComplete(t) PROVE LockInv'
    BY <1>35, JobsAreDistinct DEF TaskComplete, EndTask, UpdateLiveRow
<1>36. ASSUME NEW t \in Turns, TaskFail(t) PROVE LockInv'
    BY <1>36, JobsAreDistinct DEF TaskFail, EndTask, UpdateLiveRow
<1>37. ASSUME NEW t \in Turns, TaskCancelled(t) PROVE LockInv'
    BY <1>37, JobsAreDistinct DEF TaskCancelled
<1>38. ASSUME NEW t \in Turns, TaskRelease(t) PROVE LockInv'
    BY <1>38, JobsAreDistinct DEF TaskRelease, ReleaseLocks
<1>39. ASSUME NEW t \in Turns, TaskResult(t) PROVE LockInv'
    BY <1>39, JobsAreDistinct DEF TaskResult, UpdateLiveRow
<1>40. ASSUME NEW t \in Turns, TaskFollowUp(t) PROVE LockInv'
    BY <1>40, JobsAreDistinct DEF TaskFollowUp, UpdateLiveRow
<1>41. ASSUME NEW t \in Turns, Ages(t) PROVE LockInv'
    BY <1>41, JobsAreDistinct DEF Ages
<1>42. CASE UNCHANGED vars
    BY <1>42 DEF vars
<1> QED
    BY <1>1, <1>2, <1>3, <1>4, <1>5, <1>6, <1>7, <1>8, <1>9, <1>10, <1>11, <1>12,
       <1>13, <1>14, <1>15, <1>16, <1>17, <1>18, <1>19, <1>20, <1>21, <1>22, <1>23,
       <1>24, <1>25, <1>26, <1>27, <1>28, <1>29, <1>30, <1>31, <1>32, <1>33, <1>34,
       <1>35, <1>36, <1>37, <1>38, <1>39, <1>40, <1>41, <1>42
    DEF Next, Request, LoopStep, UpkeepStep, TaskStep, TaskAdvance, TaskEnd


\* A row is written only for a turn that exists, and an ended turn's stays terminal.
LEMMA RowStep == IInv /\ [Next]_vars => RowInv'
<1> SUFFICES ASSUME IInv, [Next]_vars PROVE RowInv'
    OBVIOUS
<1> USE DEF IInv, RowInv, TypeOK, CallsAreSound, RowsAreInOrder, TasksAreStarted,
           EndedTurnsAreTerminal, ActiveTurnExists, RowStatus, Terminal, Driving, Live, Dead, TaskPhase,
           Goto, rowVars, sessionVars, taskVars, sideVars, boundVars, lockVars
<1>1. ASSUME NEW c \in Clients, StartTurn(c) PROVE RowInv'
    BY <1>1, JobsAreDistinct DEF StartTurn, Asked
<1>2. ASSUME NEW c \in Clients, QueueTurn(c) PROVE RowInv'
    BY <1>2, JobsAreDistinct DEF QueueTurn, Asked
<1>3. ASSUME NEW c \in Clients, CancelTurn(c) PROVE RowInv'
    BY <1>3, JobsAreDistinct DEF CancelTurn, Asked
<1>4. ASSUME NEW c \in Clients, Reclaim(c) PROVE RowInv'
    BY <1>4, JobsAreDistinct DEF Reclaim, Asked
<1>5. ASSUME NEW c \in Clients, RefreshSession(c) PROVE RowInv'
    BY <1>5, JobsAreDistinct DEF RefreshSession, Asked, UpdateSession
<1>6. ASSUME NEW c \in Clients, CloseClient(c) PROVE RowInv'
    BY <1>6, JobsAreDistinct DEF CloseClient, Asked
<1>7. ASSUME NEW c \in Clients, UpkeepStart(c) PROVE RowInv'
    BY <1>7, JobsAreDistinct DEF UpkeepStart, Asked
<1>8. ASSUME NEW c \in Clients, CreateTurn(c) PROVE RowInv'
    BY <1>8, JobsAreDistinct DEF CreateTurn, NewRow, UpdateRow
<1>9. ASSUME NEW c \in Clients, MarkRunning(c) PROVE RowInv'
    BY <1>9, JobsAreDistinct DEF MarkRunning, UpdateSession, Spawn
<1>10. ASSUME NEW c \in Clients, Enqueue(c) PROVE RowInv'
    BY <1>10, JobsAreDistinct DEF Enqueue, NewRow, UpdateRow
<1>11. ASSUME NEW c \in Clients, DrainEmpty(c) PROVE RowInv'
    BY <1>11, JobsAreDistinct DEF DrainEmpty
<1>12. ASSUME NEW c \in Clients, DrainClaim(c) PROVE RowInv'
    BY <1>12, JobsAreDistinct DEF DrainClaim, OldestQueued, Queued, UpdateRow, UpdateSession, Spawn
<1>13. ASSUME NEW c \in Clients, DrainRefused(c) PROVE RowInv'
    BY <1>13, JobsAreDistinct DEF DrainRefused
<1>14. ASSUME NEW c \in Clients, Dequeue(c) PROVE RowInv'
    BY <1>14, JobsAreDistinct DEF Dequeue, UpdateRow
<1>15. ASSUME NEW c \in Clients, CancelRow(c) PROVE RowInv'
  <2>1. call[c].turn \in Turns /\ UNCHANGED <<created, task>>
        BY <1>15 DEF CancelRow
  <2>2. CASE status[call[c].turn] = "running"
    <3>1. status' = [status EXCEPT ![call[c].turn] = "cancelled"]
          BY <1>15, <2>2 DEF CancelRow, UpdateLiveRow
    <3> QED
          BY <2>1, <2>2, <3>1
  <2>3. CASE status[call[c].turn] # "running"
    <3>1. UNCHANGED status
          BY <1>15, <2>3 DEF CancelRow, UpdateLiveRow
    <3> QED
          BY <2>1, <3>1
  <2> QED
        BY <2>2, <2>3
<1>16. ASSUME NEW c \in Clients, FinishRead(c) PROVE RowInv'
    BY <1>16, JobsAreDistinct DEF FinishRead
<1>17. ASSUME NEW c \in Clients, FinishWrite(c) PROVE RowInv'
    BY <1>17, JobsAreDistinct DEF FinishWrite, UpdateSession
<1>18. ASSUME NEW c \in Clients, Probe(c) PROVE RowInv'
    BY <1>18, JobsAreDistinct DEF Probe
<1>19. ASSUME NEW c \in Clients, OrphanRow(c) PROVE RowInv'
    BY <1>19, JobsAreDistinct DEF OrphanRow
<1>20. ASSUME NEW c \in Clients, OrphanWrite(c) PROVE RowInv'
    BY <1>20, JobsAreDistinct DEF OrphanWrite, UpdateRow
<1>21. ASSUME NEW c \in Clients, OrphanSession(c) PROVE RowInv'
    BY <1>21, JobsAreDistinct DEF OrphanSession, UpdateSession
<1>22. ASSUME NEW c \in Clients, UpkeepLoopLock(c) PROVE RowInv'
    BY <1>22, JobsAreDistinct DEF UpkeepLoopLock, TakeLoopLock, LoopFree
<1>23. ASSUME NEW c \in Clients, UpkeepFlock(c) PROVE RowInv'
    BY <1>23, JobsAreDistinct DEF UpkeepFlock, TakeFlock
<1>24. ASSUME NEW c \in Clients, UpkeepBegin(c) PROVE RowInv'
    BY <1>24, JobsAreDistinct DEF UpkeepBegin, ReleaseLocks, HoldsLocks
<1>25. ASSUME NEW c \in Clients, UpkeepEnd(c) PROVE RowInv'
    BY <1>25, JobsAreDistinct DEF UpkeepEnd, ReleaseLocks
<1>26. ASSUME NEW c \in Clients, DrainPoll(c) PROVE RowInv'
    BY <1>26, JobsAreDistinct DEF DrainPoll
<1>27. ASSUME NEW c \in Clients, Sweep(c) PROVE RowInv'
    BY <1>27, JobsAreDistinct DEF Sweep, Asked
<1>28. ASSUME NEW c \in Clients, RecordSteer(c) PROVE RowInv'
    BY <1>28, JobsAreDistinct DEF RecordSteer, UpdateSession
<1>29. ASSUME NEW c \in Clients, Crash(c) PROVE RowInv'
    BY <1>29, JobsAreDistinct DEF Crash, ReleaseLocks
<1>30. ASSUME NEW c \in Clients, NEW t \in Turns, CancelQueued(c, t) PROVE RowInv'
    BY <1>30, JobsAreDistinct DEF CancelQueued, Asked, Queued
<1>31. ASSUME NEW c \in Clients, NEW t \in Turns, SteerTurn(c, t) PROVE RowInv'
    BY <1>31, JobsAreDistinct DEF SteerTurn, Asked, UpdateLiveRow
<1>32. ASSUME NEW t \in Turns, TaskLoopLock(t) PROVE RowInv'
    BY <1>32, JobsAreDistinct DEF TaskLoopLock, TakeLoopLock
<1>33. ASSUME NEW t \in Turns, TaskFlock(t) PROVE RowInv'
    BY <1>33, JobsAreDistinct DEF TaskFlock, TakeFlock
<1>34. ASSUME NEW t \in Turns, TaskBegin(t) PROVE RowInv'
    BY <1>34, JobsAreDistinct DEF TaskBegin, HoldsLocks
<1>35. ASSUME NEW t \in Turns, TaskComplete(t) PROVE RowInv'
    BY <1>35, JobsAreDistinct DEF TaskComplete, EndTask, UpdateLiveRow
<1>36. ASSUME NEW t \in Turns, TaskFail(t) PROVE RowInv'
    BY <1>36, JobsAreDistinct DEF TaskFail, EndTask, UpdateLiveRow
<1>37. ASSUME NEW t \in Turns, TaskCancelled(t) PROVE RowInv'
    BY <1>37, JobsAreDistinct DEF TaskCancelled
<1>38. ASSUME NEW t \in Turns, TaskRelease(t) PROVE RowInv'
    BY <1>38, JobsAreDistinct DEF TaskRelease, ReleaseLocks
<1>39. ASSUME NEW t \in Turns, TaskResult(t) PROVE RowInv'
    BY <1>39, JobsAreDistinct DEF TaskResult, UpdateLiveRow
<1>40. ASSUME NEW t \in Turns, TaskFollowUp(t) PROVE RowInv'
    BY <1>40, JobsAreDistinct DEF TaskFollowUp, UpdateLiveRow
<1>41. ASSUME NEW t \in Turns, Ages(t) PROVE RowInv'
    BY <1>41, JobsAreDistinct DEF Ages
<1>42. CASE UNCHANGED vars
    BY <1>42 DEF vars
<1> QED
    BY <1>1, <1>2, <1>3, <1>4, <1>5, <1>6, <1>7, <1>8, <1>9, <1>10, <1>11, <1>12,
       <1>13, <1>14, <1>15, <1>16, <1>17, <1>18, <1>19, <1>20, <1>21, <1>22, <1>23,
       <1>24, <1>25, <1>26, <1>27, <1>28, <1>29, <1>30, <1>31, <1>32, <1>33, <1>34,
       <1>35, <1>36, <1>37, <1>38, <1>39, <1>40, <1>41, <1>42
    DEF Next, Request, LoopStep, UpkeepStep, TaskStep, TaskAdvance, TaskEnd


\* The code a client is in, and the session row, name only turns that exist.
LEMMA CallStep == IInv /\ [Next]_vars => CallInv'
<1> SUFFICES ASSUME IInv, [Next]_vars PROVE CallInv'
    OBVIOUS
<1> USE DEF IInv, CallInv, TypeOK, CallsAreSound, RowsAreInOrder, TasksAreStarted,
           ActiveTurnExists, RowStatus, Terminal, Live, Dead, TaskPhase, Call, Ops,
           Idle, In, Goto, rowVars, sessionVars, taskVars, sideVars, boundVars, lockVars
<1>1. ASSUME NEW c \in Clients, StartTurn(c) PROVE CallInv'
    BY <1>1, JobsAreDistinct DEF StartTurn, Asked
<1>2. ASSUME NEW c \in Clients, QueueTurn(c) PROVE CallInv'
    BY <1>2, JobsAreDistinct DEF QueueTurn, Asked
<1>3. ASSUME NEW c \in Clients, CancelTurn(c) PROVE CallInv'
    BY <1>3, JobsAreDistinct DEF CancelTurn, Asked
<1>4. ASSUME NEW c \in Clients, Reclaim(c) PROVE CallInv'
    BY <1>4, JobsAreDistinct DEF Reclaim, Asked
<1>5. ASSUME NEW c \in Clients, RefreshSession(c) PROVE CallInv'
    BY <1>5, JobsAreDistinct DEF RefreshSession, Asked, UpdateSession
<1>6. ASSUME NEW c \in Clients, CloseClient(c) PROVE CallInv'
    BY <1>6, JobsAreDistinct DEF CloseClient, Asked
<1>7. ASSUME NEW c \in Clients, UpkeepStart(c) PROVE CallInv'
    BY <1>7, JobsAreDistinct DEF UpkeepStart, Asked
<1>8. ASSUME NEW c \in Clients, CreateTurn(c) PROVE CallInv'
    BY <1>8, JobsAreDistinct DEF CreateTurn, NewRow, UpdateRow
<1>9. ASSUME NEW c \in Clients, MarkRunning(c) PROVE CallInv'
    BY <1>9, JobsAreDistinct DEF MarkRunning, UpdateSession, Spawn
<1>10. ASSUME NEW c \in Clients, Enqueue(c) PROVE CallInv'
    BY <1>10, JobsAreDistinct DEF Enqueue, NewRow, UpdateRow
<1>11. ASSUME NEW c \in Clients, DrainEmpty(c) PROVE CallInv'
    BY <1>11, JobsAreDistinct DEF DrainEmpty
<1>12. ASSUME NEW c \in Clients, DrainClaim(c) PROVE CallInv'
    BY <1>12, JobsAreDistinct DEF DrainClaim, OldestQueued, Queued, UpdateRow, UpdateSession, Spawn
<1>13. ASSUME NEW c \in Clients, DrainRefused(c) PROVE CallInv'
    BY <1>13, JobsAreDistinct DEF DrainRefused
<1>14. ASSUME NEW c \in Clients, Dequeue(c) PROVE CallInv'
    BY <1>14, JobsAreDistinct DEF Dequeue, UpdateRow
<1>15. ASSUME NEW c \in Clients, CancelRow(c) PROVE CallInv'
    BY <1>15, JobsAreDistinct DEF CancelRow, UpdateLiveRow
<1>16. ASSUME NEW c \in Clients, FinishRead(c) PROVE CallInv'
    BY <1>16, JobsAreDistinct DEF FinishRead
<1>17. ASSUME NEW c \in Clients, FinishWrite(c) PROVE CallInv'
    BY <1>17, JobsAreDistinct DEF FinishWrite, UpdateSession
<1>18. ASSUME NEW c \in Clients, Probe(c) PROVE CallInv'
    BY <1>18, JobsAreDistinct DEF Probe
<1>19. ASSUME NEW c \in Clients, OrphanRow(c) PROVE CallInv'
    BY <1>19, JobsAreDistinct DEF OrphanRow
<1>20. ASSUME NEW c \in Clients, OrphanWrite(c) PROVE CallInv'
    BY <1>20, JobsAreDistinct DEF OrphanWrite, UpdateRow
<1>21. ASSUME NEW c \in Clients, OrphanSession(c) PROVE CallInv'
    BY <1>21, JobsAreDistinct DEF OrphanSession, UpdateSession
<1>22. ASSUME NEW c \in Clients, UpkeepLoopLock(c) PROVE CallInv'
    BY <1>22, JobsAreDistinct DEF UpkeepLoopLock, TakeLoopLock, LoopFree
<1>23. ASSUME NEW c \in Clients, UpkeepFlock(c) PROVE CallInv'
    BY <1>23, JobsAreDistinct DEF UpkeepFlock, TakeFlock
<1>24. ASSUME NEW c \in Clients, UpkeepBegin(c) PROVE CallInv'
    BY <1>24, JobsAreDistinct DEF UpkeepBegin, ReleaseLocks, HoldsLocks
<1>25. ASSUME NEW c \in Clients, UpkeepEnd(c) PROVE CallInv'
    BY <1>25, JobsAreDistinct DEF UpkeepEnd, ReleaseLocks
<1>26. ASSUME NEW c \in Clients, DrainPoll(c) PROVE CallInv'
    BY <1>26, JobsAreDistinct DEF DrainPoll
<1>27. ASSUME NEW c \in Clients, Sweep(c) PROVE CallInv'
    BY <1>27, JobsAreDistinct DEF Sweep, Asked
<1>28. ASSUME NEW c \in Clients, RecordSteer(c) PROVE CallInv'
    BY <1>28, JobsAreDistinct DEF RecordSteer, UpdateSession
<1>29. ASSUME NEW c \in Clients, Crash(c) PROVE CallInv'
    BY <1>29, JobsAreDistinct DEF Crash, ReleaseLocks
<1>30. ASSUME NEW c \in Clients, NEW t \in Turns, CancelQueued(c, t) PROVE CallInv'
    BY <1>30, JobsAreDistinct DEF CancelQueued, Asked, Queued
<1>31. ASSUME NEW c \in Clients, NEW t \in Turns, SteerTurn(c, t) PROVE CallInv'
    BY <1>31, JobsAreDistinct DEF SteerTurn, Asked, UpdateLiveRow
<1>32. ASSUME NEW t \in Turns, TaskLoopLock(t) PROVE CallInv'
    BY <1>32, JobsAreDistinct DEF TaskLoopLock, TakeLoopLock
<1>33. ASSUME NEW t \in Turns, TaskFlock(t) PROVE CallInv'
    BY <1>33, JobsAreDistinct DEF TaskFlock, TakeFlock
<1>34. ASSUME NEW t \in Turns, TaskBegin(t) PROVE CallInv'
  <2>1. UNCHANGED <<status, activeTurn>>
        BY <1>34 DEF TaskBegin
  <2>2. CASE status[t] = "cancelled"
    <3>1. call' = [call EXCEPT ![owner[t]] = In("finishRead", t, "cancelled")]
          BY <1>34, <2>2 DEF TaskBegin
    <3> QED
          BY <2>1, <2>2, <3>1
  <2>3. CASE status[t] # "cancelled"
        BY <1>34, <2>1, <2>3 DEF TaskBegin
  <2> QED
        BY <2>2, <2>3
<1>35. ASSUME NEW t \in Turns, TaskComplete(t) PROVE CallInv'
    BY <1>35, JobsAreDistinct DEF TaskComplete, EndTask, UpdateLiveRow
<1>36. ASSUME NEW t \in Turns, TaskFail(t) PROVE CallInv'
    BY <1>36, JobsAreDistinct DEF TaskFail, EndTask, UpdateLiveRow
<1>37. ASSUME NEW t \in Turns, TaskCancelled(t) PROVE CallInv'
    BY <1>37, JobsAreDistinct DEF TaskCancelled
<1>38. ASSUME NEW t \in Turns, TaskRelease(t) PROVE CallInv'
    BY <1>38, JobsAreDistinct DEF TaskRelease, ReleaseLocks
<1>39. ASSUME NEW t \in Turns, TaskResult(t) PROVE CallInv'
    BY <1>39, JobsAreDistinct DEF TaskResult, UpdateLiveRow
<1>40. ASSUME NEW t \in Turns, TaskFollowUp(t) PROVE CallInv'
    BY <1>40, JobsAreDistinct DEF TaskFollowUp, UpdateLiveRow
<1>41. ASSUME NEW t \in Turns, Ages(t) PROVE CallInv'
    BY <1>41, JobsAreDistinct DEF Ages
<1>42. CASE UNCHANGED vars
    BY <1>42 DEF vars
<1> QED
    BY <1>1, <1>2, <1>3, <1>4, <1>5, <1>6, <1>7, <1>8, <1>9, <1>10, <1>11, <1>12,
       <1>13, <1>14, <1>15, <1>16, <1>17, <1>18, <1>19, <1>20, <1>21, <1>22, <1>23,
       <1>24, <1>25, <1>26, <1>27, <1>28, <1>29, <1>30, <1>31, <1>32, <1>33, <1>34,
       <1>35, <1>36, <1>37, <1>38, <1>39, <1>40, <1>41, <1>42
    DEF Next, Request, LoopStep, UpkeepStep, TaskStep, TaskAdvance, TaskEnd

\* IInv is an invariant of every behaviour: it holds initially and every step keeps it.
THEOREM Invariance == Spec => []IInv
<1>1. IInv /\ [Next]_vars => IInv'
    BY TypeStep, LockStep, RowStep, CallStep DEF IInv, LockInv, RowInv, CallInv
<1> QED
    BY InitIInv, <1>1, PTL DEF Spec

\* Every variable of the turn lifecycle keeps its type: claims, steers, sweeps and
\* deaths never write a row, a session or a call of another shape.
THEOREM TypeCorrectness == Spec => []TypeOK
<1>1. IInv => TypeOK
    BY DEF IInv
<1> QED
    BY Invariance, <1>1, PTL

\* Whoever is inside the locked region holds both locks, and the flock has one
\* holder with one asyncio lock: turns, warm-ups and compactions of a session
\* exclude one another across any number of processes, whichever of them die.
THEOREM MutualExclusion == Spec => []OneTurnDrives
<1>1. IInv => OneTurnDrives
  <2> SUFFICES ASSUME IInv PROVE OneTurnDrives
      OBVIOUS
  <2>1. \A t, u \in Turns : task[t] \in Driving /\ task[u] \in Driving => t = u
      BY DEF IInv, LocksAreHeld, HoldsLocks
  <2>2. \A c \in Clients, t \in Turns : ~(upkeep[c] = "holding" /\ task[t] \in Driving)
      BY JobsAreDistinct DEF IInv, LocksAreHeld, HoldsLocks
  <2>3. \A c, d \in Clients : upkeep[c] = "holding" /\ upkeep[d] = "holding" => c = d
      BY DEF IInv, LocksAreHeld, HoldsLocks
  <2> QED
      BY <2>1, <2>2, <2>3 DEF OneTurnDrives
<1> QED
    BY Invariance, <1>1, PTL

\* A turn whose task left the stream has a terminal row, however its completion,
\* failure or cancellation raced the sweeps and cancellations of other processes.
THEOREM EndedTurnsStayTerminal == Spec => []EndedTurnsAreTerminal
<1>1. IInv => EndedTurnsAreTerminal
    BY DEF IInv
<1> QED
    BY Invariance, <1>1, PTL

\* A step that leaves the rows, the tasks and the launches under way alone,
\* and the drain tasks too unless the queue is empty or a client is closed.
Quiet ==
    /\ UNCHANGED <<status, finished, task, crashes>>
    /\ \A c \in Clients : call'[c].op = "mark" <=> call[c].op = "mark"
    /\ \A c \in Clients : call[c].op = "mark" => call'[c].turn = call[c].turn
    /\ Queued # {} /\ "close" \notin Requests => UNCHANGED drain

\* The other actions.
Loud ==
    \/ \E c \in Clients :
          \/ CreateTurn(c) \/ MarkRunning(c) \/ Enqueue(c) \/ DrainClaim(c) \/ Dequeue(c)
          \/ CancelRow(c) \/ OrphanWrite(c) \/ Crash(c)
          \/ \E t \in Turns : SteerTurn(c, t)
    \/ \E t \in Turns :
          \/ TaskBegin(t) \/ TaskResult(t) \/ TaskFollowUp(t) \/ TaskComplete(t)
          \/ TaskFail(t) \/ TaskCancelled(t) \/ TaskRelease(t)

\* A turn whose launch is under way has no task yet, and one client launches it.
MarksAreFresh ==
    \A c \in Clients : call[c].op = "mark" =>
        /\ task[call[c].turn] = "none"
        /\ \A d \in Clients : call[d].op = "mark" /\ call[d].turn = call[c].turn => d = c

LInv == IInv /\ MarksAreFresh /\ RunningRowsHaveATask

\* Every step is quiet or one of the actions Loud names.
LEMMA QuietOrLoud == IInv /\ [Next]_vars => Quiet \/ Loud
<1> SUFFICES ASSUME IInv, [Next]_vars PROVE Quiet \/ Loud
    OBVIOUS
<1>call. call \in [Clients -> Call] /\ owner \in [Turns -> Clients \cup {NoClient}]
    BY DEF IInv, TypeOK
<1> USE <1>call DEF Quiet, Call, Goto, In, Idle, LoopFree, rowVars, sessionVars, taskVars, sideVars,
           boundVars, lockVars
<1>1. ASSUME NEW c \in Clients, StartTurn(c) PROVE Quiet
    BY <1>1 DEF StartTurn, Asked
<1>2. ASSUME NEW c \in Clients, QueueTurn(c) PROVE Quiet
    BY <1>2 DEF QueueTurn, Asked
<1>3. ASSUME NEW c \in Clients, CancelTurn(c) PROVE Quiet
    BY <1>3 DEF CancelTurn, Asked
<1>4. ASSUME NEW c \in Clients, Reclaim(c) PROVE Quiet
    BY <1>4 DEF Reclaim, Asked
<1>5. ASSUME NEW c \in Clients, RefreshSession(c) PROVE Quiet
    BY <1>5 DEF RefreshSession, Asked
<1>6. ASSUME NEW c \in Clients, CloseClient(c) PROVE Quiet
    BY <1>6 DEF CloseClient, Asked
<1>7. ASSUME NEW c \in Clients, UpkeepStart(c) PROVE Quiet
    BY <1>7 DEF UpkeepStart, Asked
<1>8. ASSUME NEW c \in Clients, DrainEmpty(c) PROVE Quiet
    BY <1>8 DEF DrainEmpty
<1>9. ASSUME NEW c \in Clients, DrainRefused(c) PROVE Quiet
    BY <1>9 DEF DrainRefused
<1>10. ASSUME NEW c \in Clients, FinishRead(c) PROVE Quiet
    BY <1>10 DEF FinishRead
<1>11. ASSUME NEW c \in Clients, FinishWrite(c) PROVE Quiet
    BY <1>11 DEF FinishWrite
<1>12. ASSUME NEW c \in Clients, Probe(c) PROVE Quiet
    BY <1>12 DEF Probe
<1>13. ASSUME NEW c \in Clients, OrphanRow(c) PROVE Quiet
    BY <1>13 DEF OrphanRow
<1>14. ASSUME NEW c \in Clients, OrphanSession(c) PROVE Quiet
    BY <1>14 DEF OrphanSession
<1>15. ASSUME NEW c \in Clients, UpkeepLoopLock(c) PROVE Quiet
    BY <1>15 DEF UpkeepLoopLock
<1>16. ASSUME NEW c \in Clients, UpkeepFlock(c) PROVE Quiet
    BY <1>16 DEF UpkeepFlock
<1>17. ASSUME NEW c \in Clients, UpkeepBegin(c) PROVE Quiet
    BY <1>17 DEF UpkeepBegin
<1>18. ASSUME NEW c \in Clients, UpkeepEnd(c) PROVE Quiet
    BY <1>18 DEF UpkeepEnd
<1>19. ASSUME NEW c \in Clients, DrainPoll(c) PROVE Quiet
    BY <1>19 DEF DrainPoll
<1>20. ASSUME NEW c \in Clients, Sweep(c) PROVE Quiet
    BY <1>20 DEF Sweep, Asked
<1>21. ASSUME NEW c \in Clients, RecordSteer(c) PROVE Quiet
    BY <1>21 DEF RecordSteer
<1>22. ASSUME NEW c \in Clients, NEW t \in Turns, CancelQueued(c, t) PROVE Quiet
    BY <1>22 DEF CancelQueued, Asked
<1>23. ASSUME NEW t \in Turns, TaskLoopLock(t) PROVE Quiet
    BY <1>23 DEF TaskLoopLock
<1>24. ASSUME NEW t \in Turns, TaskFlock(t) PROVE Quiet
    BY <1>24 DEF TaskFlock
<1>25. ASSUME NEW t \in Turns, Ages(t) PROVE Quiet
    BY <1>25 DEF Ages
<1>26. CASE UNCHANGED vars
    BY <1>26 DEF vars
<1> QED
    BY <1>1, <1>2, <1>3, <1>4, <1>5, <1>6, <1>7, <1>8, <1>9, <1>10, <1>11, <1>12, <1>13,
       <1>14, <1>15, <1>16, <1>17, <1>18, <1>19, <1>20, <1>21, <1>22, <1>23, <1>24,
       <1>25, <1>26
    DEF Next, Request, LoopStep, UpkeepStep, TaskStep, TaskAdvance, TaskEnd, Loud

\* Launches, claims and deaths keep launches fresh and running rows served.
LEMMA ServedStep == LInv /\ [Next]_vars => MarksAreFresh' /\ RunningRowsHaveATask'
<1> SUFFICES ASSUME LInv, [Next]_vars PROVE MarksAreFresh' /\ RunningRowsHaveATask'
    OBVIOUS
<1> DEFINE Served == MarksAreFresh /\ RunningRowsHaveATask
<1> USE DEF LInv, IInv, TypeOK, CallsAreSound, RowsAreInOrder, TasksAreStarted, MarksAreFresh,
           RunningRowsHaveATask, RowStatus, Terminal, Driving, Live, Dead, TaskPhase, Call,
           Goto, In, Idle, LoopFree, rowVars, taskVars
<1>1. CASE Quiet
    BY <1>1 DEF Quiet
<1>2. ASSUME NEW c \in Clients, CreateTurn(c) PROVE Served'
    BY <1>2, JobsAreDistinct DEF CreateTurn, NewRow, UpdateRow
<1>3. ASSUME NEW c \in Clients, MarkRunning(c) PROVE Served'
    BY <1>3, JobsAreDistinct DEF MarkRunning, Spawn
<1>4. ASSUME NEW c \in Clients, Enqueue(c) PROVE Served'
    BY <1>4, JobsAreDistinct DEF Enqueue, NewRow, UpdateRow
<1>5. ASSUME NEW c \in Clients, DrainClaim(c) PROVE Served'
    BY <1>5, JobsAreDistinct DEF DrainClaim, Queued, UpdateRow, Spawn
<1>6. ASSUME NEW c \in Clients, Dequeue(c) PROVE Served'
    BY <1>6, JobsAreDistinct DEF Dequeue, UpdateRow
<1>7. ASSUME NEW c \in Clients, CancelRow(c) PROVE Served'
    BY <1>7, JobsAreDistinct DEF CancelRow, UpdateLiveRow
<1>8. ASSUME NEW c \in Clients, OrphanWrite(c) PROVE Served'
  <2>1. status' = [status EXCEPT ![call[c].turn] = call[c].outcome] /\ UNCHANGED task
        BY <1>8 DEF OrphanWrite, UpdateRow
  <2>2. call[c].outcome # "running" /\ call[c].op = "orphanWrite"
        BY <1>8 DEF OrphanWrite
  <2>3. call' = [call EXCEPT ![c] = [op |-> "orphanSession", turn |-> call[c].turn,
                                     outcome |-> call[c].outcome]]
        BY <1>8 DEF OrphanWrite
  <2>4. MarksAreFresh'
        BY <2>1, <2>2, <2>3
  <2>5. RunningRowsHaveATask'
        BY <2>1, <2>2, <2>3
  <2> QED
        BY <2>4, <2>5
<1>9. ASSUME NEW c \in Clients, Crash(c) PROVE Served'
    BY <1>9, JobsAreDistinct DEF Crash
<1>10. ASSUME NEW c \in Clients, NEW t \in Turns, SteerTurn(c, t) PROVE Served'
    BY <1>10, JobsAreDistinct DEF SteerTurn, UpdateLiveRow
<1>11. ASSUME NEW t \in Turns, TaskBegin(t) PROVE Served'
  <2>1. CASE status[t] = "cancelled"
    <3>1. /\ task' = [task EXCEPT ![t] = "ending"] /\ UNCHANGED status
          /\ call' = [call EXCEPT ![owner[t]] = In("finishRead", t, "cancelled")]
          BY <1>11, <2>1 DEF TaskBegin
    <3>2. MarksAreFresh'
          BY <1>11, <3>1 DEF TaskBegin
    <3>3. RunningRowsHaveATask'
          BY <1>11, <2>1, <3>1 DEF TaskBegin
    <3> QED
          BY <3>2, <3>3
  <2>2. CASE status[t] # "cancelled"
        BY <1>11, <2>2, JobsAreDistinct DEF TaskBegin
  <2> QED
        BY <2>1, <2>2
<1>12. ASSUME NEW t \in Turns, TaskResult(t) PROVE Served'
    BY <1>12, JobsAreDistinct DEF TaskResult, UpdateLiveRow
<1>13. ASSUME NEW t \in Turns, TaskFollowUp(t) PROVE Served'
    BY <1>13, JobsAreDistinct DEF TaskFollowUp, UpdateLiveRow
<1>14. ASSUME NEW t \in Turns, TaskComplete(t) PROVE Served'
    BY <1>14, JobsAreDistinct DEF TaskComplete, EndTask, UpdateLiveRow
<1>15. ASSUME NEW t \in Turns, TaskFail(t) PROVE Served'
    BY <1>15, JobsAreDistinct DEF TaskFail, EndTask, UpdateLiveRow
<1>16. ASSUME NEW t \in Turns, TaskCancelled(t) PROVE Served'
    BY <1>16, JobsAreDistinct DEF TaskCancelled
<1>17. ASSUME NEW t \in Turns, TaskRelease(t) PROVE Served'
    BY <1>17, JobsAreDistinct DEF TaskRelease
<1> QED
    BY <1>1, <1>2, <1>3, <1>4, <1>5, <1>6, <1>7, <1>8, <1>9, <1>10, <1>11, <1>12, <1>13,
       <1>14, <1>15, <1>16, <1>17, QuietOrLoud DEF Loud

\* LInv is an invariant: no launch is under way initially, and every step keeps it.
THEOREM ServedInvariance == Spec => []LInv
<1>1. Init => LInv
    BY InitIInv DEF Init, Idle, LInv, MarksAreFresh, RunningRowsHaveATask
<1>2. LInv /\ [Next]_vars => LInv'
    BY ServedStep, TypeStep, LockStep, RowStep, CallStep DEF LInv, IInv, LockInv, RowInv, CallInv
<1> QED
    BY <1>1, <1>2, PTL DEF Spec

\* Claiming, cancelling, steering, sweeping and dying never leave a running row that
\* no coroutine runs, no launch is about to run and no death explains.
THEOREM RunningRowsAreServed == Spec => []RunningRowsHaveATask
<1>1. LInv => RunningRowsHaveATask
    BY DEF LInv
<1> QED
    BY ServedInvariance, <1>1, PTL

\* The drain task or the turn task that keeps queued work moving is never the last to go.
LEMMA DrainerStep ==
    ASSUME IInv, [Next]_vars, QueueHasADrainer, "close" \notin Requests
    PROVE  QueueHasADrainer'
<1> USE DEF IInv, TypeOK, CallsAreSound, QueueHasADrainer, Queued, RowStatus, Terminal, Driving,
           Live, Dead, TaskPhase, rowVars, taskVars, sideVars, boundVars
<1>1. CASE Quiet
    BY <1>1 DEF Quiet
<1>2. ASSUME NEW c \in Clients, CreateTurn(c) PROVE QueueHasADrainer'
    BY <1>2, JobsAreDistinct DEF CreateTurn, NewRow, UpdateRow
<1>3. ASSUME NEW c \in Clients, MarkRunning(c) PROVE QueueHasADrainer'
    BY <1>3, JobsAreDistinct DEF MarkRunning, Spawn
<1>4. ASSUME NEW c \in Clients, Enqueue(c) PROVE QueueHasADrainer'
    BY <1>4, JobsAreDistinct DEF Enqueue, NewRow, UpdateRow
<1>5. ASSUME NEW c \in Clients, DrainClaim(c) PROVE QueueHasADrainer'
    BY <1>5, JobsAreDistinct DEF DrainClaim, UpdateRow, Spawn
<1>6. ASSUME NEW c \in Clients, Dequeue(c) PROVE QueueHasADrainer'
    BY <1>6, JobsAreDistinct DEF Dequeue, UpdateRow
<1>7. ASSUME NEW c \in Clients, CancelRow(c) PROVE QueueHasADrainer'
    BY <1>7, JobsAreDistinct DEF CancelRow, UpdateLiveRow
<1>8. ASSUME NEW c \in Clients, OrphanWrite(c) PROVE QueueHasADrainer'
    BY <1>8, JobsAreDistinct DEF OrphanWrite, UpdateRow
<1>9. ASSUME NEW c \in Clients, Crash(c) PROVE QueueHasADrainer'
    BY <1>9, JobsAreDistinct DEF Crash
<1>10. ASSUME NEW c \in Clients, NEW t \in Turns, SteerTurn(c, t) PROVE QueueHasADrainer'
    BY <1>10, JobsAreDistinct DEF SteerTurn, UpdateLiveRow
<1>11. ASSUME NEW t \in Turns, TaskBegin(t) PROVE QueueHasADrainer'
    BY <1>11, JobsAreDistinct DEF TaskBegin
<1>12. ASSUME NEW t \in Turns, TaskResult(t) PROVE QueueHasADrainer'
    BY <1>12, JobsAreDistinct DEF TaskResult, UpdateLiveRow
<1>13. ASSUME NEW t \in Turns, TaskFollowUp(t) PROVE QueueHasADrainer'
    BY <1>13, JobsAreDistinct DEF TaskFollowUp, UpdateLiveRow
<1>14. ASSUME NEW t \in Turns, TaskComplete(t) PROVE QueueHasADrainer'
    BY <1>14, JobsAreDistinct DEF TaskComplete, EndTask, UpdateLiveRow
<1>15. ASSUME NEW t \in Turns, TaskFail(t) PROVE QueueHasADrainer'
    BY <1>15, JobsAreDistinct DEF TaskFail, EndTask, UpdateLiveRow
<1>16. ASSUME NEW t \in Turns, TaskCancelled(t) PROVE QueueHasADrainer'
    BY <1>16, JobsAreDistinct DEF TaskCancelled
<1>17. ASSUME NEW t \in Turns, TaskRelease(t) PROVE QueueHasADrainer'
    BY <1>17, JobsAreDistinct DEF TaskRelease, LiveTurnsHaveAClient
<1> QED
    BY <1>1, <1>2, <1>3, <1>4, <1>5, <1>6, <1>7, <1>8, <1>9, <1>10, <1>11, <1>12, <1>13,
       <1>14, <1>15, <1>16, <1>17, QuietOrLoud DEF Loud

\* Unless a client is closed or a process dies, queued work always has a drain task or a
\* turn task, whose finally clause schedules one, whatever claims, removals, sweeps and
\* steers race it.
THEOREM QueuedWorkIsServed ==
    ASSUME "close" \notin Requests
    PROVE  Spec => []QueueHasADrainer
<1>1. Init => QueueHasADrainer
    BY DEF Init, QueueHasADrainer, Queued
<1>2. IInv /\ QueueHasADrainer /\ [Next]_vars => QueueHasADrainer'
    BY DrainerStep
<1> QED
    BY <1>1, <1>2, Invariance, PTL DEF Spec

-----------------------------------------------------------------------------
(* What the sweep can tell of a dead turn.                                 *)

\* The stamp of a running row tells whether the turn's last word was a result that needs
\* no validator: a launch finds no stamp, a follow-up response and a steer take it back,
\* and a death keeps it.
StampInv ==
    \A t \in Turns :
        /\ status[t] \in {"none", "queued"} => ~finished[t]
        /\ status[t] = "running" =>
              (finished[t] <=> task[t] \in {"answered", "lostAfter"} /\ ~Validates)

\* A result, a follow-up response and a steer stamp a running row by what comes last.
LEMMA RunningStamp ==
    ASSUME TypeOK, StampInv, NEW t \in Turns, NEW phase \in {"running", "answered"},
           NEW answered \in BOOLEAN, answered <=> phase = "answered" /\ ~Validates,
           task' = [task EXCEPT ![t] = phase], UpdateLiveRow(t, status[t], answered)
    PROVE  StampInv'
<1>1. status' = status
    BY DEF TypeOK, UpdateLiveRow, rowVars
<1>2. finished' = IF status[t] = "running" THEN [finished EXCEPT ![t] = answered] ELSE finished
    BY DEF UpdateLiveRow, rowVars
<1> QED
    BY <1>1, <1>2 DEF TypeOK, StampInv

LEMMA StampStep == LInv /\ StampInv /\ [Next]_vars => StampInv'
<1> SUFFICES ASSUME LInv, StampInv, [Next]_vars PROVE StampInv'
    OBVIOUS
<1> USE DEF LInv, IInv, TypeOK, CallsAreSound, RowsAreInOrder, TasksAreStarted, MarksAreFresh,
           StampInv, RowStatus, Terminal, Driving, Live, Dead, TaskPhase, Call,
           Goto, rowVars, taskVars
<1>1. CASE Quiet
    BY <1>1 DEF Quiet
<1>2. ASSUME NEW c \in Clients, CreateTurn(c) PROVE StampInv'
    BY <1>2, JobsAreDistinct DEF CreateTurn, NewRow, UpdateRow
<1>3. ASSUME NEW c \in Clients, MarkRunning(c) PROVE StampInv'
    BY <1>3, JobsAreDistinct DEF MarkRunning, UpdateSession, Spawn
<1>4. ASSUME NEW c \in Clients, Enqueue(c) PROVE StampInv'
    BY <1>4, JobsAreDistinct DEF Enqueue, NewRow, UpdateRow
<1>5. ASSUME NEW c \in Clients, DrainClaim(c) PROVE StampInv'
    BY <1>5, JobsAreDistinct DEF DrainClaim, OldestQueued, Queued, UpdateRow, UpdateSession, Spawn
<1>6. ASSUME NEW c \in Clients, Dequeue(c) PROVE StampInv'
    BY <1>6, JobsAreDistinct DEF Dequeue, UpdateRow
<1>7. ASSUME NEW c \in Clients, CancelRow(c) PROVE StampInv'
    BY <1>7, JobsAreDistinct DEF CancelRow, UpdateLiveRow
<1>8. ASSUME NEW c \in Clients, OrphanWrite(c) PROVE StampInv'
    BY <1>8, JobsAreDistinct DEF OrphanWrite, UpdateRow
<1>9. ASSUME NEW c \in Clients, Crash(c) PROVE StampInv'
    BY <1>9, JobsAreDistinct DEF Crash
<1>10. ASSUME NEW c \in Clients, NEW t \in Turns, SteerTurn(c, t) PROVE StampInv'
  <2>1. CASE task[t] = "waiting"
        BY <1>10, <2>1 DEF SteerTurn
  <2>2. CASE task[t] # "waiting"
    <3>1. task' = [task EXCEPT ![t] = "running"] /\ UpdateLiveRow(t, status[t], FALSE)
          BY <1>10, <2>2 DEF SteerTurn
    <3> QED
          BY <1>10, <3>1, RunningStamp, JobsAreDistinct
  <2> QED
        BY <2>1, <2>2
<1>11. ASSUME NEW t \in Turns, TaskBegin(t) PROVE StampInv'
    BY <1>11, JobsAreDistinct DEF TaskBegin
<1>12. ASSUME NEW t \in Turns, TaskResult(t) PROVE StampInv'
  <2>1. task' = [task EXCEPT ![t] = "answered"] /\ UpdateLiveRow(t, status[t], ~Validates)
        BY <1>12 DEF TaskResult
  <2> QED
        BY <2>1, RunningStamp, JobsAreDistinct
<1>13. ASSUME NEW t \in Turns, TaskFollowUp(t) PROVE StampInv'
  <2>1. task' = [task EXCEPT ![t] = "running"] /\ UpdateLiveRow(t, status[t], FALSE)
        BY <1>13 DEF TaskFollowUp
  <2> QED
        BY <2>1, RunningStamp, JobsAreDistinct
<1>14. ASSUME NEW t \in Turns, TaskComplete(t) PROVE StampInv'
    BY <1>14, JobsAreDistinct DEF TaskComplete, EndTask, UpdateLiveRow
<1>15. ASSUME NEW t \in Turns, TaskFail(t) PROVE StampInv'
    BY <1>15, JobsAreDistinct DEF TaskFail, EndTask, UpdateLiveRow
<1>16. ASSUME NEW t \in Turns, TaskCancelled(t) PROVE StampInv'
    BY <1>16, JobsAreDistinct DEF TaskCancelled
<1>17. ASSUME NEW t \in Turns, TaskRelease(t) PROVE StampInv'
    BY <1>17, JobsAreDistinct DEF TaskRelease
<1> QED
    BY <1>1, <1>2, <1>3, <1>4, <1>5, <1>6, <1>7, <1>8, <1>9, <1>10, <1>11, <1>12, <1>13,
       <1>14, <1>15, <1>16, <1>17, QuietOrLoud DEF Loud

\* An orphan is judged by its work, whichever client sweeps it: a turn whose process died
\* after a result is completed, one whose process died during a response is failed, and
\* with a validator none is completed without its word.
THEOREM OrphansAreJudgedByTheirWork == Spec => OrphanOutcomeHonest
<1>1. Init => StampInv
    BY DEF Init, StampInv
<1>2. Spec => [](LInv /\ StampInv)
    BY <1>1, StampStep, ServedInvariance, PTL DEF Spec
<1> DEFINE Honest == \A c \in Clients :
          LET t == call[c].turn
          IN  OrphanRow(c) /\ t # NoTurn /\ task[t] \in Dead /\ status[t] = "running"
              => (call'[c].outcome = "completed" <=> task[t] = "lostAfter" /\ ~Validates)
<1>3. LInv /\ StampInv /\ [Next]_vars => [Honest]_vars
  <2> SUFFICES ASSUME LInv, StampInv, NEW c \in Clients, OrphanRow(c), call[c].turn # NoTurn,
                      task[call[c].turn] \in Dead, status[call[c].turn] = "running"
               PROVE  call'[c].outcome = "completed" <=>
                         task[call[c].turn] = "lostAfter" /\ ~Validates
      OBVIOUS
  <2>1. call \in [Clients -> Call] /\ call[c].turn \in Turns
      BY DEF LInv, IInv, TypeOK, Call
  <2>2. call'[c].outcome = IF finished[call[c].turn] THEN "completed" ELSE "failed"
      BY <2>1 DEF OrphanRow, Goto, In, Terminal
  <2>3. finished[call[c].turn] <=> task[call[c].turn] \in {"answered", "lostAfter"} /\ ~Validates
      BY <2>1 DEF StampInv
  <2> QED
      BY <2>2, <2>3 DEF Dead
<1> QED
    BY <1>2, <1>3, PTL DEF Spec, OrphanOutcomeHonest

-----------------------------------------------------------------------------
(* Whose turn the session names.                                           *)

\* The turn the session names has somebody who will clear it: its task before its end, or
\* in it, the launch that is about to spawn its task, or, after a death, the sweep.
ActiveInv ==
    activeTurn # NoTurn =>
        \/ task[activeTurn] \in {"waiting", "running", "answered"} \cup Dead
        \/ /\ task[activeTurn] = "ending"
           /\ call[owner[activeTurn]].op \in {"finishRead", "finishWrite"}
           /\ call[owner[activeTurn]].turn = activeTurn
        \/ \E c \in Clients : call[c].op = "mark" /\ call[c].turn = activeTurn

LEMMA ActiveStep == LInv /\ ActiveInv /\ [Next]_vars => ActiveInv'
<1> SUFFICES ASSUME LInv, ActiveInv, [Next]_vars PROVE ActiveInv'
    OBVIOUS
<1> USE DEF LInv, IInv, TypeOK, LiveTurnsHaveAClient, CallsAreSound, TasksAreStarted, MarksAreFresh,
           EndedTurnsAreTerminal, RunningRowsHaveATask, ActiveInv, RowStatus, Terminal, Driving, Live,
           Dead, TaskPhase, Call, In, Idle, Goto, LoopFree, rowVars, sessionVars, taskVars,
           sideVars, boundVars
<1>1. ASSUME NEW c \in Clients, StartTurn(c) PROVE ActiveInv'
    BY <1>1, JobsAreDistinct DEF StartTurn, Asked
<1>2. ASSUME NEW c \in Clients, QueueTurn(c) PROVE ActiveInv'
    BY <1>2, JobsAreDistinct DEF QueueTurn, Asked
<1>3. ASSUME NEW c \in Clients, CancelTurn(c) PROVE ActiveInv'
    BY <1>3, JobsAreDistinct DEF CancelTurn, Asked
<1>4. ASSUME NEW c \in Clients, Reclaim(c) PROVE ActiveInv'
    BY <1>4, JobsAreDistinct DEF Reclaim, Asked
<1>5. ASSUME NEW c \in Clients, RefreshSession(c) PROVE ActiveInv'
    BY <1>5, JobsAreDistinct DEF RefreshSession, Asked, UpdateSession
<1>6. ASSUME NEW c \in Clients, CloseClient(c) PROVE ActiveInv'
    BY <1>6, JobsAreDistinct DEF CloseClient, Asked
<1>7. ASSUME NEW c \in Clients, UpkeepStart(c) PROVE ActiveInv'
    BY <1>7, JobsAreDistinct DEF UpkeepStart, Asked
<1>8. ASSUME NEW c \in Clients, CreateTurn(c) PROVE ActiveInv'
    BY <1>8, JobsAreDistinct DEF CreateTurn, NewRow, UpdateRow
<1>9. ASSUME NEW c \in Clients, MarkRunning(c) PROVE ActiveInv'
    BY <1>9, JobsAreDistinct DEF MarkRunning, UpdateSession, Spawn
<1>10. ASSUME NEW c \in Clients, Enqueue(c) PROVE ActiveInv'
    BY <1>10, JobsAreDistinct DEF Enqueue, NewRow, UpdateRow
<1>11. ASSUME NEW c \in Clients, DrainEmpty(c) PROVE ActiveInv'
    BY <1>11, JobsAreDistinct DEF DrainEmpty
<1>12. ASSUME NEW c \in Clients, DrainClaim(c) PROVE ActiveInv'
    BY <1>12, JobsAreDistinct DEF DrainClaim, OldestQueued, Queued, UpdateRow, UpdateSession, Spawn
<1>13. ASSUME NEW c \in Clients, DrainRefused(c) PROVE ActiveInv'
    BY <1>13, JobsAreDistinct DEF DrainRefused
<1>14. ASSUME NEW c \in Clients, Dequeue(c) PROVE ActiveInv'
    BY <1>14, JobsAreDistinct DEF Dequeue, UpdateRow
<1>15. ASSUME NEW c \in Clients, CancelRow(c) PROVE ActiveInv'
    BY <1>15, JobsAreDistinct DEF CancelRow, UpdateLiveRow
<1>16. ASSUME NEW c \in Clients, FinishRead(c) PROVE ActiveInv'
    BY <1>16, JobsAreDistinct DEF FinishRead
<1>17. ASSUME NEW c \in Clients, FinishWrite(c) PROVE ActiveInv'
    BY <1>17, JobsAreDistinct DEF FinishWrite, UpdateSession
<1>18. ASSUME NEW c \in Clients, Probe(c) PROVE ActiveInv'
    BY <1>18, JobsAreDistinct DEF Probe
<1>19. ASSUME NEW c \in Clients, OrphanRow(c) PROVE ActiveInv'
    BY <1>19, JobsAreDistinct DEF OrphanRow
<1>20. ASSUME NEW c \in Clients, OrphanWrite(c) PROVE ActiveInv'
    BY <1>20, JobsAreDistinct DEF OrphanWrite, UpdateRow
<1>21. ASSUME NEW c \in Clients, OrphanSession(c) PROVE ActiveInv'
    BY <1>21, JobsAreDistinct DEF OrphanSession, UpdateSession
<1>22. ASSUME NEW c \in Clients, UpkeepLoopLock(c) PROVE ActiveInv'
    BY <1>22, JobsAreDistinct DEF UpkeepLoopLock
<1>23. ASSUME NEW c \in Clients, UpkeepFlock(c) PROVE ActiveInv'
    BY <1>23, JobsAreDistinct DEF UpkeepFlock
<1>24. ASSUME NEW c \in Clients, UpkeepBegin(c) PROVE ActiveInv'
    BY <1>24, JobsAreDistinct DEF UpkeepBegin
<1>25. ASSUME NEW c \in Clients, UpkeepEnd(c) PROVE ActiveInv'
    BY <1>25, JobsAreDistinct DEF UpkeepEnd
<1>26. ASSUME NEW c \in Clients, DrainPoll(c) PROVE ActiveInv'
    BY <1>26, JobsAreDistinct DEF DrainPoll
<1>27. ASSUME NEW c \in Clients, Sweep(c) PROVE ActiveInv'
    BY <1>27, JobsAreDistinct DEF Sweep, Asked
<1>28. ASSUME NEW c \in Clients, RecordSteer(c) PROVE ActiveInv'
    BY <1>28, JobsAreDistinct DEF RecordSteer, UpdateSession
<1>29. ASSUME NEW c \in Clients, Crash(c) PROVE ActiveInv'
    BY <1>29, JobsAreDistinct DEF Crash
<1>30. ASSUME NEW c \in Clients, NEW t \in Turns, CancelQueued(c, t) PROVE ActiveInv'
    BY <1>30, JobsAreDistinct DEF CancelQueued, Asked, Queued
<1>31. ASSUME NEW c \in Clients, NEW t \in Turns, SteerTurn(c, t) PROVE ActiveInv'
    BY <1>31, JobsAreDistinct DEF SteerTurn, Asked, UpdateLiveRow
<1>32. ASSUME NEW t \in Turns, TaskLoopLock(t) PROVE ActiveInv'
    BY <1>32, JobsAreDistinct DEF TaskLoopLock
<1>33. ASSUME NEW t \in Turns, TaskFlock(t) PROVE ActiveInv'
    BY <1>33, JobsAreDistinct DEF TaskFlock
<1>34. ASSUME NEW t \in Turns, TaskBegin(t) PROVE ActiveInv'
  <2>1. CASE status[t] = "cancelled"
    <3>1. /\ task' = [task EXCEPT ![t] = "ending"] /\ UNCHANGED <<activeTurn, owner>>
          /\ call' = [call EXCEPT ![owner[t]] = In("finishRead", t, "cancelled")]
          BY <1>34, <2>1 DEF TaskBegin
    <3>2. owner[t] \in Clients /\ call[owner[t]].op = "idle"
          BY <1>34 DEF TaskBegin
    <3>3. CASE activeTurn = t
          BY <3>1, <3>2, <3>3
    <3>4. CASE activeTurn # t
          BY <3>1, <3>2, <3>4
    <3> QED
          BY <3>3, <3>4
  <2>2. CASE status[t] # "cancelled"
        BY <1>34, <2>2, JobsAreDistinct DEF TaskBegin
  <2> QED
        BY <2>1, <2>2
<1>35. ASSUME NEW t \in Turns, TaskComplete(t) PROVE ActiveInv'
    BY <1>35, JobsAreDistinct DEF TaskComplete, EndTask, UpdateLiveRow
<1>36. ASSUME NEW t \in Turns, TaskFail(t) PROVE ActiveInv'
    BY <1>36, JobsAreDistinct DEF TaskFail, EndTask, UpdateLiveRow
<1>37. ASSUME NEW t \in Turns, TaskCancelled(t) PROVE ActiveInv'
    BY <1>37, JobsAreDistinct DEF TaskCancelled
<1>38. ASSUME NEW t \in Turns, TaskRelease(t) PROVE ActiveInv'
    BY <1>38, JobsAreDistinct DEF TaskRelease
<1>39. ASSUME NEW t \in Turns, TaskResult(t) PROVE ActiveInv'
    BY <1>39, JobsAreDistinct DEF TaskResult, UpdateLiveRow
<1>40. ASSUME NEW t \in Turns, TaskFollowUp(t) PROVE ActiveInv'
    BY <1>40, JobsAreDistinct DEF TaskFollowUp, UpdateLiveRow
<1>41. ASSUME NEW t \in Turns, Ages(t) PROVE ActiveInv'
    BY <1>41, JobsAreDistinct DEF Ages
<1>42. CASE UNCHANGED vars
    BY <1>42 DEF vars
<1> QED
    BY <1>1, <1>2, <1>3, <1>4, <1>5, <1>6, <1>7, <1>8, <1>9, <1>10, <1>11, <1>12, <1>13,
       <1>14, <1>15, <1>16, <1>17, <1>18, <1>19, <1>20, <1>21, <1>22, <1>23, <1>24, <1>25,
       <1>26, <1>27, <1>28, <1>29, <1>30, <1>31, <1>32, <1>33, <1>34, <1>35, <1>36, <1>37,
       <1>38, <1>39, <1>40, <1>41, <1>42
    DEF Next, Request, LoopStep, UpkeepStep, TaskStep, TaskAdvance, TaskEnd

\* However completions, cancellations, sweeps, steers and refreshes of any number of
\* processes interleave, a session that points at an ended turn is being cleared, or
\* belongs to a task that will clear it, or to a process that died.
THEOREM GhostsAreExplained == Spec => []NoGhostSession
<1>1. Init => ActiveInv
    BY DEF Init, ActiveInv
<1>2. LInv /\ ActiveInv => NoGhostSession
    BY DEF LInv, IInv, TypeOK, LiveTurnsHaveAClient, ActiveInv, NoGhostSession, Live, Driving
<1> QED
    BY <1>1, <1>2, ActiveStep, ServedInvariance, PTL DEF Spec

\* Of one client whose sessions are not refreshed: who runs is who the session names, and
\* the code the client is in still sees the session it read.
SingleInv ==
    /\ \A t \in Turns : status[t] = "running" => activeTurn = t
    /\ \A c \in Clients :
          /\ call[c].op = "create" => ~Busy
          /\ call[c].op = "mark" => activeTurn = call[c].turn
          /\ call[c].op \in {"probe", "orphanRow", "orphanWrite", "orphanSession"} =>
                call[c].turn = activeTurn
          /\ call[c].op \in {"finishRead", "finishWrite"} => call[c].turn \in Turns
          /\ call[c].op \in {"orphanSession", "finishRead", "finishWrite"} =>
                \A t \in Turns : t = call[c].turn => status[t] # "running"
          /\ call[c].op = "finishWrite" => activeTurn = call[c].turn
          /\ call[c].op = "dequeue" => status[call[c].turn] = "queued"

LEMMA SingleStep ==
    ASSUME LInv, ActiveInv, SingleInv, [Next]_vars, "refresh" \notin Requests,
           NEW single, Clients = {single}
    PROVE  SingleInv'
<1> USE DEF LInv, IInv, TypeOK, LiveTurnsHaveAClient, CallsAreSound, RowsAreInOrder, TasksAreStarted,
           MarksAreFresh, ActiveTurnExists, EndedTurnsAreTerminal, SingleInv, Busy, RowStatus, Terminal,
           Driving, Live, Dead, TaskPhase, Call, In, Idle, Goto, LoopFree, rowVars,
           sessionVars, taskVars, sideVars, boundVars
<1>1. ASSUME NEW c \in Clients, StartTurn(c) PROVE SingleInv'
    BY <1>1, JobsAreDistinct DEF StartTurn, Asked
<1>2. ASSUME NEW c \in Clients, QueueTurn(c) PROVE SingleInv'
    BY <1>2, JobsAreDistinct DEF QueueTurn, Asked
<1>3. ASSUME NEW c \in Clients, CancelTurn(c) PROVE SingleInv'
    BY <1>3, JobsAreDistinct DEF CancelTurn, Asked
<1>4. ASSUME NEW c \in Clients, Reclaim(c) PROVE SingleInv'
    BY <1>4, JobsAreDistinct DEF Reclaim, Asked
<1>5. ASSUME NEW c \in Clients, RefreshSession(c) PROVE SingleInv'
    BY <1>5, JobsAreDistinct DEF RefreshSession, Asked, UpdateSession
<1>6. ASSUME NEW c \in Clients, CloseClient(c) PROVE SingleInv'
    BY <1>6, JobsAreDistinct DEF CloseClient, Asked
<1>7. ASSUME NEW c \in Clients, UpkeepStart(c) PROVE SingleInv'
    BY <1>7, JobsAreDistinct DEF UpkeepStart, Asked
<1>8. ASSUME NEW c \in Clients, CreateTurn(c) PROVE SingleInv'
    BY <1>8, JobsAreDistinct DEF CreateTurn, NewRow, UpdateRow
<1>9. ASSUME NEW c \in Clients, MarkRunning(c) PROVE SingleInv'
    BY <1>9, JobsAreDistinct DEF MarkRunning, UpdateSession, Spawn
<1>10. ASSUME NEW c \in Clients, Enqueue(c) PROVE SingleInv'
    BY <1>10, JobsAreDistinct DEF Enqueue, NewRow, UpdateRow
<1>11. ASSUME NEW c \in Clients, DrainEmpty(c) PROVE SingleInv'
    BY <1>11, JobsAreDistinct DEF DrainEmpty
<1>12. ASSUME NEW c \in Clients, DrainClaim(c) PROVE SingleInv'
    BY <1>12, JobsAreDistinct DEF DrainClaim, OldestQueued, Queued, UpdateRow, UpdateSession, Spawn
<1>13. ASSUME NEW c \in Clients, DrainRefused(c) PROVE SingleInv'
    BY <1>13, JobsAreDistinct DEF DrainRefused
<1>14. ASSUME NEW c \in Clients, Dequeue(c) PROVE SingleInv'
    BY <1>14, JobsAreDistinct DEF Dequeue, UpdateRow
<1>15. ASSUME NEW c \in Clients, CancelRow(c) PROVE SingleInv'
    BY <1>15, JobsAreDistinct DEF CancelRow, UpdateLiveRow
<1>16. ASSUME NEW c \in Clients, FinishRead(c) PROVE SingleInv'
    BY <1>16, JobsAreDistinct DEF FinishRead
<1>17. ASSUME NEW c \in Clients, FinishWrite(c) PROVE SingleInv'
    BY <1>17, JobsAreDistinct DEF FinishWrite, UpdateSession
<1>18. ASSUME NEW c \in Clients, Probe(c) PROVE SingleInv'
    BY <1>18, JobsAreDistinct DEF Probe
<1>19. ASSUME NEW c \in Clients, OrphanRow(c) PROVE SingleInv'
    BY <1>19, JobsAreDistinct DEF OrphanRow
<1>20. ASSUME NEW c \in Clients, OrphanWrite(c) PROVE SingleInv'
    BY <1>20, JobsAreDistinct DEF OrphanWrite, UpdateRow
<1>21. ASSUME NEW c \in Clients, OrphanSession(c) PROVE SingleInv'
    BY <1>21, JobsAreDistinct DEF OrphanSession, UpdateSession
<1>22. ASSUME NEW c \in Clients, UpkeepLoopLock(c) PROVE SingleInv'
    BY <1>22, JobsAreDistinct DEF UpkeepLoopLock
<1>23. ASSUME NEW c \in Clients, UpkeepFlock(c) PROVE SingleInv'
    BY <1>23, JobsAreDistinct DEF UpkeepFlock
<1>24. ASSUME NEW c \in Clients, UpkeepBegin(c) PROVE SingleInv'
    BY <1>24, JobsAreDistinct DEF UpkeepBegin
<1>25. ASSUME NEW c \in Clients, UpkeepEnd(c) PROVE SingleInv'
    BY <1>25, JobsAreDistinct DEF UpkeepEnd
<1>26. ASSUME NEW c \in Clients, DrainPoll(c) PROVE SingleInv'
    BY <1>26, JobsAreDistinct DEF DrainPoll
<1>27. ASSUME NEW c \in Clients, Sweep(c) PROVE SingleInv'
    BY <1>27, JobsAreDistinct DEF Sweep, Asked
<1>28. ASSUME NEW c \in Clients, RecordSteer(c) PROVE SingleInv'
    BY <1>28, JobsAreDistinct DEF RecordSteer, UpdateSession
<1>29. ASSUME NEW c \in Clients, Crash(c) PROVE SingleInv'
    BY <1>29, JobsAreDistinct DEF Crash
<1>30. ASSUME NEW c \in Clients, NEW t \in Turns, CancelQueued(c, t) PROVE SingleInv'
    BY <1>30, JobsAreDistinct DEF CancelQueued, Asked, Queued
<1>31. ASSUME NEW c \in Clients, NEW t \in Turns, SteerTurn(c, t) PROVE SingleInv'
    BY <1>31, JobsAreDistinct DEF SteerTurn, Asked, UpdateLiveRow
<1>32. ASSUME NEW t \in Turns, TaskLoopLock(t) PROVE SingleInv'
    BY <1>32, JobsAreDistinct DEF TaskLoopLock
<1>33. ASSUME NEW t \in Turns, TaskFlock(t) PROVE SingleInv'
    BY <1>33, JobsAreDistinct DEF TaskFlock
<1>34. ASSUME NEW t \in Turns, TaskBegin(t) PROVE SingleInv'
    BY <1>34, JobsAreDistinct DEF TaskBegin
<1>35. ASSUME NEW t \in Turns, TaskComplete(t) PROVE SingleInv'
    BY <1>35, JobsAreDistinct DEF TaskComplete, EndTask, UpdateLiveRow
<1>36. ASSUME NEW t \in Turns, TaskFail(t) PROVE SingleInv'
    BY <1>36, JobsAreDistinct DEF TaskFail, EndTask, UpdateLiveRow
<1>37. ASSUME NEW t \in Turns, TaskCancelled(t) PROVE SingleInv'
    BY <1>37, JobsAreDistinct DEF TaskCancelled
<1>38. ASSUME NEW t \in Turns, TaskRelease(t) PROVE SingleInv'
    BY <1>38, JobsAreDistinct DEF TaskRelease
<1>39. ASSUME NEW t \in Turns, TaskResult(t) PROVE SingleInv'
    BY <1>39, JobsAreDistinct DEF TaskResult, UpdateLiveRow
<1>40. ASSUME NEW t \in Turns, TaskFollowUp(t) PROVE SingleInv'
    BY <1>40, JobsAreDistinct DEF TaskFollowUp, UpdateLiveRow
<1>41. ASSUME NEW t \in Turns, Ages(t) PROVE SingleInv'
    BY <1>41, JobsAreDistinct DEF Ages
<1>42. CASE UNCHANGED vars
    BY <1>42 DEF vars
<1> QED
    BY <1>1, <1>2, <1>3, <1>4, <1>5, <1>6, <1>7, <1>8, <1>9, <1>10, <1>11, <1>12, <1>13,
       <1>14, <1>15, <1>16, <1>17, <1>18, <1>19, <1>20, <1>21, <1>22, <1>23, <1>24, <1>25,
       <1>26, <1>27, <1>28, <1>29, <1>30, <1>31, <1>32, <1>33, <1>34, <1>35, <1>36, <1>37,
       <1>38, <1>39, <1>40, <1>41, <1>42
    DEF Next, Request, LoopStep, UpkeepStep, TaskStep, TaskAdvance, TaskEnd

LEMMA SingleInvariance ==
    ASSUME "refresh" \notin Requests, NEW single, Clients = {single}
    PROVE  Spec => [](LInv /\ SingleInv)
<1>1. Init => ActiveInv /\ SingleInv
    BY DEF Init, Idle, ActiveInv, SingleInv
<1>2. LInv /\ ActiveInv /\ SingleInv /\ [Next]_vars => SingleInv'
    BY SingleStep
<1> QED
    BY <1>1, <1>2, ActiveStep, ServedInvariance, PTL DEF Spec

\* One client keeps its session exact, through sweeps, cancellations, steers recorded late
\* and deaths: the turn whose row runs is the one the session names.  (With a second
\* client, or a refresh of the session, it is not.)
THEOREM OneClientKnowsItsTurn ==
    ASSUME "refresh" \notin Requests, NEW single, Clients = {single}
    PROVE  Spec => []RunningTurnIsActive
<1>1. SingleInv => RunningTurnIsActive
    BY DEF SingleInv, RunningTurnIsActive
<1> QED
    BY <1>1, SingleInvariance, PTL

\* What one client takes out of its queue is still queued when the row is written, as no
\* await separates the look from the write.  (With two, a drain of the other claims it in
\* between.)
THEOREM OneClientDequeuesQueued ==
    ASSUME "refresh" \notin Requests, NEW single, Clients = {single}
    PROVE  Spec => StartedTurnsAreNotDequeued
<1> DEFINE Safe == \A c \in Clients : Dequeue(c) => status[call[c].turn] = "queued"
<1>1. SingleInv => [Safe]_vars
    BY DEF SingleInv, Dequeue
<1> QED
    BY <1>1, SingleInvariance, PTL DEF StartedTurnsAreNotDequeued

-----------------------------------------------------------------------------
(* TurnContract is implemented: the refinement mapping.                    *)

PhaseOf(k, s) ==
    CASE k = "done" -> "released"
      [] k \in Dead -> "lost"
      [] OTHER -> CASE s = "none" -> "absent"
                    [] s = "queued" -> "accepted"
                    [] s = "running" -> "running"
                    [] OTHER -> "settled"

DriverOf(tasks) ==
    IF \E t \in Turns : tasks[t] \in Driving
    THEN CHOOSE t \in Turns : tasks[t] \in Driving
    ELSE NoTurn

PhaseMap == [t \in Turns |-> PhaseOf(task[t], status[t])]
DriverMap == DriverOf(task)

\* What the mapping says of a turn whose task is neither finished nor lost.
LEMMA PhaseFacts ==
    ASSUME NEW k \in TaskPhase, NEW s \in RowStatus
    PROVE  /\ k = "done" => PhaseOf(k, s) = "released"
           /\ k \in Dead => PhaseOf(k, s) = "lost"
           /\ k \in {"none"} \cup Live =>
                 /\ s = "none" => PhaseOf(k, s) = "absent"
                 /\ s = "queued" => PhaseOf(k, s) = "accepted"
                 /\ s = "running" => PhaseOf(k, s) = "running"
                 /\ s \in Terminal => PhaseOf(k, s) = "settled"
BY DEF PhaseOf, TaskPhase, RowStatus, Terminal, Live, Driving, Dead

\* With one turn at most inside the region, the mapping's driver is that turn.
LEMMA DriverFacts ==
    ASSUME NEW tasks, \A t, u \in Turns : tasks[t] \in Driving /\ tasks[u] \in Driving => t = u
    PROVE  /\ \A t \in Turns : tasks[t] \in Driving => DriverOf(tasks) = t
           /\ (\A t \in Turns : tasks[t] \notin Driving) => DriverOf(tasks) = NoTurn
BY DEF DriverOf

ContractVars == <<PhaseMap, DriverMap, crashes>>

\* The steps of the contract, in terms of the mapping: a turn is accepted.
LEMMA ContractAccept ==
    ASSUME NEW t \in Turns, PhaseMap[t] = "absent",
           PhaseMap' = [PhaseMap EXCEPT ![t] = "accepted"], UNCHANGED <<DriverMap, crashes>>
    PROVE  Contract!Next
BY DEF Contract!Next, Contract!Accept, Contract!Move, PhaseMap, PhaseOf, DriverMap, DriverOf,
       ContractPhase

\* A turn starts: it is launched at once, or claimed from the queue.
LEMMA ContractStart ==
    ASSUME NEW t \in Turns, PhaseMap[t] \in {"absent", "accepted"},
           PhaseMap' = [PhaseMap EXCEPT ![t] = "running"], UNCHANGED <<DriverMap, crashes>>
    PROVE  Contract!Next
BY DEF Contract!Next, Contract!Start, Contract!Move, PhaseMap, PhaseOf, DriverMap, DriverOf,
       ContractPhase

\* A turn gets its outcome.
LEMMA ContractSettle ==
    ASSUME NEW t \in Turns, PhaseMap[t] \in {"accepted", "running"},
           PhaseMap' = [PhaseMap EXCEPT ![t] = "settled"], UNCHANGED <<DriverMap, crashes>>
    PROVE  Contract!Next
BY DEF Contract!Next, Contract!Settle, Contract!Move, PhaseMap, PhaseOf, DriverMap, DriverOf,
       ContractPhase

\* A started turn enters the locked region, which is empty.
LEMMA ContractDrive ==
    ASSUME NEW t \in Turns, PhaseMap[t] \in {"running", "settled"}, DriverMap = NoTurn,
           DriverMap' = t, UNCHANGED <<PhaseMap, crashes>>
    PROVE  Contract!Next
BY DEF Contract!Next, Contract!Drive, PhaseMap, PhaseOf, DriverMap, DriverOf, ContractPhase

\* A settled turn leaves the locked region.
LEMMA ContractGiveWay ==
    ASSUME NEW t \in Turns, PhaseMap[t] = "settled", DriverMap = t,
           PhaseMap' = [PhaseMap EXCEPT ![t] = "released"], DriverMap' = NoTurn, UNCHANGED crashes
    PROVE  Contract!Next
BY DEF Contract!Next, Contract!GiveWay, Contract!Move, PhaseMap, PhaseOf, DriverMap, DriverOf,
       ContractPhase

\* A process dies with the turns it had launched.
LEMMA ContractDie ==
    ASSUME NEW gone \in SUBSET Turns, \A t \in gone : PhaseMap[t] \in {"running", "settled"},
           PhaseMap' = [t \in Turns |-> IF t \in gone THEN "lost" ELSE PhaseMap[t]],
           DriverMap' = IF DriverMap \in gone THEN NoTurn ELSE DriverMap,
           crashes' = crashes + 1
    PROVE  Contract!Next
BY DEF Contract!Next, Contract!Die, PhaseMap, PhaseOf, DriverMap, DriverOf, ContractPhase

ContractStep == Contract!Next \/ UNCHANGED ContractVars

\* A write to one row settles its turn, or is invisible to the contract.
LEMMA RowWrite ==
    ASSUME IInv, NEW t \in Turns, NEW s \in Terminal, status[t] # "none",
           status' = [status EXCEPT ![t] = s], UNCHANGED <<task, crashes>>
    PROVE  ContractStep
<1>1. UNCHANGED DriverMap
    BY DEF DriverMap
<1>2. task[t] \in TaskPhase /\ status[t] \in RowStatus /\ s \in RowStatus /\ status'[t] = s
    BY DEF IInv, TypeOK, RowStatus
<1>3. PhaseMap' = [PhaseMap EXCEPT ![t] = PhaseOf(task[t], s)]
    BY DEF PhaseMap, IInv, TypeOK
<1>4. PhaseMap[t] = PhaseOf(task[t], status[t]) /\ PhaseMap = [PhaseMap EXCEPT ![t] = @]
    BY DEF PhaseMap
<1>5. CASE task[t] \in {"done"} \cup Dead
  <2>1. PhaseOf(task[t], s) = PhaseOf(task[t], status[t])
      BY <1>2, <1>5, PhaseFacts
  <2> QED
      BY <1>1, <1>3, <1>4, <2>1 DEF ContractStep, ContractVars
<1>6. CASE task[t] \in {"none"} \cup Live
  <2>1. PhaseOf(task[t], s) = "settled"
      BY <1>2, <1>6, PhaseFacts
  <2>2. CASE status[t] \in Terminal
    <3>1. PhaseOf(task[t], status[t]) = "settled"
        BY <1>2, <1>6, <2>2, PhaseFacts
    <3> QED
        BY <1>1, <1>3, <1>4, <2>1, <3>1 DEF ContractStep, ContractVars
  <2>3. CASE status[t] \in {"queued", "running"}
    <3>1. PhaseOf(task[t], status[t]) \in {"accepted", "running"}
        BY <1>2, <1>6, <2>3, PhaseFacts
    <3> QED
        BY <1>1, <1>3, <1>4, <2>1, <3>1, ContractSettle DEF ContractStep
  <2> QED
      BY <1>2, <2>2, <2>3 DEF RowStatus
<1> QED
    BY <1>2, <1>5, <1>6 DEF TaskPhase

\* A step whose task stays outside, or stays inside, the region and that writes no
\* row is invisible to the contract.
LEMMA TaskMove ==
    ASSUME IInv, IInv', NEW t \in Turns, NEW k \in {"none"} \cup Live,
           task[t] \in {"none"} \cup Live, task[t] \in Driving <=> k \in Driving,
           task' = [task EXCEPT ![t] = k], UNCHANGED <<status, crashes>>
    PROVE  UNCHANGED ContractVars
<1>1. \A u \in Turns : task'[u] \in Driving <=> task[u] \in Driving
    BY DEF IInv, TypeOK
<1>2. UNCHANGED DriverMap
    BY <1>1 DEF DriverMap, DriverOf
<1>3. UNCHANGED PhaseMap
    BY DEF PhaseMap, PhaseOf, IInv, TypeOK, Live, Driving, Dead
<1> QED
    BY <1>2, <1>3 DEF ContractVars

\* A turn that leaves the stream settles, unless a cancellation or a sweep settled it first.
LEMMA EndStep ==
    ASSUME IInv, IInv', NEW t \in Turns, NEW s \in Terminal, NEW answered,
           task[t] \in {"running", "answered"}, EndTask(t, s, answered)
    PROVE  ContractStep
<1>1. task' = [task EXCEPT ![t] = "ending"] /\ UNCHANGED crashes
    BY DEF EndTask, boundVars
<1>2. task[t] \in TaskPhase /\ status[t] \in RowStatus /\ s \in RowStatus
    BY DEF IInv, TypeOK, RowStatus
<1>3. CASE status[t] = "running"
  <2>1. status' = [status EXCEPT ![t] = s]
      BY <1>3 DEF EndTask, UpdateLiveRow
  <2>2. \A u \in Turns : task'[u] \in Driving <=> task[u] \in Driving
      BY <1>1 DEF IInv, TypeOK, Driving
  <2>3. UNCHANGED DriverMap
      BY <2>2 DEF DriverMap, DriverOf
  <2>4. PhaseMap[t] = "running"
      BY <1>2, <1>3, PhaseFacts DEF PhaseMap, Live, Driving
  <2>5. PhaseMap' = [PhaseMap EXCEPT ![t] = PhaseOf("ending", s)]
      BY <1>1, <2>1 DEF PhaseMap, IInv, TypeOK
  <2>6. PhaseOf("ending", s) = "settled"
      BY <1>2, PhaseFacts DEF TaskPhase, Live, Driving
  <2> QED
      BY <1>1, <2>3, <2>4, <2>5, <2>6, ContractSettle DEF ContractStep
<1>4. CASE status[t] # "running"
  <2>1. UNCHANGED status
      BY <1>4 DEF EndTask, UpdateLiveRow, rowVars
  <2> QED
      BY <1>1, <2>1, TaskMove DEF ContractStep, Live, Driving
<1> QED
    BY <1>3, <1>4

\* A process dies: the turns it loses were running or settled, and no turn drives after
\* it unless another process's did before.
LEMMA CrashStep ==
    ASSUME LInv, LInv', NEW c \in Clients, Crash(c)
    PROVE  ContractStep
<1> DEFINE gone == {t \in Turns : task'[t] # task[t]}
<1>1. /\ task \in [Turns -> TaskPhase] /\ status \in [Turns -> RowStatus]
      /\ UNCHANGED status /\ crashes' = crashes + 1
    BY DEF LInv, IInv, TypeOK, Crash, rowVars
<1>2. \A t \in Turns : t \in gone => task'[t] \in Dead /\ task[t] \in {"none"} \cup Live
    BY <1>1 DEF Crash, LInv, MarksAreFresh, Live, Driving, Dead
<1>3. \A t \in gone : status[t] \in {"running"} \cup Terminal
  <2> SUFFICES ASSUME NEW t \in gone PROVE status[t] \notin {"none", "queued"}
      BY <1>1 DEF RowStatus
  <2>1. CASE task[t] # "none"
      BY <2>1 DEF LInv, IInv, TasksAreStarted
  <2>2. CASE task[t] = "none"
    <3>1. call[c].op = "mark" /\ call[c].turn = t
        BY <1>1, <2>2 DEF Crash, Live, Driving
    <3> QED
        BY <3>1 DEF LInv, IInv, CallsAreSound
  <2> QED
      BY <2>1, <2>2
<1>4. \A t \in gone : PhaseMap[t] \in {"running", "settled"}
    BY <1>1, <1>2, <1>3, PhaseFacts DEF PhaseMap, RowStatus, Terminal
<1>5. PhaseMap' = [t \in Turns |-> IF t \in gone THEN "lost" ELSE PhaseMap[t]]
  <2>1. \A t \in Turns : PhaseOf(task'[t], status'[t]) = IF t \in gone THEN "lost" ELSE PhaseMap[t]
      BY <1>1, <1>2 DEF PhaseMap, PhaseOf, Dead
  <2> QED
      BY <2>1 DEF PhaseMap
<1>6. DriverMap' = IF DriverMap \in gone THEN NoTurn ELSE DriverMap
  <2>1. /\ \A u, v \in Turns : task[u] \in Driving /\ task[v] \in Driving => u = v
        /\ \A u, v \in Turns : task'[u] \in Driving /\ task'[v] \in Driving => u = v
      BY DEF LInv, IInv, LocksAreHeld, HoldsLocks
  <2>2. CASE \E t \in Turns : task[t] \in Driving
    <3>1. PICK d \in Turns : task[d] \in Driving
        BY <2>2
    <3>2. DriverMap = d
        BY <2>1, <3>1, DriverFacts DEF DriverMap
    <3>3. \A t \in Turns : task'[t] \in Driving => t = d
        BY <1>2, <2>1, <3>1 DEF Driving, Dead
    <3>4. CASE d \in gone
      <4>1. \A t \in Turns : task'[t] \notin Driving
          BY <1>2, <3>3, <3>4 DEF Driving, Dead
      <4> QED
          BY <3>2, <3>4, <4>1, DriverFacts DEF DriverMap
    <3>5. CASE d \notin gone
      <4>1. task'[d] \in Driving
          BY <3>1, <3>5
      <4> QED
          BY <2>1, <3>2, <3>5, <4>1, DriverFacts DEF DriverMap
    <3> QED
        BY <3>4, <3>5
  <2>3. CASE \A t \in Turns : task[t] \notin Driving
    <3>1. \A t \in Turns : task'[t] \notin Driving
        BY <1>2, <2>3 DEF Driving, Dead
    <3> QED
        BY <2>3, <3>1, DriverFacts, JobsAreDistinct DEF DriverMap
  <2> QED
      BY <2>2, <2>3
<1> QED
    BY <1>1, <1>4, <1>5, <1>6, ContractDie DEF ContractStep

\* Entering and leaving the locked region are the contract's Drive and GiveWay.
LEMMA RegionStep ==
    ASSUME IInv, IInv', NEW t \in Turns, TaskBegin(t) \/ TaskRelease(t)
    PROVE  ContractStep
<1>1. /\ task \in [Turns -> TaskPhase] /\ status \in [Turns -> RowStatus]
      /\ UNCHANGED status /\ UNCHANGED crashes
    BY DEF IInv, TypeOK, TaskBegin, TaskRelease, rowVars, boundVars
<1>2. /\ \A u, v \in Turns : task[u] \in Driving /\ task[v] \in Driving => u = v
      /\ \A u, v \in Turns : task'[u] \in Driving /\ task'[v] \in Driving => u = v
    BY DEF IInv, LocksAreHeld, HoldsLocks
<1>3. CASE TaskBegin(t)
  <2>1. PICK k \in {"running", "ending"} : task' = [task EXCEPT ![t] = k]
      BY <1>3 DEF TaskBegin
  <2>2. \A u \in Turns : task[u] \notin Driving
      BY <1>3 DEF TaskBegin, IInv, LocksAreHeld, HoldsLocks, Driving
  <2>3. DriverMap = NoTurn /\ DriverMap' = t
    <3>1. task'[t] \in Driving
        BY <1>1, <2>1 DEF Driving
    <3>2. DriverMap = NoTurn
        BY <1>2, <2>2, DriverFacts DEF DriverMap
    <3>3. DriverMap' = t
        BY <1>2, <3>1, DriverFacts DEF DriverMap
    <3> QED
        BY <3>2, <3>3
  <2>4. UNCHANGED PhaseMap
      BY <1>1, <1>3, <2>1 DEF TaskBegin, PhaseMap, PhaseOf, Dead
  <2>5. status[t] \in {"running"} \cup Terminal
      BY <1>1, <1>3 DEF TaskBegin, IInv, TasksAreStarted, RowStatus
  <2>6. PhaseMap[t] \in {"running", "settled"}
      BY <1>1, <1>3, <2>5, PhaseFacts DEF TaskBegin, PhaseMap, Live
  <2> QED
      BY <1>1, <2>3, <2>4, <2>6, ContractDrive DEF ContractStep
<1>4. CASE TaskRelease(t)
  <2>1. task[t] = "ending" /\ task' = [task EXCEPT ![t] = "done"]
      BY <1>4 DEF TaskRelease
  <2>2. DriverMap = t
      BY <1>2, <2>1, DriverFacts DEF DriverMap, Driving
  <2>3. \A u \in Turns : task'[u] \notin Driving
      BY <1>1, <1>2, <2>1 DEF Driving
  <2>4. DriverMap' = NoTurn
      BY <1>2, <2>3, DriverFacts DEF DriverMap
  <2>5. status[t] \in Terminal
      BY <2>1 DEF IInv, EndedTurnsAreTerminal
  <2>6. PhaseMap[t] = "settled"
      BY <1>1, <2>1, <2>5, PhaseFacts DEF PhaseMap, Live, Driving
  <2>7. PhaseMap' = [PhaseMap EXCEPT ![t] = "released"]
    <3>1. PhaseMap' = [PhaseMap EXCEPT ![t] = PhaseOf("done", status[t])]
        BY <1>1, <2>1 DEF PhaseMap
    <3>2. PhaseOf("done", status[t]) = "released"
        BY <1>1, PhaseFacts DEF TaskPhase
    <3> QED
        BY <3>1, <3>2
  <2> QED
      BY <1>1, <2>2, <2>4, <2>6, <2>7, ContractGiveWay DEF ContractStep
<1> QED
    BY <1>3, <1>4

\* A new row is accepted or started; a launch is invisible; a claim starts its turn.
LEMMA LaunchStep ==
    ASSUME LInv, LInv', NEW c \in Clients,
           CreateTurn(c) \/ Enqueue(c) \/ MarkRunning(c) \/ DrainClaim(c)
    PROVE  ContractStep
<1>1. /\ task \in [Turns -> TaskPhase] /\ status \in [Turns -> RowStatus] /\ created \in Nat
      /\ UNCHANGED crashes
    BY JobsAreDistinct
    DEF LInv, IInv, TypeOK, CreateTurn, Enqueue, MarkRunning, DrainClaim, boundVars
<1>2. CASE CreateTurn(c) \/ Enqueue(c)
  <2>1. PICK s \in {"running", "queued"} : NewRow(s)
      BY <1>2 DEF CreateTurn, Enqueue
  <2> DEFINE t == created + 1
  <2>2. t \in Turns /\ status[t] = "none" /\ task[t] = "none"
      BY <1>1, <2>1, JobsAreDistinct DEF NewRow, LInv, IInv, RowsAreInOrder, TasksAreStarted
  <2>3. status' = [status EXCEPT ![t] = s] /\ UNCHANGED task
      BY <1>2, <2>1 DEF NewRow, UpdateRow, CreateTurn, Enqueue, taskVars
  <2>4. UNCHANGED DriverMap
      BY <2>3 DEF DriverMap
  <2>5. PhaseMap[t] = "absent"
      BY <1>1, <2>2, PhaseFacts DEF PhaseMap
  <2>6. PhaseMap' = [PhaseMap EXCEPT ![t] = PhaseOf("none", s)]
      BY <1>1, <2>2, <2>3 DEF PhaseMap
  <2>7. PhaseOf("none", s) \in {"running", "accepted"}
      BY PhaseFacts DEF TaskPhase, RowStatus
  <2> HIDE DEF t
  <2> QED
      BY <1>1, <2>2, <2>4, <2>5, <2>6, <2>7, ContractAccept, ContractStart DEF ContractStep
<1>3. CASE MarkRunning(c)
  <2> DEFINE t == call[c].turn
  <2>1. t \in Turns /\ task[t] = "none"
      BY <1>3 DEF MarkRunning, LInv, IInv, CallsAreSound, MarksAreFresh
  <2>2. task' = [task EXCEPT ![t] = "waiting"] /\ UNCHANGED status
      BY <1>3 DEF MarkRunning, Spawn, rowVars
  <2> HIDE DEF t
  <2> QED
      BY <1>1, <2>1, <2>2, TaskMove DEF LInv, ContractStep, Live, Driving
<1>4. CASE DrainClaim(c)
  <2>1. PICK t \in Turns : /\ status[t] = "queued"
                           /\ status' = [status EXCEPT ![t] = "running"]
                           /\ task' = [task EXCEPT ![t] = "waiting"]
      BY <1>4 DEF DrainClaim, Queued, UpdateRow, Spawn
  <2>2. task[t] = "none"
      BY <2>1 DEF LInv, IInv, TasksAreStarted
  <2>3. \A u \in Turns : task'[u] \in Driving <=> task[u] \in Driving
      BY <1>1, <2>1, <2>2 DEF Driving
  <2>4. UNCHANGED DriverMap
      BY <2>3 DEF DriverMap, DriverOf
  <2>5. PhaseMap[t] = "accepted"
      BY <1>1, <2>1, <2>2, PhaseFacts DEF PhaseMap
  <2>6. PhaseMap' = [PhaseMap EXCEPT ![t] = PhaseOf("waiting", "running")]
      BY <1>1, <2>1 DEF PhaseMap
  <2>7. PhaseOf("waiting", "running") = "running"
      BY PhaseFacts DEF TaskPhase, RowStatus, Live
  <2> QED
      BY <1>1, <2>4, <2>5, <2>6, <2>7, ContractStart DEF ContractStep
<1> QED
    BY <1>2, <1>3, <1>4

\* Results, follow-ups and steers keep a running turn running and settle nothing.
LEMMA StreamStep ==
    ASSUME IInv, IInv', NEW t \in Turns, NEW c \in Clients,
           TaskResult(t) \/ TaskFollowUp(t) \/ SteerTurn(c, t) \/ TaskCancelled(t)
    PROVE  ContractStep
<1>1. task \in [Turns -> TaskPhase] /\ status \in [Turns -> RowStatus]
    BY DEF IInv, TypeOK
<1>2. UNCHANGED <<status, crashes>>
  <2>1. CASE \E answered \in BOOLEAN : UpdateLiveRow(t, status[t], answered)
      BY <1>1, <2>1 DEF UpdateLiveRow, TaskResult, TaskFollowUp, SteerTurn, TaskCancelled,
         rowVars, boundVars
  <2>2. CASE UNCHANGED rowVars
      BY <2>2 DEF TaskResult, TaskFollowUp, SteerTurn, TaskCancelled, rowVars, boundVars
  <2> QED
      BY <2>1, <2>2, JobsAreDistinct DEF TaskResult, TaskFollowUp, SteerTurn, TaskCancelled
<1>3. CASE UNCHANGED task
    BY <1>2, <1>3 DEF ContractStep, ContractVars, PhaseMap, DriverMap
<1>4. CASE task[t] \in {"running", "answered"}
  <2>1. PICK k \in {"running", "answered", "ending"} : task' = [task EXCEPT ![t] = k]
      BY <1>4 DEF TaskResult, TaskFollowUp, SteerTurn, TaskCancelled
  <2> QED
      BY <1>2, <1>4, <2>1, TaskMove DEF ContractStep, Live, Driving
<1> QED
    BY <1>3, <1>4 DEF TaskResult, TaskFollowUp, SteerTurn, TaskCancelled

\* Every step of every client is a step of the contract, or invisible to it.
LEMMA StepsImplement == LInv /\ LInv' /\ [Next]_vars => ContractStep
<1> SUFFICES ASSUME LInv, LInv', [Next]_vars PROVE ContractStep
    OBVIOUS
<1> USE DEF LInv
<1>1. CASE Quiet
    BY <1>1 DEF Quiet, ContractStep, ContractVars, PhaseMap, DriverMap
<1>2. ASSUME NEW c \in Clients,
             CreateTurn(c) \/ Enqueue(c) \/ MarkRunning(c) \/ DrainClaim(c)
      PROVE  ContractStep
    BY <1>2, LaunchStep
<1>3. ASSUME NEW c \in Clients, Dequeue(c) PROVE ContractStep
  <2>1. /\ call[c].turn \in Turns /\ status[call[c].turn] # "none"
        /\ status' = [status EXCEPT ![call[c].turn] = "cancelled"]
        /\ UNCHANGED <<task, crashes>>
      BY <1>3 DEF Dequeue, UpdateRow, IInv, CallsAreSound, taskVars, boundVars
  <2> QED
      BY <2>1, RowWrite DEF Terminal
<1>4. ASSUME NEW c \in Clients, CancelRow(c) PROVE ContractStep
  <2>1. /\ call[c].turn \in Turns /\ status[call[c].turn] # "none"
        /\ UNCHANGED <<task, crashes>>
      BY <1>4 DEF CancelRow, IInv, CallsAreSound, taskVars, boundVars
  <2>2. CASE status[call[c].turn] = "running"
    <3>1. status' = [status EXCEPT ![call[c].turn] = "cancelled"]
        BY <1>4, <2>2 DEF CancelRow, UpdateLiveRow
    <3> QED
        BY <2>1, <3>1, RowWrite DEF Terminal
  <2>3. CASE status[call[c].turn] # "running"
    <3>1. UNCHANGED status
        BY <1>4, <2>3 DEF CancelRow, UpdateLiveRow, rowVars
    <3> QED
        BY <2>1, <3>1 DEF ContractStep, ContractVars, PhaseMap, DriverMap
  <2> QED
      BY <2>2, <2>3
<1>5. ASSUME NEW c \in Clients, OrphanWrite(c) PROVE ContractStep
  <2>1. /\ call[c].turn \in Turns /\ status[call[c].turn] # "none"
        /\ call[c].outcome \in Terminal
        /\ status' = [status EXCEPT ![call[c].turn] = call[c].outcome]
        /\ UNCHANGED <<task, crashes>>
      BY <1>5 DEF OrphanWrite, UpdateRow, IInv, CallsAreSound, taskVars, boundVars
  <2> QED
      BY <2>1, RowWrite
<1>6. ASSUME NEW c \in Clients, Crash(c) PROVE ContractStep
    BY <1>6, CrashStep
<1>7. ASSUME NEW t \in Turns, TaskBegin(t) \/ TaskRelease(t) PROVE ContractStep
    BY <1>7, RegionStep
<1>8. ASSUME NEW t \in Turns, NEW c \in Clients, SteerTurn(c, t) PROVE ContractStep
    BY <1>8, StreamStep
<1>9. ASSUME NEW t \in Turns, TaskResult(t) \/ TaskFollowUp(t) \/ TaskCancelled(t)
      PROVE  ContractStep
  <2>1. owner[t] \in Clients
      BY <1>9 DEF TaskResult, TaskFollowUp, TaskCancelled, IInv, LiveTurnsHaveAClient, Live,
         Driving
  <2> QED
      BY <1>9, <2>1, StreamStep
<1>10. ASSUME NEW t \in Turns, TaskComplete(t) PROVE ContractStep
    BY <1>10, EndStep DEF TaskComplete, Terminal
<1>11. ASSUME NEW t \in Turns, TaskFail(t) PROVE ContractStep
    BY <1>11, EndStep DEF TaskFail, Terminal
<1> QED
    BY <1>1, <1>2, <1>3, <1>4, <1>5, <1>6, <1>7, <1>8, <1>9, <1>10, <1>11, QuietOrLoud
    DEF Loud

\* TurnLifecycle implements TurnContract: whatever the clients do and whichever of them
\* die, every turn is accepted, started and settled in order, one turn at a time drives
\* the CLI, and a driver gives way only settled or dead.
THEOREM Refinement == Spec => KeepsContract
<1>1. Init => Contract!Init
  <2> SUFFICES ASSUME Init PROVE Contract!Init
      OBVIOUS
  <2>1. \A t \in Turns : ContractPhase(t) = "absent"
      BY DEF Init, ContractPhase, Dead
  <2>2. \A t \in Turns : task[t] \notin Driving
      BY DEF Init, Driving
  <2> QED
      BY <2>1, <2>2 DEF Init, Contract!Init
<1>2. LInv /\ LInv' /\ [Next]_vars
      => [Contract!Next]_<<[t \in Turns |-> ContractPhase(t)],
                           IF \E t \in Turns : task[t] \in Driving
                           THEN CHOOSE t \in Turns : task[t] \in Driving
                           ELSE NoTurn,
                           crashes>>
    BY StepsImplement
    DEF ContractStep, ContractVars, PhaseMap, PhaseOf, DriverMap, DriverOf, ContractPhase
<1> QED
    BY <1>1, <1>2, ServedInvariance, PTL DEF Spec, KeepsContract, Contract!Spec
==============================================================================
