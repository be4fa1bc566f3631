---------------------------- MODULE TurnLifecycle ----------------------------
(***************************************************************************)
(* The life of the turns of one Claude session: the rows of the shared     *)
(* sqlite store (agent_store.py), the tasks that run the turns             *)
(* (claude_sdk.py), cancellation (claude_cancellation.py), the durable     *)
(* queue, steering's store writes (claude_steering.py) and the sweep that  *)
(* fails the turns of dead processes (claude_orphans.py).                  *)
(*                                                                         *)
(* A client is one client instance in one process.  Its event loop is      *)
(* single-threaded: `call' holds the synchronous stretch of code it is in, *)
(* and nothing else of that client moves until the stretch ends.  Each SQL *)
(* transaction is one step, so clients interleave between transactions.    *)
(***************************************************************************)
EXTENDS Integers, FiniteSets, SessionLock

CONSTANTS MaxTurns,      \* bound: turns created over the whole behaviour
          NoTurn,
          Upkeep,        \* the warm-up or compaction job of a client
          Validates,     \* whether the embedder passed validate_turn_result
          Requests,      \* bound: the kinds of request the clients get
          MaxCrashes,    \* bound: process deaths
          MaxRefreshes   \* bound: start_thread calls that reuse the name

Turns == 1..MaxTurns

RequestKinds == {"start", "queue", "cancel", "dequeue", "steer", "upkeep", "sweep", "reclaim", "refresh", "close"}

ASSUME LifecycleAssumption ==
    /\ MaxTurns \in Nat
    /\ NoTurn \notin Turns
    /\ Upkeep \notin Turns
    /\ Jobs = Turns \cup {Upkeep}
    /\ NoJob = NoTurn
    /\ Validates \in BOOLEAN
    /\ Requests \subseteq RequestKinds
    /\ MaxCrashes \in Nat
    /\ MaxRefreshes \in Nat

VARIABLES status,         \* turns.status
          finished,       \* turns.response_finished_at is set
          age,            \* time since turns.updated_at: 0 fresh, 1 over 5 s, 2 over 20 s
          sessionStatus,  \* sessions.status
          activeTurn,     \* sessions.active_turn_id
          created,        \* how many turns exist; ids are in creation order
          task,           \* the coroutine that runs the turn
          owner,          \* the client that spawned it
          upkeep,         \* per client, its warm-up or compaction
          drain,          \* per client, its queue drain task is alive
          steerNote,      \* per client, a steer's bookkeeping still in a worker thread
          call,           \* per client, the synchronous code it is in
          crashes, refreshes

rowVars == <<status, finished, age>>
sessionVars == <<sessionStatus, activeTurn>>
taskVars == <<task, owner>>
sideVars == <<upkeep, drain, steerNote>>
boundVars == <<crashes, refreshes>>
vars == <<rowVars, sessionVars, created, taskVars, sideVars, call, boundVars, lockVars>>

Terminal == {"completed", "failed", "cancelled"}
RowStatus == {"none", "queued", "running"} \cup Terminal
SessionStatus == {"idle", "running"} \cup Terminal

Driving == {"running", "answered", "ending"}  \* inside the locked region
Live == {"waiting"} \cup Driving
Dead == {"lostMid", "lostAfter"}              \* the process died mid-response, or after a result
TaskPhase == {"none", "done"} \cup Live \cup Dead

Ops == {"idle", "create", "mark", "enqueue", "drain", "cancelRow", "finishRead",
        "finishWrite", "dequeue", "probe", "orphanRow", "orphanWrite", "orphanSession"}
Call == [op : Ops, turn : Turns \cup {NoTurn}, outcome : {"none"} \cup Terminal]
Idle == [op |-> "idle", turn |-> NoTurn, outcome |-> "none"]
In(op, t, outcome) == [op |-> op, turn |-> t, outcome |-> outcome]

LoopFree(c) == call[c].op = "idle"
Asked(c, kind) == kind \in Requests /\ LoopFree(c)
Goto(c, next) == call' = [call EXCEPT ![c] = next]

TypeOK ==
    /\ LockTypeOK
    /\ status \in [Turns -> RowStatus]
    /\ finished \in [Turns -> BOOLEAN]
    /\ age \in [Turns -> 0..2]
    /\ sessionStatus \in SessionStatus
    /\ activeTurn \in Turns \cup {NoTurn}
    /\ created \in 0..MaxTurns
    /\ task \in [Turns -> TaskPhase]
    /\ owner \in [Turns -> Clients \cup {NoClient}]
    /\ upkeep \in [Clients -> {"none", "waiting", "holding"}]
    /\ drain \in [Clients -> BOOLEAN]
    /\ steerNote \in [Clients -> Turns \cup {NoTurn}]
    /\ call \in [Clients -> Call]
    /\ crashes \in 0..MaxCrashes
    /\ refreshes \in 0..MaxRefreshes

Init ==
    /\ LockInit
    /\ status = [t \in Turns |-> "none"]
    /\ finished = [t \in Turns |-> FALSE]
    /\ age = [t \in Turns |-> 0]
    /\ sessionStatus = "idle"
    /\ activeTurn = NoTurn
    /\ created = 0
    /\ task = [t \in Turns |-> "none"]
    /\ owner = [t \in Turns |-> NoClient]
    /\ upkeep = [c \in Clients |-> "none"]
    /\ drain = [c \in Clients |-> FALSE]
    /\ steerNote = [c \in Clients |-> NoTurn]
    /\ call = [c \in Clients |-> Idle]
    /\ crashes = 0
    /\ refreshes = 0

-----------------------------------------------------------------------------
(* The store *)

Busy == activeTurn # NoTurn \/ sessionStatus = "running"
Queued == {t \in Turns : status[t] = "queued"}
OldestQueued(t) == t \in Queued /\ \A u \in Queued : t <= u

\* update_turn(only_if_active=True): the predicate is in the statement that writes.
UpdateLiveRow(t, s, answered) ==
    IF status[t] = "running"
    THEN /\ status' = [status EXCEPT ![t] = s]
         /\ finished' = [finished EXCEPT ![t] = answered]
         /\ age' = [age EXCEPT ![t] = 0]
    ELSE UNCHANGED rowVars

\* update_turn without the predicate.
UpdateRow(t, s) ==
    /\ status' = [status EXCEPT ![t] = s]
    /\ age' = [age EXCEPT ![t] = 0]
    /\ UNCHANGED finished

UpdateSession(s, t) ==
    /\ sessionStatus' = s
    /\ activeTurn' = t

\* The bound on turns leaves room for every creation already under way.
RoomForTurn ==
    created + Cardinality({c \in Clients : call[c].op \in {"create", "enqueue"}}) < MaxTurns

NewRow(s) ==
    /\ created < MaxTurns
    /\ created' = created + 1
    /\ UpdateRow(created + 1, s)

Spawn(c, t) ==
    /\ task' = [task EXCEPT ![t] = "waiting"]
    /\ owner' = [owner EXCEPT ![t] = c]

-----------------------------------------------------------------------------
(* start_turn_by_label on an idle session, and _launch_turn *)

StartTurn(c) ==
    /\ Asked(c, "start")
    /\ ~Busy
    /\ RoomForTurn
    /\ Goto(c, In("create", NoTurn, "none"))
    /\ UNCHANGED <<rowVars, sessionVars, created, taskVars, sideVars, boundVars, lockVars>>

CreateTurn(c) ==
    /\ call[c].op = "create"
    /\ NewRow("running")
    /\ activeTurn' = created + 1
    /\ Goto(c, In("mark", created + 1, "none"))
    /\ UNCHANGED <<sessionStatus, taskVars, sideVars, boundVars, lockVars>>

\* Mutant: the session is marked but the task is never spawned.
MarkRunningOnly(c) ==
    /\ call[c].op = "mark"
    /\ UpdateSession("running", call[c].turn)
    /\ Goto(c, Idle)
    /\ UNCHANGED <<rowVars, created, taskVars, sideVars, boundVars, lockVars>>

MarkRunning(c) ==
    /\ call[c].op = "mark"
    /\ UpdateSession("running", call[c].turn)
    /\ Spawn(c, call[c].turn)
    /\ Goto(c, Idle)
    /\ UNCHANGED <<rowVars, created, sideVars, boundVars, lockVars>>

-----------------------------------------------------------------------------
(* queue_turn_by_label on a busy session, and the drain loop *)

QueueTurn(c) ==
    /\ Asked(c, "queue")
    /\ Busy
    /\ RoomForTurn
    /\ Goto(c, In("enqueue", NoTurn, "none"))
    /\ UNCHANGED <<rowVars, sessionVars, created, taskVars, sideVars, boundVars, lockVars>>

\* Mutant: the item is left to the drain that the running turn will schedule.
EnqueueOnly(c) ==
    /\ call[c].op = "enqueue"
    /\ NewRow("queued")
    /\ Goto(c, Idle)
    /\ UNCHANGED <<sessionVars, taskVars, sideVars, boundVars, lockVars>>

Enqueue(c) ==
    /\ call[c].op = "enqueue"
    /\ NewRow("queued")
    /\ drain' = [drain EXCEPT ![c] = TRUE]
    /\ Goto(c, Idle)
    /\ UNCHANGED <<sessionVars, taskVars, upkeep, steerNote, boundVars, lockVars>>

\* A poll that found the session idle; one that finds it busy sleeps again.
DrainPoll(c) ==
    /\ LoopFree(c)
    /\ drain[c]
    /\ ~Busy
    /\ Goto(c, In("drain", NoTurn, "none"))
    /\ UNCHANGED <<rowVars, sessionVars, created, taskVars, sideVars, boundVars, lockVars>>

DrainEmpty(c) ==
    /\ call[c].op = "drain"
    /\ Queued = {}
    /\ drain' = [drain EXCEPT ![c] = FALSE]
    /\ Goto(c, Idle)
    /\ UNCHANGED <<rowVars, sessionVars, created, taskVars, upkeep, steerNote, boundVars, lockVars>>

\* claim_queued_turn is one "begin immediate" transaction; the turn's task follows.
DrainClaim(c) ==
    /\ call[c].op = "drain"
    /\ ~Busy
    /\ \E t \in Queued :
          /\ OldestQueued(t)
          /\ UpdateRow(t, "running")
          /\ UpdateSession("running", t)
          /\ Spawn(c, t)
    /\ drain' = [drain EXCEPT ![c] = FALSE]
    /\ Goto(c, Idle)
    /\ UNCHANGED <<created, upkeep, steerNote, boundVars, lockVars>>

\* The transaction found the session taken: poll again.
DrainRefused(c) ==
    /\ call[c].op = "drain"
    /\ Queued # {}
    /\ Busy
    /\ Goto(c, Idle)
    /\ UNCHANGED <<rowVars, sessionVars, created, taskVars, sideVars, boundVars, lockVars>>

-----------------------------------------------------------------------------
(* cancel_queued_turn *)

CancelQueued(c, t) ==
    /\ Asked(c, "dequeue")
    /\ t \in Queued
    /\ Goto(c, In("dequeue", t, "none"))
    /\ UNCHANGED <<rowVars, sessionVars, created, taskVars, sideVars, boundVars, lockVars>>

Dequeue(c) ==
    /\ call[c].op = "dequeue"
    /\ UpdateRow(call[c].turn, "cancelled")
    /\ drain' = [drain EXCEPT ![c] = @ /\ Queued \ {call[c].turn} # {}]
    /\ Goto(c, Idle)
    /\ UNCHANGED <<sessionVars, created, taskVars, upkeep, steerNote, boundVars, lockVars>>

-----------------------------------------------------------------------------
(* cancel_by_label, and _finish_session_turn, which ends every turn *)

CancelTurn(c) ==
    /\ Asked(c, "cancel")
    /\ activeTurn # NoTurn
    /\ Goto(c, In("cancelRow", activeTurn, "none"))
    /\ UNCHANGED <<rowVars, sessionVars, created, taskVars, sideVars, boundVars, lockVars>>

\* Mutant: the session is later given no status.
CancelRowForgetsOutcome(c) ==
    LET t == call[c].turn
    IN  /\ call[c].op = "cancelRow"
        /\ UpdateLiveRow(t, "cancelled", finished[t])
        /\ Goto(c, IF status'[t] = "cancelled" THEN In("finishRead", t, "none") ELSE Idle)
        /\ UNCHANGED <<sessionVars, created, taskVars, sideVars, boundVars, lockVars>>

CancelRow(c) ==
    LET t == call[c].turn
    IN  /\ call[c].op = "cancelRow"
        /\ UpdateLiveRow(t, "cancelled", finished[t])
        /\ Goto(c, IF status'[t] = "cancelled" THEN In("finishRead", t, "cancelled") ELSE Idle)
        /\ UNCHANGED <<sessionVars, created, taskVars, sideVars, boundVars, lockVars>>

\* Mutant: the session is cleared without looking whose turn is active.
FinishReadBlind(c) ==
    /\ call[c].op = "finishRead"
    /\ Goto(c, In("finishWrite", call[c].turn, call[c].outcome))
    /\ UNCHANGED <<rowVars, sessionVars, created, taskVars, sideVars, boundVars, lockVars>>

FinishRead(c) ==
    /\ call[c].op = "finishRead"
    /\ Goto(c, IF activeTurn = call[c].turn
               THEN In("finishWrite", call[c].turn, call[c].outcome)
               ELSE Idle)
    /\ UNCHANGED <<rowVars, sessionVars, created, taskVars, sideVars, boundVars, lockVars>>

\* Mutant: active_turn_id is left set.
FinishWriteKeepsActive(c) ==
    /\ call[c].op = "finishWrite"
    /\ UpdateSession(call[c].outcome, activeTurn)
    /\ Goto(c, Idle)
    /\ UNCHANGED <<rowVars, created, taskVars, sideVars, boundVars, lockVars>>

FinishWrite(c) ==
    /\ call[c].op = "finishWrite"
    /\ UpdateSession(call[c].outcome, NoTurn)
    /\ Goto(c, Idle)
    /\ UNCHANGED <<rowVars, created, taskVars, sideVars, boundVars, lockVars>>

-----------------------------------------------------------------------------
(* _run_turn *)

TaskLoopLock(t) ==
    /\ task[t] = "waiting"
    /\ LoopFree(owner[t])
    /\ TakeLoopLock(owner[t], t)
    /\ UNCHANGED <<rowVars, sessionVars, created, taskVars, sideVars, call, boundVars>>

TaskFlock(t) ==
    /\ task[t] = "waiting"
    /\ loopLock[owner[t]] = t
    /\ TakeFlock(owner[t])
    /\ UNCHANGED <<rowVars, sessionVars, created, taskVars, sideVars, call, boundVars>>

\* Mutant: the turn goes ahead with the asyncio lock alone.
TaskBeginUnlocked(t) ==
    /\ task[t] = "waiting"
    /\ loopLock[owner[t]] = t
    /\ LoopFree(owner[t])
    /\ task' = [task EXCEPT ![t] = "running"]
    /\ UNCHANGED <<rowVars, sessionVars, created, owner, sideVars, call, boundVars, lockVars>>

\* Locks held: only a cancelled row stops the turn here; otherwise the CLI is
\* connected and the prompt goes out.
TaskBegin(t) ==
    /\ task[t] = "waiting"
    /\ HoldsLocks(owner[t], t)
    /\ LoopFree(owner[t])
    /\ IF status[t] = "cancelled"
       THEN /\ task' = [task EXCEPT ![t] = "ending"]
            /\ Goto(owner[t], In("finishRead", t, "cancelled"))
       ELSE /\ task' = [task EXCEPT ![t] = "running"]
            /\ UNCHANGED call
    /\ UNCHANGED <<rowVars, sessionVars, created, owner, sideVars, boundVars, lockVars>>

\* Mutant: the stamp is set although a validator has not agreed yet.
TaskResultUnvalidated(t) ==
    /\ task[t] = "running"
    /\ LoopFree(owner[t])
    /\ task' = [task EXCEPT ![t] = "answered"]
    /\ UpdateLiveRow(t, status[t], TRUE)
    /\ UNCHANGED <<sessionVars, created, owner, sideVars, call, boundVars, lockVars>>

\* A terminal result arrived: the recovery stamp is set, unless a validator must still agree.
TaskResult(t) ==
    /\ task[t] = "running"
    /\ LoopFree(owner[t])
    /\ task' = [task EXCEPT ![t] = "answered"]
    /\ UpdateLiveRow(t, status[t], ~Validates)
    /\ UNCHANGED <<sessionVars, created, owner, sideVars, call, boundVars, lockVars>>

\* Mutant: the stamp of the earlier result stays while the follow-up runs.
TaskFollowUpStamped(t) ==
    /\ task[t] = "answered"
    /\ LoopFree(owner[t])
    /\ task' = [task EXCEPT ![t] = "running"]
    /\ UNCHANGED <<rowVars, sessionVars, created, owner, sideVars, call, boundVars, lockVars>>

\* A background task's follow-up response begins: its first content clears the stamp.
TaskFollowUp(t) ==
    /\ task[t] = "answered"
    /\ LoopFree(owner[t])
    /\ task' = [task EXCEPT ![t] = "running"]
    /\ UpdateLiveRow(t, status[t], FALSE)
    /\ UNCHANGED <<sessionVars, created, owner, sideVars, call, boundVars, lockVars>>

\* Leave the stream writing outcome s, which an earlier cancellation overrides.
EndTask(t, s, answered) ==
    /\ UpdateLiveRow(t, s, answered)
    /\ task' = [task EXCEPT ![t] = "ending"]
    /\ Goto(owner[t], In("finishRead", t, IF status'[t] = "cancelled" THEN "cancelled" ELSE s))
    /\ UNCHANGED <<sessionVars, created, owner, sideVars, boundVars, lockVars>>

TaskComplete(t) ==
    /\ task[t] = "answered"
    /\ LoopFree(owner[t])
    /\ EndTask(t, "completed", finished[t] \/ Validates)

\* Mutant: the failure is not written to the row.
TaskFailUnrecorded(t) ==
    /\ task[t] \in {"running", "answered"}
    /\ LoopFree(owner[t])
    /\ task' = [task EXCEPT ![t] = "ending"]
    /\ Goto(owner[t], In("finishRead", t, "failed"))
    /\ UNCHANGED <<rowVars, sessionVars, created, owner, sideVars, boundVars, lockVars>>

TaskFail(t) ==
    /\ task[t] \in {"running", "answered"}
    /\ LoopFree(owner[t])
    /\ EndTask(t, "failed", finished[t])

\* The cancellation watch saw the row cancelled and cancelled the task.
TaskCancelled(t) ==
    /\ task[t] \in {"running", "answered"}
    /\ LoopFree(owner[t])
    /\ status[t] = "cancelled"
    /\ task' = [task EXCEPT ![t] = "ending"]
    /\ Goto(owner[t], In("finishRead", t, "cancelled"))
    /\ UNCHANGED <<rowVars, sessionVars, created, owner, sideVars, boundVars, lockVars>>

\* The finally clause: leave the locked region and schedule a drain.
TaskRelease(t) ==
    /\ task[t] = "ending"
    /\ LoopFree(owner[t])
    /\ task' = [task EXCEPT ![t] = "done"]
    /\ ReleaseLocks(owner[t])
    /\ drain' = [drain EXCEPT ![owner[t]] = TRUE]
    /\ UNCHANGED <<rowVars, sessionVars, created, owner, upkeep, steerNote, call, boundVars>>

-----------------------------------------------------------------------------
(* steer_by_label on a turn of this client: the query is registered with the *)
(* turn's reader at once, its bookkeeping is written later by a worker thread *)

SteerTurn(c, t) ==
    /\ Asked(c, "steer")
    /\ activeTurn = t
    /\ owner[t] = c
    /\ task[t] \in {"waiting", "running", "answered"}
    /\ steerNote[c] = NoTurn
    /\ steerNote' = [steerNote EXCEPT ![c] = t]
    /\ IF task[t] = "waiting"
       THEN UNCHANGED <<task, rowVars>>      \* buffered until the turn sent its prompt
       ELSE /\ task' = [task EXCEPT ![t] = "running"]
            /\ UpdateLiveRow(t, status[t], FALSE)
    /\ UNCHANGED <<sessionVars, created, owner, upkeep, drain, call, boundVars, lockVars>>

\* Mutant: the session is marked running whatever became of the turn.
RecordSteerAlways(c) ==
    LET t == steerNote[c]
    IN  /\ t # NoTurn
        /\ steerNote' = [steerNote EXCEPT ![c] = NoTurn]
        /\ age' = [age EXCEPT ![t] = 0]
        /\ UpdateSession("running", t)
        /\ UNCHANGED <<status, finished, created, taskVars, upkeep, drain, call, boundVars, lockVars>>

\* append_turn_steer and mark_session_steering, which writes only for a live turn.
RecordSteer(c) ==
    LET t == steerNote[c]
    IN  /\ t # NoTurn
        /\ steerNote' = [steerNote EXCEPT ![c] = NoTurn]
        /\ age' = [age EXCEPT ![t] = 0]
        /\ IF status[t] = "running" /\ activeTurn \in {NoTurn, t}
           THEN UpdateSession("running", t)
           ELSE UNCHANGED sessionVars
        /\ UNCHANGED <<status, finished, created, taskVars, upkeep, drain, call, boundVars, lockVars>>

-----------------------------------------------------------------------------
(* warm_session_by_label and compact_session_by_label *)

UpkeepStart(c) ==
    /\ Asked(c, "upkeep")
    /\ upkeep[c] = "none"
    /\ ~Busy
    /\ upkeep' = [upkeep EXCEPT ![c] = "waiting"]
    /\ UNCHANGED <<rowVars, sessionVars, created, taskVars, drain, steerNote, call, boundVars, lockVars>>

UpkeepLoopLock(c) ==
    /\ upkeep[c] = "waiting"
    /\ LoopFree(c)
    /\ TakeLoopLock(c, Upkeep)
    /\ UNCHANGED <<rowVars, sessionVars, created, taskVars, sideVars, call, boundVars>>

UpkeepFlock(c) ==
    /\ upkeep[c] = "waiting"
    /\ loopLock[c] = Upkeep
    /\ TakeFlock(c)
    /\ UNCHANGED <<rowVars, sessionVars, created, taskVars, sideVars, call, boundVars>>

\* Under the locks the session is read again: a turn that started meanwhile goes first.
UpkeepBegin(c) ==
    /\ upkeep[c] = "waiting"
    /\ HoldsLocks(c, Upkeep)
    /\ LoopFree(c)
    /\ IF Busy
       THEN /\ upkeep' = [upkeep EXCEPT ![c] = "none"]
            /\ ReleaseLocks(c)
       ELSE /\ upkeep' = [upkeep EXCEPT ![c] = "holding"]
            /\ UNCHANGED lockVars
    /\ UNCHANGED <<rowVars, sessionVars, created, taskVars, drain, steerNote, call, boundVars>>

UpkeepEnd(c) ==
    /\ upkeep[c] = "holding"
    /\ LoopFree(c)
    /\ upkeep' = [upkeep EXCEPT ![c] = "none"]
    /\ ReleaseLocks(c)
    /\ UNCHANGED <<rowVars, sessionVars, created, taskVars, drain, steerNote, call, boundVars>>

-----------------------------------------------------------------------------
(* reconcile_orphaned_turns and _reclaim_orphaned_turn *)

\* The sweep read a busy session whose turn has not been written for 20 s.
Sweep(c) ==
    /\ Asked(c, "sweep")
    /\ Busy
    /\ activeTurn # NoTurn => age[activeTurn] = 2
    /\ Goto(c, In("probe", activeTurn, "none"))
    /\ UNCHANGED <<rowVars, sessionVars, created, taskVars, sideVars, boundVars, lockVars>>

\* A steer that found no client of its own here, for a turn it did not launch.
Reclaim(c) ==
    /\ Asked(c, "reclaim")
    /\ activeTurn # NoTurn
    /\ age[activeTurn] >= 1
    /\ ~(owner[activeTurn] = c /\ task[activeTurn] \in Live)
    /\ Goto(c, In("probe", activeTurn, "none"))
    /\ UNCHANGED <<rowVars, sessionVars, created, taskVars, sideVars, boundVars, lockVars>>

Probe(c) ==
    /\ call[c].op = "probe"
    /\ Goto(c, IF LockIsFree THEN In("orphanRow", call[c].turn, "none") ELSE Idle)
    /\ UNCHANGED <<rowVars, sessionVars, created, taskVars, sideVars, boundVars, lockVars>>

OrphanRow(c) ==
    LET t == call[c].turn
    IN  /\ call[c].op = "orphanRow"
        /\ Goto(c, IF t = NoTurn \/ status[t] \in Terminal
                   THEN In("orphanSession", t, "failed")
                   ELSE In("orphanWrite", t, IF finished[t] THEN "completed" ELSE "failed"))
        /\ UNCHANGED <<rowVars, sessionVars, created, taskVars, sideVars, boundVars, lockVars>>

OrphanWrite(c) ==
    /\ call[c].op = "orphanWrite"
    /\ UpdateRow(call[c].turn, call[c].outcome)
    /\ Goto(c, In("orphanSession", call[c].turn, call[c].outcome))
    /\ UNCHANGED <<sessionVars, created, taskVars, sideVars, boundVars, lockVars>>

\* Mutant: the row is settled but the session keeps pointing at it.
OrphanSessionKeepsActive(c) ==
    /\ call[c].op = "orphanSession"
    /\ UpdateSession(call[c].outcome, activeTurn)
    /\ Goto(c, Idle)
    /\ UNCHANGED <<rowVars, created, taskVars, sideVars, boundVars, lockVars>>

OrphanSession(c) ==
    /\ call[c].op = "orphanSession"
    /\ UpdateSession(call[c].outcome, NoTurn)
    /\ Goto(c, Idle)
    /\ UNCHANGED <<rowVars, created, taskVars, sideVars, boundVars, lockVars>>

-----------------------------------------------------------------------------
(* start_thread with the name of an existing session, time, process death *)

RefreshSession(c) ==
    /\ Asked(c, "refresh")
    /\ refreshes < MaxRefreshes
    /\ refreshes' = refreshes + 1
    /\ UpdateSession("completed", NoTurn)
    /\ UNCHANGED <<rowVars, created, taskVars, sideVars, call, crashes, lockVars>>

\* close(): the drain is cancelled; turns in flight run on and schedule one when they end.
CloseClient(c) ==
    /\ Asked(c, "close")
    /\ drain' = [drain EXCEPT ![c] = FALSE]
    /\ UNCHANGED <<rowVars, sessionVars, created, taskVars, upkeep, steerNote, call, boundVars, lockVars>>

\* Time passes.  Only the sweep and the reclaim look at an age, and only at the active
\* turn's.  A launch and the hand-over of a free lock take far less than 5 s, so a turn
\* does not age before its task exists, and a waiting one ages only while another job
\* is inside the locked region.
Ages(t) ==
    /\ Requests \cap {"sweep", "reclaim"} # {}
    /\ activeTurn = t
    /\ age[t] < 2
    /\ \A c \in Clients : call[c].op = "mark" => call[c].turn # t
    /\ task[t] = "waiting" => \/ \E u \in Turns : task[u] \in Driving
                            \/ \E c \in Clients : upkeep[c] = "holding"
    /\ age' = [age EXCEPT ![t] = @ + 1]
    /\ UNCHANGED <<status, finished, sessionVars, created, taskVars, sideVars, call, boundVars, lockVars>>

\* The process dies with its tasks; the kernel drops its flock and it restarts empty.
Crash(c) ==
    /\ crashes < MaxCrashes
    /\ crashes' = crashes + 1
    /\ task' = [t \in Turns |->
                  IF owner[t] = c /\ task[t] = "answered" THEN "lostAfter"
                  ELSE IF \/ owner[t] = c /\ task[t] \in Live
                          \/ call[c].op = "mark" /\ call[c].turn = t
                       THEN "lostMid"
                       ELSE task[t]]
    /\ upkeep' = [upkeep EXCEPT ![c] = "none"]
    /\ drain' = [drain EXCEPT ![c] = FALSE]
    /\ steerNote' = [steerNote EXCEPT ![c] = NoTurn]
    /\ Goto(c, Idle)
    /\ ReleaseLocks(c)
    /\ UNCHANGED <<rowVars, sessionVars, created, owner, refreshes>>
-----------------------------------------------------------------------------
\* The code a client's loop is in runs to its next store access.
LoopStep(c) ==
    \/ CreateTurn(c) \/ MarkRunning(c) \/ Enqueue(c)
    \/ DrainEmpty(c) \/ DrainClaim(c) \/ DrainRefused(c) \/ Dequeue(c)
    \/ CancelRow(c) \/ FinishRead(c) \/ FinishWrite(c)
    \/ Probe(c) \/ OrphanRow(c) \/ OrphanWrite(c) \/ OrphanSession(c)

TaskEnd(t) == TaskComplete(t) \/ TaskFail(t) \/ TaskCancelled(t)

Request(c) ==
    \/ StartTurn(c) \/ QueueTurn(c) \/ CancelTurn(c) \/ Reclaim(c)
    \/ RefreshSession(c) \/ CloseClient(c) \/ UpkeepStart(c)
    \/ \E t \in Turns : CancelQueued(c, t) \/ SteerTurn(c, t)

UpkeepStep(c) ==
    UpkeepLoopLock(c) \/ UpkeepFlock(c) \/ UpkeepBegin(c) \/ UpkeepEnd(c)

TaskAdvance(t) ==
    TaskLoopLock(t) \/ TaskFlock(t) \/ TaskBegin(t) \/ TaskEnd(t) \/ TaskRelease(t)

TaskStep(t) == TaskAdvance(t) \/ TaskResult(t) \/ TaskFollowUp(t)

Next ==
    \/ \E c \in Clients :
          \/ Request(c) \/ LoopStep(c) \/ UpkeepStep(c)
          \/ DrainPoll(c) \/ Sweep(c) \/ RecordSteer(c) \/ Crash(c)
    \/ \E t \in Turns : TaskStep(t) \/ Ages(t)

Spec == Init /\ [][Next]_vars

\* An event loop serves its ready coroutines in turn, so a coroutine that is ready
\* again and again runs (strong fairness); a turn's CLI answers, fails or is
\* cancelled in the end; time passes; the sweep is repeated by every status call.
\* Requests and process deaths are not fair.
Fairness ==
    /\ \A c \in Clients :
          /\ WF_vars(LoopStep(c))
          /\ WF_vars(RecordSteer(c))
          /\ SF_vars(UpkeepStep(c))
          /\ SF_vars(DrainPoll(c))
          /\ SF_vars(Sweep(c))
    /\ \A t \in Turns :
          /\ SF_vars(TaskAdvance(t))
          /\ WF_vars(Ages(t))

FairSpec == Spec /\ Fairness

-----------------------------------------------------------------------------
(* Properties *)

\* "Serialize a session's turns across processes" (claude_orphans.py): whatever
\* the clients do and whichever of them die, one turn at a time is inside the
\* locked region, and no compaction or warm-up is there with it.
OneTurnDrives ==
    /\ \A t, u \in Turns : task[t] \in Driving /\ task[u] \in Driving => t = u
    /\ \A c \in Clients, t \in Turns : ~(upkeep[c] = "holding" /\ task[t] \in Driving)
    /\ \A c, d \in Clients : upkeep[c] = "holding" /\ upkeep[d] = "holding" => c = d

\* A turn task that leaves the stream leaves a terminal row behind, whichever of
\* completion, failure, cancellation and a sweep by another client wrote it.
EndedTurnsAreTerminal ==
    \A t \in Turns : task[t] \in {"ending", "done"} => status[t] \in Terminal

\* The strengthening that makes the two invariants above inductive.  A live turn
\* has a client; a turn inside the region, like an upkeep job there, holds its
\* client's asyncio lock and the flock; ids are given in order; a turn with a task
\* has been started; and the code a client is in knows only turns that exist.
LiveTurnsHaveAClient == \A t \in Turns : task[t] \in Live => owner[t] \in Clients

LocksAreHeld ==
    /\ \A t \in Turns : task[t] \in Driving => HoldsLocks(owner[t], t)
    /\ \A c \in Clients : upkeep[c] = "holding" => HoldsLocks(c, Upkeep)

RowsAreInOrder == \A t \in Turns : t > created => status[t] = "none"

TasksAreStarted ==
    \A t \in Turns : task[t] # "none" => status[t] \notin {"none", "queued"}

ActiveTurnExists == activeTurn \in Turns => status[activeTurn] # "none"

CallsAreSound ==
    \A c \in Clients :
        /\ call[c].turn \in Turns => status[call[c].turn] # "none"
        /\ call[c].op \in {"mark", "dequeue", "cancelRow", "orphanWrite"} => call[c].turn \in Turns
        /\ call[c].op = "mark" => status[call[c].turn] # "queued"
        /\ call[c].op \in {"finishRead", "finishWrite", "orphanWrite", "orphanSession"} =>
              call[c].outcome \in Terminal

IInv ==
    /\ TypeOK
    /\ LiveTurnsHaveAClient
    /\ LocksAreHeld
    /\ RowsAreInOrder
    /\ TasksAreStarted
    /\ ActiveTurnExists
    /\ CallsAreSound
    /\ EndedTurnsAreTerminal

\* A row says "running" only while a coroutine runs it, its launch is under way, or
\* its process died: claiming, cancelling a queued item and launching never leave
\* a running row that nobody serves.
RunningRowsHaveATask ==
    \A t \in Turns : status[t] = "running" =>
        \/ task[t] \in {"waiting", "running", "answered"} \cup Dead
        \/ \E c \in Clients : call[c].op = "mark" /\ call[c].turn = t

\* A session points at a terminal turn only while someone is still due to clear it
\* (mark_session_steering must not resurrect a finished session).
NoGhostSession ==
    activeTurn # NoTurn /\ status[activeTurn] \in Terminal =>
        \/ task[activeTurn] \in {"waiting", "running", "answered"} \cup Dead
        \/ \E c \in Clients :
              /\ call[c].turn = activeTurn
              /\ call[c].op \in {"mark", "finishRead", "finishWrite", "orphanSession"}

\* While no process died, queued work is never stranded: a drain task lives somewhere,
\* or a turn task does, whose finally clause schedules one.  An emptied queue, a refused
\* claim and a cancelled item each end a drain and race a new item.
QueueHasADrainer ==
    crashes = 0 /\ Queued # {} =>
        (\E c \in Clients : drain[c]) \/ (\E t \in Turns : task[t] \in Live)

\* An orphan is judged by its work: the sweep completes a turn whose process died
\* after a result and fails one whose process died mid-response; without the
\* validator's word it completes nothing (README, validate_turn_result).
OrphanOutcomeHonest ==
    [][\A c \in Clients :
          LET t == call[c].turn
          IN  OrphanRow(c) /\ t # NoTurn /\ task[t] \in Dead /\ status[t] = "running"
              => (call'[c].outcome = "completed" <=> task[t] = "lostAfter" /\ ~Validates)]_vars

\* The turns as TurnContract sees them.
ContractPhase(t) ==
    CASE task[t] = "done" -> "released"
      [] task[t] \in Dead -> "lost"
      [] OTHER -> CASE status[t] = "none" -> "absent"
                    [] status[t] = "queued" -> "accepted"
                    [] status[t] = "running" -> "running"
                    [] OTHER -> "settled"

Contract == INSTANCE TurnContract WITH
    phase <- [t \in Turns |-> ContractPhase(t)],
    driver <- IF \E t \in Turns : task[t] \in Driving
              THEN CHOOSE t \in Turns : task[t] \in Driving
              ELSE NoTurn,
    deaths <- crashes

\* The rows, tasks and locks together keep the contract: every step of every client is
\* one step of a session whose turns are settled before they give way, drive once
\* and drive alone.
KeepsContract == Contract!Spec

\* Every launched turn whose process lives on ends.
TurnsEnd == \A t \in Turns : task[t] = "waiting" ~> task[t] \in {"done"} \cup Dead

\* A queued turn is eventually started or removed (no process dies in this run).
QueueDrains == \A t \in Turns : status[t] = "queued" ~> status[t] # "queued"

\* A session left pointing at a turn whose process died is freed by the sweep.
GhostsAreSwept ==
    \A t \in Turns : activeTurn = t /\ task[t] \in Dead ~> activeTurn # t

\* "An acquirable lock while the store claims a running turn proves the owning
\* process is gone" (_session_turn_lock_is_free): the sweep writes only the rows
\* of turns whose process died.
SweepSparesLiveTurns ==
    \A c \in Clients : call[c].op = "orphanWrite" => task[call[c].turn] \notin Live

\* Within one client, whose requests cannot interleave inside a synchronous stretch,
\* the session row is exact: the running turn is the active turn, so steering,
\* cancelling and sweeping all find it, across crashes too.
RunningTurnIsActive ==
    (\A c \in Clients : LoopFree(c)) =>
        \A t \in Turns : status[t] = "running" => activeTurn = t

\* "It only removes queued items whose status is still queued; active or
\* already-started turns are rejected" (README, Cancelling Queued Turns).
StartedTurnsAreNotDequeued ==
    [][\A c \in Clients : Dequeue(c) => status[call[c].turn] = "queued"]_vars
=============================================================================
