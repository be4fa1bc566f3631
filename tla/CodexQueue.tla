------------------------------ MODULE CodexQueue ------------------------------
(***************************************************************************)
(* The durable queue of follow-up turns of one Codex thread (app_queue.py) *)
(* and the tasks that drain it (app_client_sessions.py, app_client_labels. *)
(* py).  Several processes share the queue file and the session record;    *)
(* each has an event loop of its own, so within a process control changes  *)
(* hands only at an await, and between processes at every file operation.  *)
(*                                                                         *)
(* Prompts are numbered in the order they are submitted; a prompt's number *)
(* also names the turn it becomes.  The app server that runs the turns is  *)
(* external: it answers or not, and it may run turns side by side.         *)
(***************************************************************************)
EXTENDS Integers, FiniteSets, Sequences, SequencesExt

CONSTANTS Procs,        \* processes that share the thread
          MaxItems,     \* bound: prompts submitted
          MaxTroubles   \* bound: processes that die, turn starts that fail or time out

ASSUME QueueAssumption ==
    /\ IsFiniteSet(Procs)
    /\ {MaxItems, MaxTroubles} \subseteq Nat

Items == 1..MaxItems
NoItem == 0
\* What can be starting a turn in a process: its drain task, or a caller directly.
Slots == {"drain", "direct"}

VARIABLES
    file,        \* the queue file: a sequence of [id, status, stale]
    active,      \* the session record's activeTurnId
    old,         \* ... and whether it was last touched ten minutes ago
    job,         \* [process][slot] -> [pc, id], the coroutines that start turns
    tracked,     \* _turns of each process: the turns it believes are running
    current,     \* _current_turn_ids of each process
    alive,       \* whether the process lives
    running,     \* the turns running at the app server
    subscribed,  \* processes whose connection the server notifies
    notes,       \* terminal notifications on their way to each process
    made, troubles,              \* counters of the bounds
    starts,      \* history: how often the server started each prompt
    cancelled,   \* history: prompts whose removal was reported to a user
    excused      \* history: prompts whose start had an unknown outcome

procVars == <<job, tracked, current, alive>>
recordVars == <<active, old>>
serverVars == <<running, subscribed, notes, starts>>
countVars == <<made, troubles>>
historyVars == <<cancelled, excused>>
vars == <<file, recordVars, procVars, serverVars, countVars, historyVars>>

Idle == [pc |-> "none", id |-> NoItem]
QueuedTurn(i) == [id |-> i, status |-> "queued", stale |-> FALSE]

TypeOK ==
    /\ file \in Seq([id : Items, status : {"queued", "starting"}, stale : BOOLEAN])
    /\ active \in Items \cup {NoItem} /\ old \in BOOLEAN
    /\ job \in [Procs -> [Slots -> [pc : {"none", "check", "reserve", "start", "persist", "settle", "undo"},
                                    id : Items \cup {NoItem}]]]
    /\ alive \in [Procs -> BOOLEAN] /\ subscribed \subseteq Procs
    /\ {tracked, notes} \subseteq [Procs -> SUBSET Items]
    /\ current \in [Procs -> Items \cup {NoItem}]
    /\ {running, cancelled, excused} \subseteq SUBSET Items
    /\ starts \in [Items -> Nat]
    /\ made \in 0..MaxItems /\ troubles \in 0..MaxTroubles

Init ==
    /\ file = <<>> /\ active = NoItem /\ old = FALSE
    /\ job = [p \in Procs |-> [s \in Slots |-> Idle]]
    /\ tracked = [p \in Procs |-> {}]
    /\ current = [p \in Procs |-> NoItem]
    /\ alive = [p \in Procs |-> TRUE]
    /\ running = {} /\ subscribed = {} /\ notes = [p \in Procs |-> {}]
    /\ made = 0 /\ troubles = 0
    /\ starts = [i \in Items |-> 0] /\ cancelled = {} /\ excused = {}

-----------------------------------------------------------------------------
(* The file.  Every operation holds state_file_lock, reads the whole file  *)
(* and replaces it, so each is one step.                                   *)

Unexpired(item) == item.status = "starting" /\ ~item.stale
Startable(item) == item.status = "queued" \/ item.stale
InFile(i) == \E n \in DOMAIN file : file[n].id = i
SetItem(n, item) == [file EXCEPT ![n] = item]
Position(i) == CHOOSE n \in DOMAIN file : file[n].id = i
\* The items but those of the prompt: it has at most one, as QueueKeepsOrder says.
Remaining(i) == IF InFile(i) THEN RemoveAt(file, Position(i)) ELSE file

\* thread_has_active_turn: a turn the process tracks counts until it saw it end;
\* of another process's turn it knows the record, which it distrusts when it is old.
ThreadHasActiveTurn(p) ==
    active # NoItem /\ (active \in tracked[p] \/ ~old)

\* schedule_queue_drain: one task per thread and process.
Scheduled(p) ==
    IF job[p]["drain"].pc = "none" THEN [job EXCEPT ![p]["drain"].pc = "check"] ELSE job

\* cancel_queue_drain_task.
DrainCancelled(p) == [job EXCEPT ![p]["drain"] = Idle]

\* Between these steps of the drain there is no await: nothing else of its process runs.
LoopFree(p) == alive[p] /\ job[p]["drain"].pc \notin {"reserve", "settle", "undo"}

-----------------------------------------------------------------------------
(* Callers.                                                                *)

\* start_or_queue_turn: with a turn active the prompt joins the queue and the drain
\* is scheduled; otherwise it starts at once, whatever the queue holds.
Submit(p) ==
    /\ LoopFree(p) /\ made < MaxItems
    /\ made' = made + 1
    /\ IF ThreadHasActiveTurn(p)
       THEN /\ file' = Append(file, QueuedTurn(made + 1))
            /\ job' = Scheduled(p)
       ELSE /\ job[p]["direct"].pc = "none"
            /\ job' = [job EXCEPT ![p]["direct"] = [pc |-> "start", id |-> made + 1]]
            /\ UNCHANGED file
    /\ UNCHANGED <<recordVars, tracked, current, alive, serverVars, troubles,
                   historyVars>>

\* Mutant: a prompt that is already starting is removed as well.
CancelAny(p, i) ==
    /\ LoopFree(p) /\ InFile(i)
    /\ file' = Remaining(i)
    /\ cancelled' = cancelled \cup {i}
    /\ job' = IF Remaining(i) = <<>> THEN DrainCancelled(p) ELSE job
    /\ UNCHANGED <<recordVars, tracked, current, alive, serverVars, countVars, excused>>

\* cancel_queued_turn: refused once the prompt is starting; with the queue empty
\* this process's drain task is cancelled, wherever it is.
CancelQueuedTurn(p, i) ==
    /\ LoopFree(p) /\ InFile(i)
    /\ file[Position(i)].status = "queued"
    /\ file' = Remaining(i)
    /\ cancelled' = cancelled \cup {i}
    /\ job' = IF Remaining(i) = <<>> THEN DrainCancelled(p) ELSE job
    /\ UNCHANGED <<recordVars, tracked, current, alive, serverVars, countVars, excused>>

-----------------------------------------------------------------------------
(* _drain_queue.                                                           *)

\* The gate is read from the session record, before the queue file is locked; with
\* a turn active the drain stops whatever it would find in the file.
DrainCheck(p) ==
    /\ job[p]["drain"].pc = "check" /\ LoopFree(p)
    /\ job' = [job EXCEPT ![p]["drain"].pc = IF ThreadHasActiveTurn(p) THEN "none" ELSE "reserve"]
    /\ UNCHANGED <<file, recordVars, tracked, current, alive, serverVars, countVars, historyVars>>

\* Mutant: a prompt that another process is starting does not block.
ReserveBeside(p) ==
    /\ job[p]["drain"].pc = "reserve"
    /\ LET takeable == {n \in DOMAIN file : Startable(file[n])}
           first == CHOOSE n \in takeable : \A m \in takeable : n <= m
       IN IF takeable = {}
          THEN job' = [job EXCEPT ![p]["drain"] = Idle] /\ UNCHANGED file
          ELSE /\ file' = SetItem(first, [file[first] EXCEPT !.status = "starting", !.stale = FALSE])
               /\ job' = [job EXCEPT ![p]["drain"] = [pc |-> "start", id |-> file[first].id]]
    /\ UNCHANGED <<recordVars, tracked, current, alive, serverVars, countVars, historyVars>>

\* Mutant: the prompt is not marked in the file.
ReserveUnmarked(p) ==
    /\ job[p]["drain"].pc = "reserve"
    /\ job' = [job EXCEPT ![p]["drain"] =
                  IF file = <<>> THEN Idle ELSE [pc |-> "start", id |-> Head(file).id]]
    /\ UNCHANGED <<file, recordVars, tracked, current, alive, serverVars, countVars, historyVars>>

\* reserve_next_queued_turn: nothing while a prompt is starting, unless its start is
\* ten minutes old; else the first prompt that can be started, under the file's lock.
Reserve(p) ==
    /\ job[p]["drain"].pc = "reserve"
    /\ LET takeable == {n \in DOMAIN file : Startable(file[n])}
           first == CHOOSE n \in takeable : \A m \in takeable : n <= m
       IN IF takeable = {} \/ \E n \in DOMAIN file : Unexpired(file[n])
          THEN job' = [job EXCEPT ![p]["drain"] = Idle] /\ UNCHANGED file
          ELSE /\ file' = SetItem(first, [file[first] EXCEPT !.status = "starting", !.stale = FALSE])
               /\ job' = [job EXCEPT ![p]["drain"] = [pc |-> "start", id |-> file[first].id]]
    /\ UNCHANGED <<recordVars, tracked, current, alive, serverVars, countVars, historyVars>>

\* complete_queued_turn, then the drain looks for more.
Complete(p) ==
    /\ job[p]["drain"].pc = "settle"
    /\ file' = Remaining(job[p]["drain"].id)
    /\ job' = [job EXCEPT ![p]["drain"] = [pc |-> "check", id |-> NoItem]]
    /\ UNCHANGED <<recordVars, tracked, current, alive, serverVars, countVars, historyVars>>

\* Mutant: the prompt goes to the end of the queue.
ReleaseLast(p) ==
    /\ job[p]["drain"].pc = "undo"
    /\ LET i == job[p]["drain"].id
       IN file' = Append(Remaining(i), QueuedTurn(i))
    /\ job' = [job EXCEPT ![p]["drain"] = Idle]
    /\ UNCHANGED <<recordVars, tracked, current, alive, serverVars, countVars, historyVars>>

\* Mutant: a prompt whose start failed is given up.
ReleaseDrops(p) ==
    /\ job[p]["drain"].pc = "undo"
    /\ file' = Remaining(job[p]["drain"].id)
    /\ job' = [job EXCEPT ![p]["drain"] = Idle]
    /\ UNCHANGED <<recordVars, tracked, current, alive, serverVars, countVars, historyVars>>

\* release_queued_turn: in its place, or at the front if it is gone; the drain stops.
Release(p) ==
    /\ job[p]["drain"].pc = "undo"
    /\ LET i == job[p]["drain"].id
       IN file' = IF InFile(i) THEN SetItem(Position(i), QueuedTurn(i)) ELSE <<QueuedTurn(i)>> \o file
    /\ job' = [job EXCEPT ![p]["drain"] = Idle]
    /\ UNCHANGED <<recordVars, tracked, current, alive, serverVars, countVars, historyVars>>

-----------------------------------------------------------------------------
(* start_turn, of the drain or of a caller.                                *)

\* turn/started, or the answer to turn/start: the turn is the newest one of the thread
\* for those who hear of it, and the record names it.
Newest(i, hearers) ==
    /\ tracked' = [q \in Procs |-> IF q \in hearers THEN tracked[q] \cup {i} ELSE tracked[q]]
    /\ current' = [q \in Procs |-> IF q \in hearers THEN i ELSE current[q]]
    /\ IF hearers = {} THEN UNCHANGED recordVars ELSE active' = i /\ old' = FALSE

\* thread/resume subscribes the connection to the thread; turn/start reaches the
\* server, which starts the turn and tells the other subscribers.
StartRequest(p, s) ==
    /\ job[p][s].pc = "start" /\ LoopFree(p)
    /\ subscribed' = subscribed \cup {p}
    /\ LET i == job[p][s].id
       IN /\ running' = running \cup {i}
          /\ starts' = [starts EXCEPT ![i] = @ + 1]
          /\ Newest(i, subscribed \ {p})
    /\ job' = [job EXCEPT ![p][s].pc = "persist"]
    /\ UNCHANGED <<file, alive, notes, countVars, historyVars>>

\* Where start_turn returns to, or raises.
After(p, s, pc) == [job EXCEPT ![p][s] = IF s = "direct" THEN Idle ELSE [@ EXCEPT !.pc = pc]]

\* The answer arrives: _persist_turn_start.
PersistTurnStart(p, s) ==
    /\ job[p][s].pc = "persist" /\ LoopFree(p)
    /\ Newest(job[p][s].id, {p})
    /\ job' = After(p, s, "settle")
    /\ UNCHANGED <<file, alive, serverVars, countVars, historyVars>>

\* The start fails before the server did anything.
StartFails(p, s) ==
    /\ job[p][s].pc = "start" /\ LoopFree(p) /\ troubles < MaxTroubles
    /\ troubles' = troubles + 1
    /\ job' = After(p, s, "undo")
    /\ UNCHANGED <<file, recordVars, tracked, current, alive, serverVars, made, historyVars>>

\* The server started the turn, but its answer does not arrive in time: start_turn
\* raises as if it had not, although the notifications of the turn are heard.
StartTimesOut(p, s) ==
    /\ job[p][s].pc = "persist" /\ LoopFree(p) /\ troubles < MaxTroubles
    /\ troubles' = troubles + 1
    /\ Newest(job[p][s].id, {p})
    /\ excused' = excused \cup {job[p][s].id}
    /\ job' = After(p, s, "undo")
    /\ UNCHANGED <<file, alive, serverVars, made, cancelled>>

-----------------------------------------------------------------------------
(* The app server, the clock and the death of processes.                   *)

TurnEnds(i) ==
    /\ i \in running
    /\ running' = running \ {i}
    /\ notes' = [p \in Procs |-> IF p \in subscribed THEN notes[p] \cup {i} ELSE notes[p]]
    /\ UNCHANGED <<file, recordVars, procVars, subscribed, starts, countVars, historyVars>>

Superseded(p, i) == current[p] \notin {NoItem, i}

\* Mutant: the end of the turn does not wake the drain.
EndedUnnoticed(p, i) ==
    /\ i \in notes[p] /\ i \in tracked[p] /\ LoopFree(p)
    /\ notes' = [notes EXCEPT ![p] = @ \ {i}]
    /\ tracked' = [tracked EXCEPT ![p] = @ \ {i}]
    /\ active' = IF Superseded(p, i) THEN active ELSE NoItem
    /\ old' = FALSE
    /\ UNCHANGED <<file, job, current, alive, running, subscribed, starts, countVars, historyVars>>

\* A terminal notification, in order after that of the start.  Of the newest turn it
\* clears the record's activeTurnId and, that written, schedules the drain; of a
\* superseded one it touches neither.
Ended(p, i) ==
    /\ i \in notes[p] /\ i \in tracked[p] /\ LoopFree(p)
    /\ notes' = [notes EXCEPT ![p] = @ \ {i}]
    /\ tracked' = [tracked EXCEPT ![p] = @ \ {i}]
    /\ IF Superseded(p, i)
       THEN UNCHANGED <<active, job>>
       ELSE active' = NoItem /\ job' = Scheduled(p)
    /\ old' = FALSE
    /\ UNCHANGED <<file, current, alive, running, subscribed, starts, countVars, historyVars>>

\* Ten minutes pass for a start that nobody is working on any more.
StartAges(n) ==
    /\ n \in DOMAIN file /\ Unexpired(file[n])
    /\ \A p \in Procs : job[p]["drain"].id # file[n].id
    /\ file' = SetItem(n, [file[n] EXCEPT !.stale = TRUE])
    /\ UNCHANGED <<recordVars, procVars, serverVars, countVars, historyVars>>

\* Ten minutes pass for a record that no process keeps up to date.
RecordAges ==
    /\ active # NoItem /\ ~old
    /\ \A p \in Procs : active \notin tracked[p] /\ notes[p] = {}
    /\ old' = TRUE
    /\ UNCHANGED <<file, active, procVars, serverVars, countVars, historyVars>>

\* A process dies; the one that replaces it starts with nothing in memory.
Crash(p) ==
    /\ alive[p] /\ troubles < MaxTroubles
    /\ troubles' = troubles + 1
    /\ alive' = [alive EXCEPT ![p] = FALSE]
    /\ job' = [job EXCEPT ![p] = [s \in Slots |-> Idle]]
    /\ tracked' = [tracked EXCEPT ![p] = {}]
    /\ current' = [current EXCEPT ![p] = NoItem]
    /\ notes' = [notes EXCEPT ![p] = {}] /\ subscribed' = subscribed \ {p}
    /\ excused' = excused \cup {job[p][s].id : s \in {s \in Slots : job[p][s].pc \in {"persist", "settle"}}}
    /\ UNCHANGED <<file, recordVars, running, starts, made, cancelled>>

Restart(p) ==
    /\ ~alive[p]
    /\ alive' = [alive EXCEPT ![p] = TRUE]
    /\ UNCHANGED <<file, recordVars, job, tracked, current, serverVars, countVars, historyVars>>

-----------------------------------------------------------------------------
Caller(p) == Submit(p) \/ \E i \in Items : CancelQueuedTurn(p, i)
Loop(p) ==
    \/ DrainCheck(p) \/ Reserve(p) \/ Complete(p) \/ Release(p)
    \/ \E s \in Slots : StartRequest(p, s) \/ PersistTurnStart(p, s)
    \/ \E i \in Items : Ended(p, i)
Environment ==
    \/ \E p \in Procs : Crash(p) \/ Restart(p) \/ \E s \in Slots : StartFails(p, s) \/ StartTimesOut(p, s)
    \/ \E n \in Items : StartAges(n)
    \/ RecordAges

Next ==
    \/ \E p \in Procs : Caller(p) \/ Loop(p)
    \/ \E i \in Items : TurnEnds(i)
    \/ Environment

Spec == Init /\ [][Next]_vars

\* An event loop runs its ready tasks; the server ends every turn it runs.
FairSpec ==
    /\ Spec
    /\ \A p \in Procs : WF_vars(Loop(p))
    /\ \A i \in Items : WF_vars(TurnEnds(i))

-----------------------------------------------------------------------------

\* A prompt is started more than once only if an earlier start had an outcome that
\* nobody could know: it timed out, or the process died in it (app_queue.py:63-116).
StartsAreExplained == \A i \in Items : starts[i] > 1 => i \in excused

\* Among all processes one prompt at a time is being started: the others wait for it or
\* for its start to expire (app_queue.py:63-116, 323-332).
OneStartAtATime == \A m, n \in DOMAIN file : Unexpired(file[m]) /\ Unexpired(file[n]) => m = n

\* A prompt whose removal was confirmed never runs (app_queue.py:197-219).
CancelledTurnsNeverStart == \A i \in cancelled : starts[i] = 0 \/ i \in excused

\* Whatever is released, expires or is picked up by another process, the queue keeps
\* the order in which the prompts were submitted (app_queue.py:133-152).  (The type
\* invariant goes along.)
QueueKeepsOrder ==
    /\ TypeOK
    /\ \A m, n \in DOMAIN file : m < n => file[m].id < file[n].id

\* A queued prompt leaves the file only by being started or by being cancelled
\* (app_queue.py:119-130, 257-265).
QueueLosesNothing ==
    [][\A i \in Items :
          InFile(i) /\ ~InFile(i)' => starts[i] > 0 \/ i \in cancelled']_vars

\* Unless a start fails or a process dies, the queue empties, and so every prompt in it is
\* taken: some drain task looks again after whatever made the last one stop
\* (app_client_sessions.py:183-248, app_client_transport.py:616-651).
QueueDrains == file # <<>> ~> (file = <<>> \/ troubles > 0)
==============================================================================
