------------------------------- MODULE Routines -------------------------------
(***************************************************************************)
(* One routine (loop) in the state file that several processes share       *)
(* (state.py, app_routines.py, app_client_routines.py, app_events.py,      *)
(* app_client_events.py): scheduled runs, runs started by webhook or file  *)
(* events, and the reconciliation that ends runs nobody reports on.        *)
(*                                                                         *)
(* An operation on the file is one locked read-modify-write, so it is one  *)
(* step, but for the reconciliation, which does not take the file's lock.  *)
(* What a coroutine read before an await may be old when it goes on.       *)
(* Each coroutine is taken to be of a process of its own: the coroutines   *)
(* of one process interleave in fewer ways.  A clock of ticks stands for   *)
(* times and dates.  The turns of the runs live at the app server.         *)
(***************************************************************************)
EXTENDS Integers, FiniteSets, Sequences, SequencesExt

CONSTANTS Callers,      \* coroutines: scheduler sweeps, tool calls, webhook deliveries
          Events,       \* ids of webhook events
          Strangers,    \* those whose sender is not on the allowlist
          RecentLimit,  \* RECENT_EVENT_IDS_LIMIT
          TicksPerDay,
          StaleTicks,   \* age at which an unresolved run is given up
          MaxRuns, MaxTicks, MaxVersions, \* bounds: runs, clock, versions of the watched file
          MaxTwists     \* bound: new deliveries, edits, file changes, forced and emitted runs, crashes

ASSUME RoutinesAssumption ==
    /\ Strangers \subseteq Events
    /\ {RecentLimit, TicksPerDay, StaleTicks, MaxVersions} \subseteq Nat \ {0}
    /\ {MaxRuns, MaxTicks, MaxTwists} \subseteq Nat

Runs == 1..MaxRuns
NoRun == 0
Versions == 1..MaxVersions
NeverScanned == -1              \* seenFiles is None
NoFile == 0                     \* seenFiles is empty
Never == -1
Kinds == {"agent", "command"}
Schedules == {"daily", "interval"}

VARIABLES
    schedule,  \* the routine's schedule_type
    rec,       \* the routine's record in the state file
    co,        \* [caller] -> coroutine
    turn,      \* the turn of each run at the app server
    version,   \* the version of the watched file
    clock,
    runs,      \* history: of each run its origin, time, kind and event
    excused,   \* history: days (for an interval, times) whose mark was voided
    rolledBack, \* history: those whose mark an unlocked write took back
    undone,    \* history: a reconciliation overwrote what another caller had written
    forgotten, \* history: events that fell off their trigger's list of recent ones
    twists     \* counter of the bound

vars == <<schedule, rec, co, turn, version, clock, runs, excused, rolledBack, undone, forgotten, twists>>

ActiveStatus == {"starting", "started", "queued"}
Statuses == ActiveStatus \cup {"none", "completed", "failed", "stale"}
Ended == {"completed", "failed"}      \* a cancelled turn counts as a failed run
FileEvent(v) == <<"file", v>>
NoEvent == <<>>

\* An id of a webhook's event is not one of a file's.
ASSUME EventsAssumption ==
    NoEvent \notin Events /\ \A v \in Versions : FileEvent(v) \notin Events

Origins == {"schedule", "forced", "event"}

Idle == [pc |-> "idle", swept |-> FALSE, force |-> FALSE, key |-> NoRun, found |-> "none",
         run |-> NoRun, day |-> Never, outcome |-> "none", seen |-> NoFile,
         event |-> NoEvent, via |-> "none", id |-> 0, snap |-> <<>>]

\* new_file_trigger and new_webhook_trigger: of a file the versions seen, of a webhook
\* whether it has an allowlist.
Trigger(on, id, seen, allow) == [on |-> on, id |-> id, seen |-> seen, allow |-> allow, recent |-> <<>>]
NoTrigger(id) == Trigger(FALSE, id, NeverScanned, FALSE)
FileTrigger(id, fireExisting) == Trigger(TRUE, id, IF fireExisting THEN NoFile ELSE NeverScanned, FALSE)
WebhookTrigger(id, allow) == Trigger(TRUE, id, NeverScanned, allow)

\* save_routine of a name that is new.
NewRoutine(kind, fileId, hookId) ==
    [present |-> TRUE, enabled |-> TRUE, kind |-> kind, status |-> "none", run |-> NoRun,
     date |-> Never, at |-> Never, started |-> Never,
     file |-> NoTrigger(fileId), hook |-> NoTrigger(hookId)]

Day(t) == t \div TicksPerDay
Today == Day(clock)
Slot(t) == IF schedule = "interval" THEN t ELSE Day(t)

TypeOK ==
    /\ schedule \in Schedules
    /\ rec.present \in BOOLEAN /\ rec.enabled \in BOOLEAN /\ rec.kind \in Kinds
    /\ rec.status \in Statuses /\ rec.run \in Runs \cup {NoRun}
    /\ {rec.date, rec.at, rec.started} \subseteq -1..MaxTicks
    /\ Len(rec.file.recent) <= RecentLimit /\ Len(rec.hook.recent) <= RecentLimit
    /\ \A t \in Callers :
          co[t].pc \in {"idle", "resolve", "write", "due", "launch", "record", "scan", "seen", "event"}
    /\ turn \in [Runs -> {"none", "running"} \cup Ended]
    /\ version \in Versions /\ clock \in 0..MaxTicks
    /\ Len(runs) <= MaxRuns
    /\ \A n \in DOMAIN runs : runs[n].origin \in Origins /\ runs[n].kind \in Kinds

\* The routine may have run today.  An agent's webhook may be without an allowlist: it was
\* added when the routine was a command.
Init ==
    /\ schedule \in Schedules
    /\ \E kind \in Kinds, triggers \in {"file", "hook", "both"} :
       /\ schedule = "interval" => triggers = "both" /\ kind = "agent" \* bound: not every combination
       /\ triggers = "file" => kind = "command"
       /\ triggers = "hook" => kind = "agent"
       /\ LET ran == triggers = "both" IN
          rec = [NewRoutine(kind, 0, 0) EXCEPT
                !.file = IF triggers = "hook" THEN @ ELSE FileTrigger(1, FALSE),
                !.hook = IF triggers = "file" THEN @
                         ELSE [WebhookTrigger(1, ~ran) EXCEPT !.recent = [i \in 1..RecentLimit |-> "old"]],
                !.status = IF ran THEN "completed" ELSE "none",
                !.date = IF ran THEN 0 ELSE Never,
                !.at = IF ran /\ schedule = "interval" THEN 0 ELSE Never]
    /\ co = [t \in Callers |-> Idle]
    /\ turn = [n \in Runs |-> "none"] /\ version = 1 /\ clock = 0
    /\ runs = <<>> /\ excused = {} /\ rolledBack = {} /\ undone = FALSE /\ forgotten = {} /\ twists = 0

Twist == twists < MaxTwists /\ twists' = twists + 1
To(t, c) == co' = [co EXCEPT ![t] = c]

-----------------------------------------------------------------------------
(* app_routines.py                                                         *)

\* routine_has_active_run.
HasActiveRun(s) == s.status \in ActiveStatus

\* Mutant: a failed run may retry the same day too.
IsDueAfterFailure(s) ==
    /\ s.enabled
    /\ IF schedule = "interval" THEN s.at = Never \/ clock - s.at >= 1
       ELSE s.date # Today \/ s.status \in {"stale", "failed"}

\* routine_is_due.
IsDue(s) ==
    /\ s.enabled
    /\ IF schedule = "interval" THEN s.at = Never \/ clock - s.at >= 1
       ELSE s.date # Today \/ s.status = "stale"

\* routine_active_run_is_stale.
IsStale(s) == HasActiveRun(s) /\ (s.started = Never \/ clock - s.started >= StaleTicks)

\* The bound on runs refuses a reservation, it does not stop the caller.
\* A run begins: the reservation is in the file, the coroutine goes on to launch it.
NewRun == Len(runs) + 1
CanRun == Len(runs) < MaxRuns
Started(t, origin) ==
    runs' = Append(runs, [origin |-> origin, at |-> clock, kind |-> rec.kind,
                          event |-> co[t].event, id |-> co[t].id])
Launching(t) == To(t, [Idle EXCEPT !.pc = "launch", !.run = NewRun,
                              !.swept = co[t].pc = "due" /\ ~co[t].force])
Reserved(s) == [s EXCEPT !.status = "starting", !.started = clock]

\* The days, or times, with a scheduled run, and those of them whose mark the new record
\* no longer holds.
Slots == {Slot(runs[n].at) : n \in {k \in DOMAIN runs : runs[k].origin = "schedule"}}
Voided(s) ==
    Slots \cap (IF schedule = "interval" THEN {rec.at} \ -1..s.at
                ELSE ({rec.date} \ -1..s.date)
                     \cup (IF s.status = "stale" /\ rec.status # "stale" THEN {Today} ELSE {}))

\* The marks of the schedule: the date, and for an interval the time.
Dated(s, day, t) == [s EXCEPT !.date = day, !.at = IF schedule = "interval" THEN t ELSE @]

-----------------------------------------------------------------------------
(* reconcile_routine_terminal_statuses.                                    *)

\* _resolved_routine_turn_status and _read_routine_turn_status: the session record may
\* lag behind the turn, and reading the thread may fail.
Resolved(n) == IF n = NoRun THEN {"none"} ELSE {turn[n], "none"}

\* A sweep begins, on schedule or, of this routine alone and at once, by a caller.  It
\* reads which turn the record names and asks for its status.
ReconcileRead(t) ==
    /\ co[t].pc = "idle"
    /\ LET key == IF rec.present /\ HasActiveRun(rec) THEN rec.run ELSE NoRun IN
       \E force \in BOOLEAN, found \in Resolved(key) :
          /\ IF force THEN Twist ELSE UNCHANGED twists
          /\ To(t, [Idle EXCEPT !.pc = "resolve", !.force = force, !.key = key, !.found = found])
    /\ UNCHANGED <<schedule, rec, turn, version, clock, runs, excused, rolledBack, undone, forgotten>>

\* Mutant: runs that cannot be resolved are left alone.
ReconciledResolvable(s, status) ==
    IF HasActiveRun(s) /\ status \in Ended
    THEN [s EXCEPT !.status = IF status = "completed" THEN "completed" ELSE "failed"] ELSE s

\* The record after reconciliation: an active run whose turn ended ends with it; one
\* whose turn cannot be resolved is marked stale when it is old.
Reconciled(s, status) ==
    IF ~HasActiveRun(s) THEN s
    ELSE IF status \in Ended
         THEN [s EXCEPT !.status = IF status = "completed" THEN "completed" ELSE "failed"]
    ELSE IF IsStale(s) THEN [s EXCEPT !.status = "stale"]
    ELSE s

\* The file is read again, without its lock: what was found counts if the record still
\* names the same turn, else the session record is asked again.
ReconcileApply(t) ==
    LET c == co[t]
        known == c.key = rec.run /\ c.found # "none"
        due == [c EXCEPT !.pc = "due", !.key = NoRun, !.found = "none"]
    IN /\ c.pc = "resolve"
       /\ \E found \in IF known THEN {c.found} ELSE Resolved(rec.run) :
             LET s == IF rec.present THEN Reconciled(rec, found) ELSE rec
             IN To(t, IF s = rec THEN due ELSE [due EXCEPT !.pc = "write", !.snap = <<rec, s>>])
       /\ UNCHANGED <<schedule, rec, turn, version, clock, runs, excused, rolledBack, undone, forgotten, twists>>

\* write_state_file: the whole file is replaced by what was made of the one read before,
\* which other processes may have changed since: only _state_lock is held, of this process.
ReconcileWrite(t) ==
    LET c == co[t] IN
    /\ c.pc = "write"
    /\ rec' = c.snap[2]
    /\ IF rec = c.snap[1]
       THEN excused' = excused \cup Voided(rec') /\ UNCHANGED <<rolledBack, undone>>
       ELSE rolledBack' = rolledBack \cup Voided(rec') /\ undone' = TRUE /\ UNCHANGED excused
    /\ To(t, [c EXCEPT !.pc = "due", !.snap = <<>>])
    /\ UNCHANGED <<schedule, turn, version, clock, runs, forgotten, twists>>

-----------------------------------------------------------------------------
(* Scheduled, forced and emitted runs.                                     *)

\* reserve_due_routines: due and without an active run, or forced.
ReserveDue(t) ==
    /\ co[t].pc = "due"
    /\ IF rec.present /\ CanRun /\ (co[t].force \/ (IsDue(rec) /\ ~HasActiveRun(rec)))
       THEN /\ rec' = Dated(Reserved(rec), Today, clock)
            /\ Started(t, IF co[t].force THEN "forced" ELSE "schedule")
            /\ Launching(t)
       ELSE /\ To(t, [Idle EXCEPT !.pc = IF co[t].force THEN "idle" ELSE "scan"])
            /\ UNCHANGED <<rec, runs>>
    /\ UNCHANGED <<schedule, turn, version, clock, excused, rolledBack, undone, forgotten, twists>>

\* list_routines, read_routine, routine_status_summary: reconciled, nothing more.
Listed(t) ==
    /\ co[t].pc = "due"
    /\ To(t, Idle)
    /\ UNCHANGED <<schedule, rec, turn, version, clock, runs, excused, rolledBack, undone, forgotten, twists>>

\* emit_routine_event: no trigger, no de-duplication, disabled or not.
Emit(t) ==
    /\ co[t].pc = "idle" /\ CanRun /\ rec.present
    /\ Twist
    /\ rec' = Reserved(rec)
    /\ Started(t, "event")
    /\ Launching(t)
    /\ UNCHANGED <<schedule, turn, version, clock, excused, rolledBack, undone, forgotten>>

\* routine_launch_status: an agent's turn starts, or is queued behind another, or the
\* launch fails; a command runs to its end.
LaunchOutcomes(kind) == IF kind = "agent" THEN {"started", "queued", "failed"} ELSE {"completed", "failed"}

\* run_routine up to the record: the date is taken here, perhaps a day after the
\* reservation.  A turn that ended before the launch was recorded counts as a failure.
Launch(t) ==
    LET n == co[t].run IN
    /\ co[t].pc = "launch"
    /\ \E outcome \in LaunchOutcomes(runs[n].kind) :
          /\ turn' = [turn EXCEPT ![n] = IF outcome = "started" THEN "running" ELSE @]
          /\ To(t, [co[t] EXCEPT !.pc = "record", !.day = Today, !.outcome = outcome])
    /\ UNCHANGED <<schedule, rec, version, clock, runs, excused, rolledBack, undone, forgotten, twists>>

\* record_routine_run: of a routine that is still there.  Event runs leave the marks of
\* the schedule alone; a launch that raised leaves the turn of the run before.
RecordRun(t) ==
    LET c == co[t]
        n == c.run
        ended == c.outcome = "started" /\ turn[n] \in Ended
    IN /\ c.pc = "record"
       /\ IF ~rec.present THEN UNCHANGED <<rec, excused>>
          ELSE \E status \in {c.outcome} \cup (IF ended THEN {"failed"} ELSE {}),
                  run \in CASE c.outcome = "started" -> {n}
                            [] c.outcome = "failed" -> {rec.run, NoRun}
                            [] OTHER -> {NoRun} :
                  LET s == [rec EXCEPT !.status = status, !.started = clock, !.run = run] IN
                  /\ rec' = IF runs[n].origin \in {"schedule", "forced"} THEN Dated(s, c.day, runs[n].at) ELSE s
                  /\ excused' = excused \cup Voided(rec')
       /\ To(t, [Idle EXCEPT !.pc = IF c.swept THEN "scan" ELSE "idle"])
       /\ UNCHANGED <<schedule, turn, version, clock, runs, rolledBack, undone, forgotten, twists>>

-----------------------------------------------------------------------------
(* sweep_file_triggers and deliver_webhook_event.                          *)

\* scan_file_trigger: the files differ from those seen; all but the first scan report it.
Changed(trigger) == trigger.seen # version
Reported(trigger) == trigger.seen # NeverScanned

\* The triggers of the routine: the state read and the file system compared.  A first scan only
\* takes note; after that a file that is new or changed is an event.
Scan(t) ==
    /\ co[t].pc = "scan"
    /\ IF rec.present /\ rec.file.on /\ Changed(rec.file)
       THEN To(t, [Idle EXCEPT !.pc = "seen", !.seen = version, !.via = "file", !.id = rec.file.id,
                       !.event = IF rec.enabled /\ Reported(rec.file) THEN FileEvent(version) ELSE NoEvent])
       ELSE To(t, Idle)
    /\ UNCHANGED <<schedule, rec, turn, version, clock, runs, excused, rolledBack, undone, forgotten, twists>>

\* _record_seen_files, before anything is delivered.
RecordSeen(t) ==
    LET c == co[t] IN
    /\ c.pc = "seen"
    /\ rec' = IF rec.present /\ rec.file.on /\ rec.file.id = c.id
              THEN [rec EXCEPT !.file.seen = c.seen] ELSE rec
    /\ To(t, IF c.event = NoEvent THEN Idle ELSE [c EXCEPT !.pc = "event", !.seen = NoFile])
    /\ UNCHANGED <<schedule, turn, version, clock, runs, excused, rolledBack, undone, forgotten, twists>>

\* An event that came before: its sender's retries are not bounded.
Known(e) ==
    \/ e \in ToSet(rec.hook.recent)
    \/ \E n \in DOMAIN runs : runs[n].event = e
    \/ \E t \in Callers : co[t].event = e

\* deliver_webhook_event, up to its reservation: the token names the trigger.
Deliver(t, e) ==
    /\ co[t].pc = "idle" /\ rec.present /\ rec.hook.on
    /\ IF Known(e) THEN UNCHANGED twists ELSE Twist
    /\ To(t, [Idle EXCEPT !.pc = "event", !.event = e, !.via = "hook", !.id = rec.hook.id])
    /\ UNCHANGED <<schedule, rec, turn, version, clock, runs, excused, rolledBack, undone, forgotten>>

\* Mutant: the allowlist is checked only when one is configured.
AuthorizedByList(c) == c.via = "file" \/ c.event \notin Strangers \/ ~rec.hook.allow

\* The sender is looked up in the allowlist when there is one, and always when an
\* outside event would start an agent.
Authorized(c) ==
    \/ c.via = "file"
    \/ c.event \notin Strangers /\ rec.hook.allow
    \/ ~rec.hook.allow /\ rec.kind = "command"

\* The trigger with the event's id among the last RECENT_EVENT_IDS_LIMIT ones.
Full(c) == Len(rec[c.via].recent) >= RecentLimit
Noted(c) ==
    LET all == Append(rec[c.via].recent, c.event)
    IN [rec EXCEPT ![c.via].recent = IF Full(c) THEN Tail(all) ELSE all]
Forgotten(c) == IF Full(c) THEN {<<Head(rec[c.via].recent), c.id>>} ELSE {}

\* Mutant: only an id that was turned away is noted.
ReserveEventUnnoted(t) ==
    LET c == co[t] IN
    /\ c.pc = "event"
    /\ IF CanRun /\ rec.present /\ rec[c.via].on /\ rec[c.via].id = c.id /\ rec.enabled /\ Authorized(c)
       THEN rec' = Reserved(rec) /\ Started(t, "event") /\ Launching(t)
       ELSE To(t, Idle) /\ UNCHANGED <<rec, runs>>
    /\ UNCHANGED <<schedule, turn, version, clock, excused, rolledBack, undone, forgotten, twists>>

\* _reserve_event_run: known trigger, new id, enabled, authorised; the id is noted
\* whatever the decision.  Of the events of a sweep one is followed.
ReserveEvent(t) ==
    LET c == co[t]
        known == CanRun /\ rec.present /\ rec[c.via].on /\ rec[c.via].id = c.id
    IN /\ c.pc = "event"
       /\ \/ /\ ~known \/ c.event \in ToSet(rec[c.via].recent)
             /\ To(t, Idle) /\ UNCHANGED <<rec, runs, forgotten>>
          \/ /\ known /\ c.event \notin ToSet(rec[c.via].recent)
             /\ IF rec.enabled /\ Authorized(c)
                THEN rec' = Reserved(Noted(c)) /\ Started(t, "event") /\ Launching(t)
                ELSE rec' = Noted(c) /\ To(t, Idle) /\ UNCHANGED runs
             /\ forgotten' = forgotten \cup Forgotten(c)
       /\ UNCHANGED <<schedule, turn, version, clock, excused, rolledBack, undone, twists>>

-----------------------------------------------------------------------------
(* Callers that edit the routine.                                          *)

Edited(s) ==
    /\ Twist
    /\ rec' = s
    /\ excused' = excused \cup Voided(rec')
    /\ UNCHANGED <<schedule, co, turn, version, clock, runs, rolledBack, undone, forgotten>>

\* save_routine: merges into the record, its triggers and marks included, or makes one.
SaveRoutine == \E kind \in Kinds, enabled \in BOOLEAN :
    Edited([(IF rec.present THEN rec ELSE NewRoutine(kind, rec.file.id, rec.hook.id))
               EXCEPT !.kind = kind, !.enabled = enabled])

DeleteRoutine ==
    rec.present /\ Edited([NewRoutine(rec.kind, rec.file.id, rec.hook.id) EXCEPT !.present = FALSE])

\* validate_trigger_input: a webhook that starts agents needs an allowlist.
Admissible(kind, allow) == kind = "agent" => allow

AddTrigger ==
    /\ rec.present
    /\ \/ /\ ~rec.file.on
          /\ \E fire \in BOOLEAN : Edited([rec EXCEPT !.file = FileTrigger(@.id + 1, fire)])
       \/ /\ ~rec.hook.on
          /\ \E allow \in BOOLEAN : Admissible(rec.kind, allow)
                                   /\ Edited([rec EXCEPT !.hook = WebhookTrigger(@.id + 1, allow)])

RemoveTrigger ==
    /\ rec.present
    /\ \/ rec.file.on /\ Edited([rec EXCEPT !.file = NoTrigger(@.id)])
       \/ rec.hook.on /\ Edited([rec EXCEPT !.hook = NoTrigger(@.id)])

-----------------------------------------------------------------------------
(* The world.                                                              *)

FileChanges ==
    /\ version < MaxVersions /\ version' = version + 1 /\ Twist
    /\ UNCHANGED <<schedule, rec, co, turn, clock, runs, excused, rolledBack, undone, forgotten>>

\* The end of a turn that neither the record nor a launch names makes no difference.
TurnEnds(n) ==
    /\ rec.run = n \/ \E t \in Callers : co[t].run = n
    /\ turn[n] = "running" /\ \E end \in Ended : turn' = [turn EXCEPT ![n] = end]
    /\ UNCHANGED <<schedule, rec, co, version, clock, runs, excused, rolledBack, undone, forgotten, twists>>

Tick ==
    /\ clock < MaxTicks /\ clock' = clock + 1
    /\ UNCHANGED <<schedule, rec, co, turn, version, runs, excused, rolledBack, undone, forgotten, twists>>

\* A process dies: its coroutine is gone.
Crash(t) ==
    /\ co[t] # Idle
    /\ Twist
    /\ To(t, Idle)
    /\ UNCHANGED <<schedule, rec, turn, version, clock, runs, excused, rolledBack, undone, forgotten>>

-----------------------------------------------------------------------------
Sweep(t) ==
    \/ ReconcileRead(t) \/ ReconcileApply(t) \/ ReconcileWrite(t) \/ ReserveDue(t)
    \/ Scan(t) \/ RecordSeen(t)
Running(t) == Launch(t) \/ RecordRun(t) \/ ReserveEvent(t)

Next ==
    \/ \E t \in Callers : \/ Sweep(t) \/ Running(t) \/ Listed(t) \/ Emit(t) \/ Crash(t)
                          \/ \E e \in Events : Deliver(t, e)
    \/ SaveRoutine \/ DeleteRoutine \/ AddTrigger \/ RemoveTrigger
    \/ FileChanges \/ Tick \/ \E n \in Runs : TurnEnds(n)

Spec == Init /\ [][Next]_vars

\* Event loops run their ready coroutines and time passes.  The scheduler is a loop of its
\* own: it sweeps again and again, however many events arrive.
FairSpec ==
    /\ Spec
    /\ \A t \in Callers : WF_vars(Running(t)) /\ SF_vars(Sweep(t))
    /\ WF_vars(Tick)

-----------------------------------------------------------------------------
ScheduledIn(t) == {n \in DOMAIN runs : runs[n].origin = "schedule" /\ Slot(runs[n].at) = t}

\* Whatever sweeps overlap, a routine is scheduled at most once a day (once per interval),
\* unless its mark was voided: the run was given up that day, or the mark was overwritten by
\* an older run that was recorded late or deleted with the routine; or unless a
\* reconciliation, which writes without the file's lock, took back just this mark.  The last
\* is not meant to be: "anything else ran today and stays at-most-once-per-day"
\* (app_routines.py:100-102).  (The type invariant goes along.)
SecondRunIsExcused ==
    /\ TypeOK
    /\ \A t \in 0..MaxTicks : Cardinality(ScheduledIn(t)) > 1 => t \in excused \cup rolledBack

\* The changes of the watched file are delivered once, and so are the retries of a sender,
\* as long as the trigger remembers them (app_client_events.py:144-147: "a crash
\* mid-delivery cannot re-fire the same change").
EventsFireOnce ==
    \A n, k \in DOMAIN runs :
        n # k /\ runs[n].event # NoEvent /\ runs[n].event = runs[k].event /\ runs[n].id = runs[k].id
        => <<runs[n].event, runs[n].id>> \in forgotten

\* However sweeps, deliveries, retries of the sender and crashes interleave, nothing but a
\* reconciliation that overwrote another caller's step makes an event start a second run
\* of its trigger (app_client_events.py:144-147, 230; app_client_routines.py:352-396).
ReplaysAreExplained == undone \/ EventsFireOnce

\* No event of an unknown sender starts an agent, also when the routine became one after
\* its webhook was added, or while the event was on its way (app_client_events.py:249-262).
AgentRunsAreAuthorized ==
    \A n \in DOMAIN runs : runs[n].kind = "agent" => runs[n].event \notin Strangers

\* No run blocks the schedule for ever, crashed or lost as it may be
\* (app_client_routines.py:378-396).
RunsAreGivenUp ==
    \A t \in 0..(MaxTicks - StaleTicks) :
        LET blocked == rec.present /\ HasActiveRun(rec) /\ rec.started = t IN blocked ~> ~blocked
==============================================================================
