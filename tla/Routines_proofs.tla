--------------------------- MODULE Routines_proofs ---------------------------
(***************************************************************************)
(* TLAPS proofs about Routines, for any number of callers, events, runs,   *)
(* edits, crashes and ticks of the clock.                                  *)
(***************************************************************************)
EXTENDS Routines, FiniteSetTheorems, SequenceTheorems, TLAPS

-----------------------------------------------------------------------------
(* The values of the variables.                                            *)

FileEvents == {FileEvent(v) : v \in Versions}
AllEvents == Events \cup FileEvents \cup {NoEvent}

Triggers(ids) ==
    {tr \in [on : BOOLEAN, id : Nat, seen : -1..MaxVersions, allow : BOOLEAN, recent : Seq(ids)] :
        Len(tr.recent) <= RecentLimit}
FileTriggers == Triggers(FileEvents)
HookTriggers == Triggers(Events \cup {"old"})

Marks == -1..MaxTicks
Records == [present : BOOLEAN, enabled : BOOLEAN, kind : Kinds, status : Statuses,
            run : Runs \cup {NoRun}, date : Marks, at : Marks, started : Marks,
            file : FileTriggers, hook : HookTriggers]

\* What a reconciliation makes of the record it read differs in the status alone.
Snapshots == {sn \in Records \X Records : sn[2] = [sn[1] EXCEPT !.status = sn[2].status]}

Pcs == {"idle", "resolve", "write", "due", "launch", "record", "scan", "seen", "event"}
TurnStates == {"none", "running"} \cup Ended
CoRecords == [pc : Pcs, swept : BOOLEAN, force : BOOLEAN, key : Runs \cup {NoRun},
              found : TurnStates, run : Runs \cup {NoRun}, day : Marks,
              outcome : {"none", "started", "queued"} \cup Ended, seen : -1..MaxVersions,
              event : AllEvents, via : {"none", "file", "hook"}, id : Nat,
              snap : {<<>>} \cup Snapshots]

\* Only a delivery has an event; a webhook's ids and those of the files are kept apart.
Fits(c) ==
    /\ c.pc = "write" => c.snap # <<>>
    /\ c.pc \notin {"seen", "event"} => c.event = NoEvent
    /\ c.pc = "seen" => c.via = "file" /\ c.event \notin Events
    /\ c.pc = "event" => c.event # NoEvent /\ c.via = IF c.event \in Events THEN "hook" ELSE "file"
Coroutines == {c \in CoRecords : Fits(c)}

RunRecords == [origin : Origins, at : 0..MaxTicks, kind : Kinds, event : AllEvents, id : Nat]

CoTypes == co \in [Callers -> Coroutines]
WorldTypes == /\ schedule \in Schedules /\ turn \in [Runs -> TurnStates]
              /\ version \in Versions /\ clock \in 0..MaxTicks
HistoryTypes == runs \in Seq(RunRecords) /\ Len(runs) <= MaxRuns /\ undone \in BOOLEAN
Types == rec \in Records /\ CoTypes /\ WorldTypes /\ HistoryTypes

-----------------------------------------------------------------------------
(* The inductive invariant.                                                *)

\* A coroutine that launches or records a run knows which.
LaunchInv ==
    \A t \in Callers : co[t].pc \in {"launch", "record"} => co[t].run \in DOMAIN runs

\* Nothing is of a time to come.
Past(s) == s.date <= Today /\ s.at <= clock
Timely(c) ==
    /\ c.snap # <<>> => Past(c.snap[2])
    /\ c.pc = "record" => c.day <= Today
PastInv ==
    /\ Past(rec)
    /\ \A t \in Callers : Timely(co[t])
    /\ \A n \in DOMAIN runs : runs[n].at <= clock

\* The record's mark that keeps the schedule from a second run: the one reason why the
\* slot of the clock holds no more than one scheduled run, unless the slot is waived.
Held == IF schedule = "interval" THEN rec.at = clock ELSE rec.date = Today /\ rec.status # "stale"
Waived == excused \cup rolledBack
SlotInv == Slot(clock) \in Slots \ Waived => Held
OneRunInv ==
    \A m, n \in DOMAIN runs :
        /\ runs[m].origin = "schedule" /\ runs[n].origin = "schedule"
        /\ Slot(runs[m].at) = Slot(runs[n].at) /\ Slot(runs[n].at) \notin Waived
        => m = n

\* The events, each with an id of the trigger, that cannot start a run of it any more.
SpentOf(tr) ==
    {p \in AllEvents \X Nat : \/ p[2] < tr.id
                              \/ p[2] = tr.id /\ (~tr.on \/ p[1] \in ToSet(tr.recent))}
Spent == {p \in SpentOf(rec.hook) : p[1] \in Events}
         \cup {p \in SpentOf(rec.file) : p[1] \notin Events}
         \cup forgotten
Fired == {<<runs[n].event, runs[n].id>> : n \in {k \in DOMAIN runs : runs[k].event # NoEvent}}
EventInv == ~undone => Fired \subseteq Spent /\ EventsFireOnce

IInv == /\ Types /\ LaunchInv /\ PastInv
        /\ SlotInv /\ OneRunInv /\ EventInv /\ AgentRunsAreAuthorized

-----------------------------------------------------------------------------
(* Lemmas about the operators.                                             *)

LEMMA Constants ==
    /\ Strangers \subseteq Events /\ NoEvent \notin Events
    /\ \A e \in FileEvents : e \notin Events /\ e # NoEvent
    /\ RecentLimit \in Nat \ {0} /\ TicksPerDay \in Nat \ {0} /\ StaleTicks \in Nat \ {0}
    /\ MaxVersions \in Nat \ {0} /\ MaxRuns \in Nat /\ MaxTicks \in Nat
<1>1. \A v \in Versions : FileEvent(v) \notin Events /\ FileEvent(v) # NoEvent
    BY EventsAssumption DEF FileEvent, NoEvent
<1>2. \A e \in FileEvents : e \notin Events /\ e # NoEvent
    BY <1>1 DEF FileEvents
<1> QED
    BY <1>2, RoutinesAssumption, EventsAssumption

\* Days are counted from the first and never run backwards.
LEMMA Days ==
    ASSUME NEW a \in Nat, NEW b \in Nat, a <= b
    PROVE  Day(a) \in 0..a /\ Day(a) <= Day(b)
<1> DEFINE d == TicksPerDay
<1>1. d \in Nat /\ d > 0
    BY Constants
<1>2. /\ Day(a) \in Int /\ a = d * Day(a) + (a % d) /\ a % d \in 0..(d - 1)
      /\ Day(b) \in Int /\ b = d * Day(b) + (b % d) /\ b % d \in 0..(d - 1)
    BY <1>1 DEF Day
<1> QED
    BY <1>1, <1>2

LEMMA CoTyped ==
    ASSUME CoTypes, NEW t \in Callers, NEW c \in Coroutines, To(t, c)
    PROVE  CoTypes' /\ \A u \in Callers : co'[u] = IF u = t THEN c ELSE co[u]
BY DEF CoTypes, To

LEMMA IdleFits == Idle \in Coroutines
BY Constants DEF Marks, Never, Idle, Coroutines, CoRecords, Fits, Pcs, Runs, TurnStates, AllEvents, NoFile, NoRun

LEMMA NewTriggers ==
    ASSUME NEW ids, NEW n \in Nat
    PROVE  /\ NoTrigger(n) \in Triggers(ids)
           /\ \A b \in BOOLEAN : /\ FileTrigger(n, b) \in Triggers(ids)
                                 /\ WebhookTrigger(n, b) \in Triggers(ids)
           /\ \A b \in BOOLEAN : FileTrigger(n, b).id = n /\ WebhookTrigger(n, b).id = n
           /\ NoTrigger(n).id = n /\ ~NoTrigger(n).on
<1>1. ASSUME NEW on \in BOOLEAN, NEW seen \in -1..MaxVersions, NEW allow \in BOOLEAN
      PROVE  /\ Trigger(on, n, seen, allow) \in Triggers(ids)
             /\ Trigger(on, n, seen, allow).id = n /\ Trigger(on, n, seen, allow).on = on
    BY Constants DEF Trigger, Triggers
<1>2. NeverScanned \in -1..MaxVersions /\ NoFile \in -1..MaxVersions
    BY Constants DEF NeverScanned, NoFile
<1> QED
    BY <1>1, <1>2 DEF NoTrigger, FileTrigger, WebhookTrigger

LEMMA NewRecord ==
    ASSUME NEW kind \in Kinds, NEW m \in Nat, NEW n \in Nat
    PROVE  /\ NewRoutine(kind, m, n) \in Records
           /\ NewRoutine(kind, m, n).file = NoTrigger(m) /\ NewRoutine(kind, m, n).hook = NoTrigger(n)
           /\ NewRoutine(kind, m, n).date = Never /\ NewRoutine(kind, m, n).at = Never
           /\ NewRoutine(kind, m, n).status = "none"
<1>1. NoTrigger(m) \in FileTriggers /\ NoTrigger(n) \in HookTriggers
    BY NewTriggers DEF FileTriggers, HookTriggers
<1>2. Never \in Marks /\ NoRun \in Runs \cup {NoRun}
    BY Constants DEF Marks, Never
<1> HIDE DEF FileTriggers, HookTriggers
<1> QED
    BY <1>1, <1>2 DEF NewRoutine, Records, Statuses

LEMMA RecordParts ==
    ASSUME NEW s \in Records
    PROVE  /\ s.present \in BOOLEAN /\ s.enabled \in BOOLEAN /\ s.kind \in Kinds
           /\ s.status \in Statuses /\ s.run \in Runs \cup {NoRun}
           /\ s.date \in Marks /\ s.at \in Marks /\ s.started \in Marks
           /\ s.file \in FileTriggers /\ s.hook \in HookTriggers
           /\ \A tr \in {s.file, s.hook} : tr.id \in Nat /\ Len(tr.recent) <= RecentLimit
           /\ s.file.recent \in Seq(FileEvents) /\ s.hook.recent \in Seq(Events \cup {"old"})
BY DEF Records, FileTriggers, HookTriggers, Triggers

LEMMA TypeParts == Types => TypeOK
<1> SUFFICES ASSUME Types PROVE TypeOK
    OBVIOUS
<1>1. /\ rec.present \in BOOLEAN /\ rec.enabled \in BOOLEAN /\ rec.kind \in Kinds
      /\ rec.status \in Statuses /\ rec.run \in Runs \cup {NoRun}
      /\ {rec.date, rec.at, rec.started} \subseteq -1..MaxTicks
      /\ Len(rec.file.recent) <= RecentLimit /\ Len(rec.hook.recent) <= RecentLimit
    BY RecordParts DEF Types, Marks
<1>2. \A t \in Callers :
          co[t].pc \in {"idle", "resolve", "write", "due", "launch", "record", "scan", "seen", "event"}
    BY DEF Types, CoTypes, Coroutines, CoRecords, Pcs
<1>3. \A n \in DOMAIN runs : runs[n].origin \in Origins /\ runs[n].kind \in Kinds
  <2>1. \A n \in DOMAIN runs : runs[n] \in RunRecords
      BY DEF Types, HistoryTypes
  <2> QED
      BY <2>1 DEF RunRecords
<1> QED
    BY <1>1, <1>2, <1>3 DEF Types, HistoryTypes, WorldTypes, TurnStates, TypeOK

\* What an id that is noted does to the events of its trigger: none comes back but the
\* one that falls off the list.
LEMMA NotedTrigger ==
    ASSUME NEW ids, NEW tr \in Triggers(ids), NEW e \in ids, NEW new \in Seq(ids),
           new = IF Len(tr.recent) >= RecentLimit THEN Tail(Append(tr.recent, e)) ELSE Append(tr.recent, e)
    PROVE  /\ [tr EXCEPT !.recent = new] \in Triggers(ids)
           /\ e \in ToSet(new)
           /\ \A f \in ToSet(tr.recent) :
                  f \in ToSet(new) \/ (Len(tr.recent) >= RecentLimit /\ f = Head(tr.recent))
<1> DEFINE old == tr.recent  all == Append(old, e)
<1>1. old \in Seq(ids) /\ Len(old) \in Nat /\ Len(old) <= RecentLimit
    BY DEF Triggers
<1>2. /\ all \in Seq(ids) /\ Len(all) = Len(old) + 1 /\ all # <<>>
      /\ \A i \in 1..Len(old) : all[i] = old[i]
      /\ all[Len(old) + 1] = e
    BY <1>1, AppendProperties
<1> HIDE DEF old, all
<1>3. Len(new) <= RecentLimit
    BY <1>1, <1>2, HeadTailProperties, Constants DEF all, old
<1>4. [tr EXCEPT !.recent = new] \in Triggers(ids)
    BY <1>3 DEF Triggers
<1>5. CASE Len(old) >= RecentLimit
  <2>1. /\ new \in Seq(ids) /\ Len(new) = Len(old)
        /\ \A i \in 1..Len(old) : new[i] = all[i + 1]
    <3>1. new = Tail(all)
        BY <1>5 DEF all, old
    <3>2. /\ Tail(all) \in Seq(ids) /\ Len(Tail(all)) = Len(all) - 1
          /\ \A i \in 1..Len(Tail(all)) : Tail(all)[i] = all[i + 1]
        BY <1>2, HeadTailProperties
    <3>3. Len(all) - 1 = Len(old)
        BY <1>1, <1>2
    <3> QED
        BY <3>1, <3>2, <3>3
  <2>2. e \in ToSet(new)
    <3>1. Len(old) \in DOMAIN new /\ new[Len(old)] = e
        BY <1>1, <1>2, <1>5, <2>1, Constants
    <3> QED
        BY <3>1 DEF ToSet
  <2>3. ASSUME NEW f \in ToSet(old) PROVE f \in ToSet(new) \/ f = Head(old)
    <3>1. PICK i \in 1..Len(old) : f = old[i]
        BY <1>1 DEF ToSet
    <3>2. CASE i = 1
        BY <3>1, <3>2, <1>1
    <3>3. CASE i # 1
      <4>1. i - 1 \in 1..Len(old) /\ (i - 1) + 1 = i
          BY <1>1, <3>1, <3>3
      <4>2. new[i - 1] = all[i] /\ all[i] = f
          BY <1>2, <2>1, <3>1, <4>1
      <4>3. i - 1 \in DOMAIN new /\ new[i - 1] = f
          BY <2>1, <4>1, <4>2
      <4> QED
          BY <4>3 DEF ToSet
    <3> QED
        BY <3>2, <3>3
  <2> QED
      BY <1>4, <1>5, <2>2, <2>3 DEF old
<1>6. CASE ~(Len(old) >= RecentLimit)
  <2>1. new = all
      BY <1>6 DEF all, old
  <2>2. \A i \in 1..Len(old) + 1 : all[i] \in ToSet(all)
      BY <1>1, <1>2 DEF ToSet
  <2>3. \A f \in ToSet(old) : \E i \in 1..Len(old) : f = old[i]
      BY <1>1 DEF ToSet
  <2>4. e \in ToSet(all) /\ \A f \in ToSet(old) : f \in ToSet(all)
      BY <1>1, <1>2, <2>2, <2>3
  <2> QED
      BY <1>4, <2>1, <2>4 DEF old
<1> QED
    BY <1>5, <1>6

-----------------------------------------------------------------------------
(* What the steps have in common.                                          *)

\* A step that starts no run, at the same time.
LEMMA KeptStep ==
    ASSUME IInv, Types', LaunchInv', PastInv',
           schedule' = schedule, clock' = clock, runs' = runs, Waived \subseteq Waived',
           Held /\ Slot(clock) \in Slots => Held' \/ Slot(clock) \in Waived',
           ~undone' => ~undone /\ Spent \subseteq Spent' /\ forgotten \subseteq forgotten'
    PROVE  IInv'
<1> DEFINE at(n) == runs[n].at
<1>1. Slots' = Slots /\ Slot(clock)' = Slot(clock) /\ \A n \in DOMAIN runs : Slot(at(n))' = Slot(at(n))
    BY DEF Slots, Slot
<1>2. SlotInv'
    BY <1>1 DEF IInv, SlotInv
<1>3. OneRunInv'
  <2>1. \A m, n \in DOMAIN runs : /\ Slot(runs[m].at)' = Slot(runs[m].at)
                                  /\ Slot(runs[n].at)' = Slot(runs[n].at)
      BY DEF Slot
  <2> QED
      BY <2>1 DEF IInv, OneRunInv
<1>4. EventInv'
  <2>1. Fired' = Fired
      BY DEF Fired
  <2>2. ASSUME ~undone' PROVE EventsFireOnce'
      BY <2>2 DEF IInv, EventInv, EventsFireOnce
  <2> QED
      BY <2>1, <2>2 DEF IInv, EventInv
<1>5. AgentRunsAreAuthorized'
    BY DEF IInv, AgentRunsAreAuthorized
<1> QED
    BY <1>2, <1>3, <1>4, <1>5 DEF IInv

\* A step that leaves the record alone too: what its coroutine read or was told.
LEMMA QuietStep ==
    ASSUME IInv, Types', LaunchInv',
           \A t \in Callers : Timely(co'[t]),
           schedule' = schedule, clock' = clock, runs' = runs, excused' = excused, rolledBack' = rolledBack, rec' = rec,
           undone' = undone, forgotten' = forgotten
    PROVE  IInv'
<1>1. PastInv'
    BY DEF IInv, PastInv, Past, Timely, Today, Day
<1>2. Held' = Held /\ Spent' = Spent
    BY DEF Held, Today, Day, Spent, SpentOf
<1> QED
    BY <1>1, <1>2, KeptStep DEF Waived

\* A step that starts a run.
LEMMA BeginStep ==
    ASSUME IInv, Types', LaunchInv', PastInv', NEW r \in RunRecords,
           schedule' = schedule, clock' = clock, runs' = Append(runs, r), Waived' = Waived,
           undone' = undone, r.at = clock,
           Held => Held', r.origin = "schedule" => ~Held /\ Held',
           r.kind = "agent" => r.event \notin Strangers,
           forgotten \subseteq forgotten', ~undone => Spent \subseteq Spent',
           r.event # NoEvent => /\ <<r.event, r.id>> \in Spent'
                                /\ <<r.event, r.id>> \in Spent => <<r.event, r.id>> \in forgotten'
    PROVE  IInv'
<1> DEFINE new == Len(runs) + 1
<1>1. /\ DOMAIN runs = 1..Len(runs) /\ Len(runs) \in Nat
      /\ DOMAIN runs' = 1..new
      /\ \A n \in DOMAIN runs : runs'[n] = runs[n]
      /\ runs'[new] = r
  <2>1. runs \in Seq(RunRecords) /\ runs' \in Seq(RunRecords)
      BY DEF IInv, Types, HistoryTypes
  <2> QED
      BY <2>1, AppendProperties
<1> HIDE DEF new
<1>2. \A n \in DOMAIN runs' : n \in DOMAIN runs \/ n = new
    BY <1>1 DEF new
<1>3. new \notin DOMAIN runs /\ new \in DOMAIN runs'
    BY <1>1 DEF new
<1>4. \A n \in DOMAIN runs : Slot(runs[n].at)' = Slot(runs[n].at)
    BY <1>1 DEF Slot
<1>5. Slot(clock)' = Slot(clock) /\ \A n \in DOMAIN runs' : n = new => Slot(runs[n].at)' = Slot(clock)
    BY <1>1 DEF Slot
<1>6. SlotInv'
  <2>1. Slots' \subseteq Slots \cup (IF r.origin = "schedule" THEN {Slot(clock)} ELSE {})
    <3> SUFFICES ASSUME NEW n \in DOMAIN runs', runs'[n].origin = "schedule"
                 PROVE  Slot(runs[n].at)'
                            \in Slots \cup (IF r.origin = "schedule" THEN {Slot(clock)} ELSE {})
        BY DEF Slots
    <3>1. CASE n \in DOMAIN runs
        BY <3>1, <1>1, <1>4 DEF Slots
    <3>2. CASE n = new
        BY <3>2, <1>1, <1>5
    <3> QED
        BY <3>1, <3>2, <1>2
  <2> QED
      BY <2>1, <1>5 DEF IInv, SlotInv
<1>7. OneRunInv'
  <2> SUFFICES ASSUME NEW m \in DOMAIN runs', NEW n \in DOMAIN runs',
                      runs'[m].origin = "schedule", runs'[n].origin = "schedule",
                      Slot(runs[m].at)' = Slot(runs[n].at)', Slot(runs[n].at)' \notin Waived
               PROVE  m = n
      BY DEF OneRunInv
  <2>1. CASE m \in DOMAIN runs /\ n \in DOMAIN runs
      BY <2>1, <1>1, <1>4 DEF IInv, OneRunInv
  <2>2. CASE m = new /\ n \in DOMAIN runs
    <3>1. Slot(runs[n].at) = Slot(clock) /\ runs[n].origin = "schedule" /\ Slot(clock) \notin Waived
        BY <2>2, <1>1, <1>4, <1>5
    <3>2. Slot(clock) \in Slots
        BY <3>1, <2>2 DEF Slots
    <3> QED
        BY <2>2, <3>1, <3>2, <1>1 DEF IInv, SlotInv
  <2>3. CASE n = new /\ m \in DOMAIN runs
    <3>1. Slot(runs[m].at) = Slot(clock) /\ runs[m].origin = "schedule" /\ Slot(clock) \notin Waived
        BY <2>3, <1>1, <1>4, <1>5
    <3>2. Slot(clock) \in Slots
        BY <3>1, <2>3 DEF Slots
    <3> QED
        BY <2>3, <3>1, <3>2, <1>1 DEF IInv, SlotInv
  <2> QED
      BY <2>1, <2>2, <2>3, <1>2
<1>8. EventInv'
  <2> SUFFICES ASSUME ~undone PROVE Fired' \subseteq Spent' /\ EventsFireOnce'
      BY DEF EventInv
  <2>1. Fired' \subseteq Spent'
    <3> SUFFICES ASSUME NEW n \in DOMAIN runs', runs'[n].event # NoEvent
                 PROVE  <<runs'[n].event, runs'[n].id>> \in Spent'
        BY DEF Fired
    <3>1. CASE n \in DOMAIN runs
        BY <3>1, <1>1 DEF Fired, IInv, EventInv
    <3>2. CASE n = new
        BY <3>2, <1>1
    <3> QED
        BY <3>1, <3>2, <1>2
  <2>2. EventsFireOnce'
    <3> SUFFICES ASSUME NEW n \in DOMAIN runs', NEW k \in DOMAIN runs', n # k, runs'[n].event # NoEvent,
                        runs'[n].event = runs'[k].event, runs'[n].id = runs'[k].id
                 PROVE  <<runs'[n].event, runs'[n].id>> \in forgotten'
        BY DEF EventsFireOnce
    <3>1. CASE n \in DOMAIN runs /\ k \in DOMAIN runs
        BY <3>1, <1>1 DEF IInv, EventInv, EventsFireOnce
    <3>2. ASSUME NEW i \in DOMAIN runs, runs[i].event = r.event, runs[i].id = r.id, r.event # NoEvent
          PROVE  <<r.event, r.id>> \in forgotten'
        BY <3>2 DEF Fired, IInv, EventInv
    <3> QED
        BY <3>1, <3>2, <1>1, <1>2
  <2> QED
      BY <2>1, <2>2
<1>9. AgentRunsAreAuthorized'
    BY <1>1, <1>2 DEF IInv, AgentRunsAreAuthorized
<1> QED
    BY <1>6, <1>7, <1>8, <1>9 DEF IInv

\* A step of a coroutine, whatever it does to the rest.
LEMMA Move ==
    ASSUME IInv, NEW t \in Callers, NEW c \in Coroutines, To(t, c),
           schedule' = schedule, clock' = clock, DOMAIN runs \subseteq DOMAIN runs',
           c.pc \in {"launch", "record"} => c.run \in DOMAIN runs',
           Timely(c)
    PROVE  /\ CoTypes' /\ LaunchInv'
           /\ \A u \in Callers : Timely(co'[u])
<1>1. CoTypes' /\ \A u \in Callers : co'[u] = IF u = t THEN c ELSE co[u]
    BY CoTyped DEF IInv, Types
<1>2. LaunchInv'
    BY <1>1 DEF IInv, LaunchInv
<1>3. \A u \in Callers : Timely(co'[u])
    BY <1>1 DEF IInv, PastInv
<1> QED
    BY <1>1, <1>2, <1>3

\* A step of a coroutine that leaves the record and the history alone.
LEMMA QuietMove ==
    ASSUME IInv, NEW t \in Callers, NEW c \in Coroutines, To(t, c),
           schedule' = schedule, clock' = clock, runs' = runs, excused' = excused, rolledBack' = rolledBack, rec' = rec,
           undone' = undone, forgotten' = forgotten,
           turn' \in [Runs -> TurnStates], version' \in Versions,
           c.pc \in {"launch", "record"} => c.run \in DOMAIN runs,
           Timely(c)
    PROVE  IInv'
<1>1. /\ CoTypes' /\ LaunchInv'
      /\ \A u \in Callers : Timely(co'[u])
    BY Move
<1>2. Types'
    BY <1>1 DEF IInv, Types, WorldTypes, HistoryTypes
<1> QED
    BY <1>1, <1>2, QuietStep

LEMMA Parts ==
    ASSUME Types
    PROVE  /\ \A t \in Callers : co[t] \in Coroutines
           /\ rec \in Records /\ schedule \in Schedules
           /\ turn \in [Runs -> TurnStates] /\ version \in Versions /\ clock \in 0..MaxTicks
           /\ runs \in Seq(RunRecords) /\ DOMAIN runs = 1..Len(runs) /\ Len(runs) \in 0..MaxRuns
           /\ DOMAIN runs \subseteq Runs /\ clock \in Nat
<1>1. runs \in Seq(RunRecords) /\ Len(runs) <= MaxRuns
    BY DEF Types, HistoryTypes
<1>2. DOMAIN runs = 1..Len(runs) /\ Len(runs) \in Nat
    BY <1>1
<1> QED
    BY <1>1, <1>2, Constants DEF Types, CoTypes, WorldTypes, Runs

LEMMA CoParts ==
    ASSUME NEW c \in Coroutines
    PROVE  /\ c.pc \in Pcs /\ c.swept \in BOOLEAN /\ c.force \in BOOLEAN /\ c.key \in Runs \cup {NoRun}
           /\ c.found \in TurnStates /\ c.run \in Runs \cup {NoRun}
           /\ c.day \in Marks
           /\ c.outcome \in {"none", "started", "queued"} \cup Ended /\ c.seen \in -1..MaxVersions
           /\ c.event \in AllEvents /\ c.via \in {"none", "file", "hook"} /\ c.id \in Nat
           /\ c.snap \in {<<>>} \cup Snapshots
           /\ Fits(c)
BY DEF Coroutines, CoRecords

-----------------------------------------------------------------------------
(* The steps that leave the record alone.                                  *)

LEMMA IdleStep ==
    ASSUME IInv, NEW t \in Callers, To(t, Idle),
           UNCHANGED <<schedule, rec, turn, version, clock, runs, excused, rolledBack, undone, forgotten>>
    PROVE  IInv'
<1>1. Idle \in Coroutines /\ Idle.pc = "idle" /\ Idle.snap = <<>>
    BY IdleFits DEF Idle
<1>2. turn' \in [Runs -> TurnStates] /\ version' \in Versions
    BY Parts DEF IInv
<1> QED
    BY <1>1, <1>2, QuietMove DEF Timely

LEMMA ReconcileReadStep ==
    ASSUME IInv, NEW t \in Callers, ReconcileRead(t)
    PROVE  IInv'
<1> DEFINE key == IF rec.present /\ HasActiveRun(rec) THEN rec.run ELSE NoRun
           c(force, found) ==
               [Idle EXCEPT !.pc = "resolve", !.force = force, !.key = key, !.found = found]
<1>1. PICK force \in BOOLEAN, found \in Resolved(key) : To(t, c(force, found))
    BY DEF ReconcileRead
<1>2. key \in Runs \cup {NoRun} /\ found \in TurnStates
    BY <1>1, Parts, RecordParts DEF IInv, Resolved, TurnStates
<1> HIDE DEF key
<1>3. c(force, found) \in CoRecords
    BY <1>2, IdleFits DEF Coroutines, CoRecords, Pcs
<1>4. /\ c(force, found).pc = "resolve" /\ c(force, found).snap = <<>> /\ c(force, found).event = NoEvent
    BY DEF Idle
<1>5. c(force, found) \in Coroutines
    BY <1>3, <1>4 DEF Coroutines, Fits
<1> HIDE DEF c
<1> QED
    BY <1>1, <1>4, <1>5, QuietMove, Parts DEF IInv, ReconcileRead, Timely

LEMMA ReconciledParts ==
    ASSUME NEW s \in Records, NEW found
    PROVE  /\ Reconciled(s, found) \in Records
           /\ Reconciled(s, found) = [s EXCEPT !.status = Reconciled(s, found).status]
           /\ Reconciled(s, found).date = s.date /\ Reconciled(s, found).at = s.at
<1>1. \A status \in Statuses : LET u == [s EXCEPT !.status = status] IN
          u \in Records /\ u.status = status /\ u.date = s.date /\ u.at = s.at
    BY DEF Records
<1>2. s = [s EXCEPT !.status = s.status]
    BY DEF Records
<1>3. \E status \in Statuses : Reconciled(s, found) = [s EXCEPT !.status = status]
    BY <1>2, RecordParts DEF Reconciled, Statuses, Ended
<1> QED
    BY <1>1, <1>3

LEMMA ReconcileApplyStep ==
    ASSUME IInv, NEW t \in Callers, ReconcileApply(t)
    PROVE  IInv'
<1> DEFINE c == co[t]
           due == [c EXCEPT !.pc = "due", !.key = NoRun, !.found = "none"]
           s(found) == IF rec.present THEN Reconciled(rec, found) ELSE rec
           write(found) == [due EXCEPT !.pc = "write", !.snap = <<rec, s(found)>>]
<1>1. /\ c.pc = "resolve"
      /\ \E found : To(t, IF s(found) = rec THEN due ELSE write(found))
      /\ UNCHANGED <<schedule, rec, turn, version, clock, runs, excused, rolledBack, undone, forgotten>>
    BY DEF ReconcileApply
<1>2. PICK found : To(t, IF s(found) = rec THEN due ELSE write(found))
    BY <1>1
<1>3. c \in Coroutines /\ rec \in Records /\ c.event = NoEvent /\ c.pc = "resolve"
    BY <1>1, Parts DEF IInv, Coroutines, Fits
<1>4. /\ s(found) \in Records /\ s(found) = [rec EXCEPT !.status = s(found).status]
      /\ Past(s(found))
  <2>1. rec = [rec EXCEPT !.status = rec.status]
      BY <1>3 DEF Records
  <2> QED
      BY <2>1, <1>3, ReconciledParts DEF IInv, PastInv, Past
<1>5. <<rec, s(found)>> \in Snapshots
    BY <1>3, <1>4 DEF Snapshots
<1>6. due \in CoRecords /\ due.pc = "due" /\ due.event = NoEvent /\ due.snap = c.snap
    BY <1>3, CoParts DEF Coroutines, CoRecords, Pcs, TurnStates
<1>7. due \in Coroutines
    BY <1>6 DEF Coroutines, Fits
<1> HIDE DEF s, due
<1>8. /\ write(found) \in CoRecords /\ write(found).pc = "write" /\ write(found).event = NoEvent
      /\ write(found).snap = <<rec, s(found)>>
    BY <1>5, <1>6 DEF CoRecords, Pcs
<1>9. write(found) \in Coroutines
  <2>1. <<rec, s(found)>> # <<>>
      OBVIOUS
  <2> QED
      BY <1>8, <2>1 DEF Coroutines, Fits
<1>10. Timely(c)
    BY DEF IInv, PastInv
<1> HIDE DEF c, write
<1> QED
    BY <1>1, <1>2, <1>4, <1>6, <1>7, <1>8, <1>9, <1>10, QuietMove, Parts DEF IInv, Timely

LEMMA ListedStep ==
    ASSUME IInv, NEW t \in Callers, Listed(t)
    PROVE  IInv'
BY IdleStep DEF Listed

LEMMA CrashStep ==
    ASSUME IInv, NEW t \in Callers, Crash(t)
    PROVE  IInv'
BY IdleStep DEF Crash

LEMMA LaunchStep ==
    ASSUME IInv, NEW t \in Callers, Launch(t)
    PROVE  IInv'
<1> DEFINE n == co[t].run
           c(outcome) == [co[t] EXCEPT !.pc = "record", !.day = Today, !.outcome = outcome]
<1>1. PICK outcome \in LaunchOutcomes(runs[n].kind) :
          /\ turn' = [turn EXCEPT ![n] = IF outcome = "started" THEN "running" ELSE @]
          /\ To(t, c(outcome))
    BY DEF Launch
<1>2. /\ outcome \in {"none", "started", "queued"} \cup Ended
      /\ Today \in Marks /\ Today <= Today
  <2>1. Today \in 0..clock /\ clock \in 0..MaxTicks
      BY Parts, Days DEF IInv, Today
  <2> QED
      BY <1>1, <2>1, Constants DEF LaunchOutcomes, Ended, Marks
<1>3. /\ co[t] \in Coroutines /\ co[t].pc = "launch" /\ co[t].event = NoEvent
      /\ n \in DOMAIN runs
    BY Parts DEF IInv, LaunchInv, Launch, Coroutines, Fits
<1>4. /\ c(outcome) \in CoRecords /\ c(outcome).pc = "record" /\ c(outcome).event = NoEvent
      /\ c(outcome).snap = co[t].snap /\ c(outcome).run = n /\ c(outcome).day = Today
    BY <1>2, <1>3 DEF Coroutines, CoRecords, Pcs
<1>5. c(outcome) \in Coroutines
    BY <1>4 DEF Coroutines, Fits
<1>6. turn' \in [Runs -> TurnStates]
  <2>1. turn \in [Runs -> TurnStates] /\ n \in Runs
      BY <1>3, Parts DEF IInv
  <2> QED
      BY <1>1, <2>1 DEF TurnStates
<1>7. Timely(c(outcome))
    BY <1>2, <1>4 DEF IInv, PastInv, Timely
<1>8. UNCHANGED <<schedule, rec, version, clock, runs, excused, rolledBack, undone, forgotten, twists>>
    BY DEF Launch
<1> HIDE DEF c
<1> QED
    BY <1>1, <1>3, <1>4, <1>5, <1>6, <1>7, <1>8, QuietMove, Parts DEF IInv

LEMMA ScanStep ==
    ASSUME IInv, NEW t \in Callers, Scan(t)
    PROVE  IInv'
<1> DEFINE event == IF rec.enabled /\ Reported(rec.file) THEN FileEvent(version) ELSE NoEvent
           c == [Idle EXCEPT !.pc = "seen", !.seen = version, !.via = "file", !.id = rec.file.id,
                             !.event = event]
<1>1. /\ To(t, c) \/ To(t, Idle)
      /\ UNCHANGED <<schedule, rec, turn, version, clock, runs, excused, rolledBack, undone, forgotten>>
    BY DEF Scan
<1>2. event \in AllEvents /\ event \notin Events
    BY Constants, Parts DEF AllEvents, FileEvents, IInv
<1>3. version \in -1..MaxVersions /\ rec.file.id \in Nat
    BY Parts, RecordParts, Constants DEF IInv, Versions
<1> HIDE DEF event
<1>4. /\ c \in CoRecords
      /\ c.pc = "seen" /\ c.via = "file" /\ c.event = event /\ c.snap = <<>>
    BY <1>2, <1>3, IdleFits DEF Coroutines, CoRecords, Pcs, Idle
<1>5. c \in Coroutines
    BY <1>2, <1>4 DEF Coroutines, Fits
<1> HIDE DEF c
<1> QED
    BY <1>1, <1>4, <1>5, IdleStep, QuietMove, Parts DEF IInv, Timely

LEMMA DeliverStep ==
    ASSUME IInv, NEW t \in Callers, NEW e \in Events, Deliver(t, e)
    PROVE  IInv'
<1> DEFINE c == [Idle EXCEPT !.pc = "event", !.event = e, !.via = "hook", !.id = rec.hook.id]
<1>1. /\ To(t, c)
      /\ UNCHANGED <<schedule, rec, turn, version, clock, runs, excused, rolledBack, undone, forgotten>>
    BY DEF Deliver
<1>2. rec.hook.id \in Nat /\ e \in AllEvents /\ e # NoEvent
    BY Parts, RecordParts, Constants DEF IInv, AllEvents
<1>3. /\ c \in CoRecords
      /\ c.pc = "event" /\ c.via = "hook" /\ c.event = e /\ c.snap = <<>>
    BY <1>2, IdleFits DEF Coroutines, CoRecords, Pcs, Idle
<1>4. c \in Coroutines
    BY <1>2, <1>3 DEF Coroutines, Fits
<1> HIDE DEF c
<1> QED
    BY <1>1, <1>3, <1>4, QuietMove, Parts DEF IInv, Timely

LEMMA WorldStep ==
    ASSUME IInv, FileChanges \/ \E n \in Runs : TurnEnds(n)
    PROVE  IInv'
<1>1. /\ co' = co /\ turn' \in [Runs -> TurnStates] /\ version' \in Versions
      /\ UNCHANGED <<schedule, rec, clock, runs, excused, rolledBack, undone, forgotten>>
  <2>1. ASSUME NEW n \in Runs, TurnEnds(n) PROVE turn' \in [Runs -> TurnStates]
    <3>1. PICK end \in Ended : turn' = [turn EXCEPT ![n] = end]
        BY <2>1 DEF TurnEnds
    <3> QED
        BY <3>1, Parts DEF IInv, TurnStates
  <2>2. FileChanges => version' \in Versions
      BY Parts, Constants DEF IInv, FileChanges, Versions
  <2> QED
      BY <2>1, <2>2, Parts DEF IInv, FileChanges, TurnEnds
<1>2. Types' /\ LaunchInv'
    BY <1>1 DEF IInv, Types, CoTypes, WorldTypes, HistoryTypes, LaunchInv
<1>3. \A t \in Callers : Timely(co'[t])
    BY <1>1 DEF IInv, PastInv
<1> QED
    BY <1>1, <1>2, <1>3, QuietStep

-----------------------------------------------------------------------------
(* The steps that write the record and start no run.                       *)

\* A mark of the clock's slot is kept, or the slot is excused.
LEMMA MarkOrExcuse ==
    ASSUME IInv, NEW s \in Records, Past(s), rec' = s, clock' = clock, schedule' = schedule,
           Voided(s) \subseteq Waived', Held, Slot(clock) \in Slots
    PROVE  Held' \/ Slot(clock) \in Waived'
<1>1. s.at \in Int /\ s.date \in Int /\ s.at <= clock /\ s.date <= Today
    BY RecordParts DEF Marks, Past
<1>2. clock \in Nat /\ Today \in Nat
    BY Parts, Days DEF IInv, Today
<1>3. CASE schedule = "interval"
  <2>1. rec.at = clock /\ Slot(clock) = clock /\ (s.at = clock => Held')
      BY <1>3 DEF Held, Slot
  <2>2. s.at # clock => clock \in Voided(s)
      BY <1>1, <1>2, <1>3, <2>1 DEF Voided
  <2> QED
      BY <2>1, <2>2
<1>4. CASE schedule # "interval"
  <2>1. rec.date = Today /\ rec.status # "stale" /\ Slot(clock) = Today
      BY <1>4 DEF Held, Slot, Today
  <2>2. s.date = Today /\ s.status # "stale" => Held'
      BY <1>4 DEF Held, Today, Day
  <2>3. s.date # Today => Today \in Voided(s)
      BY <1>1, <1>2, <1>4, <2>1 DEF Voided
  <2>4. s.status = "stale" => Today \in Voided(s)
      BY <1>4, <2>1 DEF Voided
  <2> QED
      BY <2>1, <2>2, <2>3, <2>4
<1> QED
    BY <1>3, <1>4

\* A trigger forgets no event when it is removed, made anew or scanned.
LEMMA Spending ==
    ASSUME NEW a, NEW b, a.id \in Nat, b.id \in Nat,
           \/ b.id = a.id /\ ~b.on
           \/ b.id > a.id
           \/ b.id = a.id /\ b.on = a.on /\ b.recent = a.recent
    PROVE  SpentOf(a) \subseteq SpentOf(b)
<1> SUFFICES ASSUME NEW e \in AllEvents, NEW i \in Nat, <<e, i>> \in SpentOf(a)
             PROVE  <<e, i>> \in SpentOf(b)
    BY DEF SpentOf
<1> QED
    BY DEF SpentOf

LEMMA SpentGrows ==
    ASSUME SpentOf(rec.file) \subseteq SpentOf(rec.file)', SpentOf(rec.hook) \subseteq SpentOf(rec.hook)',
           forgotten \subseteq forgotten'
    PROVE  Spent \subseteq Spent'
BY DEF Spent

\* save_routine, delete_routine and the edits of the triggers.
LEMMA EditedStep ==
    ASSUME IInv, NEW s \in Records, Edited(s), s.date \in {rec.date, Never}, s.at \in {rec.at, Never},
           SpentOf(rec.file) \subseteq SpentOf(s.file), SpentOf(rec.hook) \subseteq SpentOf(s.hook)
    PROVE  IInv'
<1>1. /\ rec' = s /\ excused' = excused \cup Voided(s)
      /\ UNCHANGED <<schedule, co, turn, version, clock, runs, rolledBack, undone, forgotten>>
  <2>1. rec' = s /\ excused' = excused \cup Voided(rec')
      BY DEF Edited
  <2> QED
      BY <2>1 DEF Edited
<1>2. Past(s)
  <2>1. clock \in Nat /\ Today \in Nat
      BY Parts, Days DEF IInv, Today
  <2> QED
      BY <2>1 DEF IInv, PastInv, Past, Never
<1>3. Types' /\ LaunchInv'
    BY <1>1 DEF IInv, Types, CoTypes, WorldTypes, HistoryTypes, LaunchInv
<1>4. PastInv'
    BY <1>1, <1>2 DEF IInv, PastInv, Past, Timely, Today, Day
<1>5. Held /\ Slot(clock) \in Slots => Held' \/ Slot(clock) \in Waived'
    BY <1>1, <1>2, MarkOrExcuse DEF Waived
<1>6. Spent \subseteq Spent'
  <2>1. SpentOf(rec.file)' = SpentOf(s.file) /\ SpentOf(rec.hook)' = SpentOf(s.hook)
      BY <1>1 DEF SpentOf
  <2> QED
      BY <1>1, <2>1, SpentGrows
<1> QED
    BY <1>1, <1>3, <1>4, <1>5, <1>6, KeptStep DEF Waived

LEMMA SaveRoutineStep ==
    ASSUME IInv, SaveRoutine
    PROVE  IInv'
<1>1. PICK kind \in Kinds, enabled \in BOOLEAN :
          Edited([(IF rec.present THEN rec ELSE NewRoutine(kind, rec.file.id, rec.hook.id))
                     EXCEPT !.kind = kind, !.enabled = enabled])
    BY DEF SaveRoutine
<1> DEFINE base == IF rec.present THEN rec ELSE NewRoutine(kind, rec.file.id, rec.hook.id)
           s == [base EXCEPT !.kind = kind, !.enabled = enabled]
<1>2. rec \in Records /\ rec.file.id \in Nat /\ rec.hook.id \in Nat
    BY Parts, RecordParts DEF IInv
<1>3. base \in Records
    BY <1>2, NewRecord
<1>4. /\ base.date \in {rec.date, Never} /\ base.at \in {rec.at, Never}
      /\ SpentOf(rec.file) \subseteq SpentOf(base.file) /\ SpentOf(rec.hook) \subseteq SpentOf(base.hook)
  <2>1. CASE rec.present
      BY <2>1
  <2>2. CASE ~rec.present
    <3>1. base = NewRoutine(kind, rec.file.id, rec.hook.id)
        BY <2>2
    <3>2. /\ base.file.id = rec.file.id /\ ~base.file.on
          /\ base.hook.id = rec.hook.id /\ ~base.hook.on
        BY <1>2, <3>1, NewRecord, NewTriggers
    <3> HIDE DEF base
    <3>3. SpentOf(rec.file) \subseteq SpentOf(base.file) /\ SpentOf(rec.hook) \subseteq SpentOf(base.hook)
        BY <1>2, <3>2, Spending
    <3> QED
        BY <1>2, <3>1, <3>3, NewRecord
  <2> QED
      BY <2>1, <2>2
<1> HIDE DEF base
<1>5. /\ s \in Records /\ s.date = base.date /\ s.at = base.at
      /\ s.file = base.file /\ s.hook = base.hook
    BY <1>3 DEF Records
<1>6. Edited(s)
    BY <1>1 DEF base
<1> HIDE DEF s
<1> QED
    BY <1>4, <1>5, <1>6, EditedStep

LEMMA DeleteRoutineStep ==
    ASSUME IInv, DeleteRoutine
    PROVE  IInv'
<1> DEFINE base == NewRoutine(rec.kind, rec.file.id, rec.hook.id)
           s == [base EXCEPT !.present = FALSE]
<1>1. rec \in Records /\ rec.kind \in Kinds /\ rec.file.id \in Nat /\ rec.hook.id \in Nat
    BY Parts, RecordParts DEF IInv
<1>2. /\ base \in Records /\ base.date = Never /\ base.at = Never
      /\ base.file.id = rec.file.id /\ ~base.file.on
      /\ base.hook.id = rec.hook.id /\ ~base.hook.on
    BY <1>1, NewRecord, NewTriggers
<1> HIDE DEF base
<1>3. SpentOf(rec.file) \subseteq SpentOf(base.file) /\ SpentOf(rec.hook) \subseteq SpentOf(base.hook)
    BY <1>1, <1>2, Spending
<1>4. /\ s \in Records /\ s.date = base.date /\ s.at = base.at
      /\ s.file = base.file /\ s.hook = base.hook
    BY <1>2 DEF Records
<1>5. Edited(s)
    BY DEF DeleteRoutine, base
<1> HIDE DEF s
<1> QED
    BY <1>2, <1>3, <1>4, <1>5, EditedStep

\* A change of the file trigger, or of the webhook, alone.
LEMMA TriggerEdited ==
    ASSUME IInv, NEW tr,
           \/ /\ tr \in FileTriggers /\ Edited([rec EXCEPT !.file = tr])
              /\ tr.id > rec.file.id \/ (tr.id = rec.file.id /\ ~tr.on)
           \/ /\ tr \in HookTriggers /\ Edited([rec EXCEPT !.hook = tr])
              /\ tr.id > rec.hook.id \/ (tr.id = rec.hook.id /\ ~tr.on)
    PROVE  IInv'
<1>1. rec \in Records /\ rec.file.id \in Nat /\ rec.hook.id \in Nat
    BY Parts, RecordParts DEF IInv
<1>2. tr.id \in Nat
    BY DEF FileTriggers, HookTriggers, Triggers
<1>3. CASE /\ tr \in FileTriggers /\ Edited([rec EXCEPT !.file = tr])
           /\ tr.id > rec.file.id \/ (tr.id = rec.file.id /\ ~tr.on)
  <2> DEFINE s == [rec EXCEPT !.file = tr]
  <2>1. s \in Records /\ s.file = tr /\ s.hook = rec.hook /\ s.date = rec.date /\ s.at = rec.at
      BY <1>1, <1>3 DEF Records
  <2>2. SpentOf(rec.file) \subseteq SpentOf(tr)
      BY <1>1, <1>2, <1>3, Spending
  <2> HIDE DEF s
  <2>3. Edited(s)
      BY <1>3 DEF s
  <2> QED
      BY <2>1, <2>2, <2>3, EditedStep
<1>4. CASE /\ tr \in HookTriggers /\ Edited([rec EXCEPT !.hook = tr])
           /\ tr.id > rec.hook.id \/ (tr.id = rec.hook.id /\ ~tr.on)
  <2> DEFINE s == [rec EXCEPT !.hook = tr]
  <2>1. s \in Records /\ s.hook = tr /\ s.file = rec.file /\ s.date = rec.date /\ s.at = rec.at
      BY <1>1, <1>4 DEF Records
  <2>2. SpentOf(rec.hook) \subseteq SpentOf(tr)
      BY <1>1, <1>2, <1>4, Spending
  <2> HIDE DEF s
  <2>3. Edited(s)
      BY <1>4 DEF s
  <2> QED
      BY <2>1, <2>2, <2>3, EditedStep
<1> QED
    BY <1>3, <1>4

LEMMA TriggersStep ==
    ASSUME IInv, AddTrigger \/ RemoveTrigger
    PROVE  IInv'
<1>1. rec \in Records /\ rec.file.id \in Nat /\ rec.hook.id \in Nat
    BY Parts, RecordParts DEF IInv
<1>2. ASSUME NEW fire \in BOOLEAN, Edited([rec EXCEPT !.file = FileTrigger(@.id + 1, fire)]) PROVE IInv'
  <2>1. Edited([rec EXCEPT !.file = FileTrigger(rec.file.id + 1, fire)])
      BY <1>1, <1>2 DEF Records
  <2>2. rec.file.id + 1 \in Nat /\ rec.file.id + 1 > rec.file.id
      BY <1>1
  <2>3. /\ FileTrigger(rec.file.id + 1, fire) \in FileTriggers
        /\ FileTrigger(rec.file.id + 1, fire).id > rec.file.id
      BY <2>2, NewTriggers DEF FileTriggers
  <2> QED
      BY <2>1, <2>3, TriggerEdited
<1>3. ASSUME NEW allow \in BOOLEAN, Edited([rec EXCEPT !.hook = WebhookTrigger(@.id + 1, allow)])
      PROVE  IInv'
  <2>1. Edited([rec EXCEPT !.hook = WebhookTrigger(rec.hook.id + 1, allow)])
      BY <1>1, <1>3 DEF Records
  <2>2. /\ WebhookTrigger(rec.hook.id + 1, allow) \in HookTriggers
        /\ WebhookTrigger(rec.hook.id + 1, allow).id > rec.hook.id
      BY <1>1, NewTriggers DEF HookTriggers
  <2> QED
      BY <2>1, <2>2, TriggerEdited
<1>4. ASSUME Edited([rec EXCEPT !.file = NoTrigger(@.id)]) PROVE IInv'
  <2>1. Edited([rec EXCEPT !.file = NoTrigger(rec.file.id)])
      BY <1>1, <1>4 DEF Records
  <2>2. /\ NoTrigger(rec.file.id) \in FileTriggers
        /\ NoTrigger(rec.file.id).id = rec.file.id /\ ~NoTrigger(rec.file.id).on
      BY <1>1, NewTriggers DEF FileTriggers
  <2> QED
      BY <2>1, <2>2, TriggerEdited
<1>5. ASSUME Edited([rec EXCEPT !.hook = NoTrigger(@.id)]) PROVE IInv'
  <2>1. Edited([rec EXCEPT !.hook = NoTrigger(rec.hook.id)])
      BY <1>1, <1>5 DEF Records
  <2>2. /\ NoTrigger(rec.hook.id) \in HookTriggers
        /\ NoTrigger(rec.hook.id).id = rec.hook.id /\ ~NoTrigger(rec.hook.id).on
      BY <1>1, NewTriggers DEF HookTriggers
  <2> QED
      BY <2>1, <2>2, TriggerEdited
<1> QED
    BY <1>2, <1>3, <1>4, <1>5 DEF AddTrigger, RemoveTrigger

LEMMA TickStep ==
    ASSUME IInv, Tick
    PROVE  IInv'
<1>1. /\ clock' = clock + 1 /\ clock' \in 0..MaxTicks /\ clock \in Nat /\ clock' \in Nat
      /\ UNCHANGED <<schedule, rec, co, turn, version, runs, excused, rolledBack, undone, forgotten>>
    BY Parts, Constants DEF IInv, Tick
<1>2. Types' /\ LaunchInv' /\ AgentRunsAreAuthorized'
    BY <1>1 DEF IInv, Types, CoTypes, WorldTypes, HistoryTypes, LaunchInv, AgentRunsAreAuthorized
<1>3. /\ Day(clock)' = Day(clock') /\ Day(clock) \in Nat /\ Day(clock') \in Nat
      /\ Day(clock) <= Day(clock') /\ Today = Day(clock) /\ Today' = Day(clock')
    BY <1>1, Days DEF Today, Day
<1>4. \A n \in DOMAIN runs : runs[n].at \in Nat /\ runs[n].at <= clock
  <2>1. \A n \in DOMAIN runs : runs[n] \in RunRecords
      BY Parts DEF IInv
  <2> QED
      BY <2>1, Constants DEF IInv, PastInv, RunRecords
<1>5. PastInv'
  <2>1. \A s \in Records : Past(s) => s.date <= Day(clock') /\ s.at <= clock'
      BY <1>1, <1>3, RecordParts DEF Past, Marks
  <2>2. rec \in Records /\ \A t \in Callers : co[t].snap # <<>> => co[t].snap[2] \in Records
      BY Parts, CoParts DEF IInv, Snapshots
  <2>3. rec.date <= Day(clock') /\ rec.at <= clock'
      BY <2>1, <2>2 DEF IInv, PastInv
  <2>4. \A t \in Callers :
            /\ co[t].snap # <<>> => co[t].snap[2].date <= Day(clock') /\ co[t].snap[2].at <= clock'
            /\ co[t].pc = "record" => co[t].day <= Day(clock')
    <3>1. \A t \in Callers : Timely(co[t]) /\ co[t].day \in Int
        BY Parts, CoParts DEF IInv, PastInv, Marks
    <3> QED
        BY <1>3, <2>1, <2>2, <3>1 DEF Timely
  <2>5. \A n \in DOMAIN runs : runs[n].at <= clock'
      BY <1>1, <1>4
  <2> QED
      BY <1>1, <1>3, <2>3, <2>4, <2>5 DEF PastInv, Past, Timely
<1>6. /\ Slot(clock)' = Slot(clock')
      /\ \A n \in DOMAIN runs : Slot(runs[n].at)' = Slot(runs[n].at)
    BY <1>1 DEF Slot, Day
<1>7. SlotInv'
  <2> SUFFICES ASSUME NEW n \in DOMAIN runs, runs[n].origin = "schedule",
                      Slot(runs[n].at) = Slot(clock'), Slot(clock') \notin Waived
               PROVE  Held'
      BY <1>1, <1>6 DEF SlotInv, Slots, Waived
  <2>1. schedule # "interval"
      BY <1>1, <1>4 DEF Slot
  <2>2. Day(runs[n].at) = Day(clock')
      BY <2>1 DEF Slot
  <2>3. Day(runs[n].at) <= Day(clock) /\ Day(runs[n].at) \in Nat
      BY <1>1, <1>4, Days
  <2>4. Day(clock) = Day(clock') /\ Day(runs[n].at) = Day(clock)
      BY <1>3, <2>2, <2>3
  <2>5. Slot(clock) \in Slots \ Waived
      BY <2>1, <2>4 DEF Slot, Slots
  <2>6. Held
      BY <2>5 DEF IInv, SlotInv
  <2> QED
      BY <1>1, <1>3, <2>1, <2>4, <2>6 DEF Held
<1>8. OneRunInv'
    BY <1>1, <1>6 DEF IInv, OneRunInv, Waived
<1>9. EventInv'
    BY <1>1 DEF IInv, EventInv, Fired, Spent, SpentOf, EventsFireOnce
<1> QED
    BY <1>2, <1>5, <1>7, <1>8, <1>9 DEF IInv

LEMMA ReconcileWriteStep ==
    ASSUME IInv, NEW t \in Callers, ReconcileWrite(t)
    PROVE  IInv'
<1> DEFINE c == [co[t] EXCEPT !.pc = "due", !.snap = <<>>]
           s == co[t].snap[2]
<1>1. /\ rec' = s /\ Waived' = Waived \cup Voided(s) /\ To(t, c)
      /\ undone' \in BOOLEAN /\ (~undone' => ~undone /\ rec = co[t].snap[1])
      /\ UNCHANGED <<schedule, turn, version, clock, runs, forgotten>>
  <2>1. /\ rec' = s /\ To(t, c)
        /\ \/ /\ rec = co[t].snap[1] /\ excused' = excused \cup Voided(rec')
              /\ UNCHANGED <<rolledBack, undone>>
           \/ rolledBack' = rolledBack \cup Voided(rec') /\ undone' = TRUE /\ UNCHANGED excused
      BY DEF ReconcileWrite
  <2>2. Waived' = Waived \cup Voided(s)
      BY <2>1 DEF Waived
  <2>3. undone \in BOOLEAN
      BY DEF IInv, Types, HistoryTypes
  <2>4. undone' \in BOOLEAN /\ (~undone' => ~undone /\ rec = co[t].snap[1])
    <3>1. CASE rec = co[t].snap[1] /\ undone' = undone
        BY <2>3, <3>1
    <3>2. CASE undone' = TRUE
        BY <3>2
    <3> QED
        BY <2>1, <3>1, <3>2
  <2> QED
      BY <2>1, <2>2, <2>4 DEF ReconcileWrite
<1>2. co[t] \in Coroutines /\ co[t].snap # <<>> /\ co[t].event = NoEvent
    BY Parts DEF IInv, ReconcileWrite, Coroutines, Fits
<1>3. /\ s \in Records /\ co[t].snap[1] \in Records
      /\ s = [co[t].snap[1] EXCEPT !.status = s.status]
    BY <1>2, CoParts DEF Snapshots
<1>4. Past(s)
    BY <1>2 DEF IInv, PastInv, Timely
<1>5. c \in CoRecords /\ c.pc = "due" /\ c.event = NoEvent /\ c.snap = <<>>
    BY <1>2 DEF Coroutines, CoRecords, Pcs
<1>6. c \in Coroutines
    BY <1>5 DEF Coroutines, Fits
<1>7. s.file = co[t].snap[1].file /\ s.hook = co[t].snap[1].hook
    BY <1>3 DEF Records
<1> HIDE DEF c, s
<1>8. /\ CoTypes' /\ LaunchInv'
      /\ \A u \in Callers : Timely(co'[u])
    BY <1>1, <1>5, <1>6, Move DEF Timely
<1>9. Types'
    BY <1>1, <1>3, <1>8 DEF IInv, Types, WorldTypes, HistoryTypes
<1>10. PastInv'
    BY <1>1, <1>4, <1>8 DEF IInv, PastInv, Past, Timely, Today, Day
<1>11. Held /\ Slot(clock) \in Slots => Held' \/ Slot(clock) \in Waived'
    BY <1>1, <1>3, <1>4, MarkOrExcuse
<1>12. ~undone' => ~undone /\ Spent \subseteq Spent'
  <2> SUFFICES ASSUME ~undone' PROVE ~undone /\ Spent \subseteq Spent'
      OBVIOUS
  <2>1. ~undone /\ rec = co[t].snap[1]
      BY <1>1 DEF IInv, Types, HistoryTypes
  <2>2. rec'.file = rec.file /\ rec'.hook = rec.hook
      BY <1>1, <1>7, <2>1
  <2> QED
      BY <1>1, <2>1, <2>2 DEF Spent, SpentOf
<1> QED
    BY <1>1, <1>8, <1>9, <1>10, <1>11, <1>12, KeptStep

LEMMA RecordSeenStep ==
    ASSUME IInv, NEW t \in Callers, RecordSeen(t)
    PROVE  IInv'
<1> DEFINE c == [co[t] EXCEPT !.pc = "event", !.seen = NoFile]
           s == [rec EXCEPT !.file.seen = co[t].seen]
<1>1. /\ rec' = s \/ rec' = rec
      /\ To(t, IF co[t].event = NoEvent THEN Idle ELSE c)
      /\ UNCHANGED <<schedule, turn, version, clock, runs, excused, rolledBack, undone, forgotten>>
    BY DEF RecordSeen
<1>2. /\ co[t] \in Coroutines /\ co[t].pc = "seen" /\ co[t].via = "file" /\ co[t].event \notin Events
      /\ co[t].seen \in -1..MaxVersions
    BY Parts, CoParts DEF IInv, RecordSeen, Fits
<1>3. NoFile \in -1..MaxVersions
    BY Constants DEF NoFile
<1>4. /\ c \in CoRecords /\ c.pc = "event" /\ c.event = co[t].event /\ c.via = "file"
      /\ c.snap = co[t].snap
    BY <1>2, <1>3 DEF Coroutines, CoRecords, Pcs
<1>5. c.event # NoEvent => c \in Coroutines
    BY <1>2, <1>4 DEF Coroutines, Fits
<1> DEFINE d == IF co[t].event = NoEvent THEN Idle ELSE c
<1>6. d \in Coroutines /\ d.pc \in {"idle", "event"} /\ d.snap \in {<<>>, co[t].snap}
  <2>1. CASE co[t].event = NoEvent
    <3>1. d = Idle
        BY <2>1
    <3> QED
        BY <3>1, IdleFits DEF Idle
  <2>2. CASE co[t].event # NoEvent
    <3>1. d = c
        BY <2>2
    <3> HIDE DEF c, d
    <3> QED
        BY <2>2, <3>1, <1>4, <1>5
  <2> QED
      BY <2>1, <2>2
<1>7. Timely(co[t])
    BY DEF IInv, PastInv
<1> HIDE DEF c, d
<1>8. /\ CoTypes' /\ LaunchInv'
      /\ \A u \in Callers : Timely(co'[u])
  <2>1. To(t, d)
      BY <1>1 DEF d
  <2>2. Timely(d)
      BY <1>6, <1>7 DEF Timely
  <2> QED
      BY <1>1, <1>6, <2>1, <2>2, Move
<1>9. /\ s \in Records /\ s.date = rec.date /\ s.at = rec.at /\ s.status = rec.status
      /\ s.hook = rec.hook /\ s.file.id = rec.file.id /\ s.file.on = rec.file.on
      /\ s.file.recent = rec.file.recent
  <2>1. rec \in Records /\ rec.file \in FileTriggers
      BY Parts, RecordParts DEF IInv
  <2>2. s = [rec EXCEPT !.file = [rec.file EXCEPT !.seen = co[t].seen]]
      BY <2>1 DEF Records
  <2>3. [rec.file EXCEPT !.seen = co[t].seen] \in FileTriggers
      BY <1>2, <2>1 DEF FileTriggers, Triggers
  <2>4. /\ [rec.file EXCEPT !.seen = co[t].seen].id = rec.file.id
        /\ [rec.file EXCEPT !.seen = co[t].seen].on = rec.file.on
        /\ [rec.file EXCEPT !.seen = co[t].seen].recent = rec.file.recent
      BY <2>1 DEF FileTriggers, Triggers
  <2> QED
      BY <2>1, <2>2, <2>3, <2>4 DEF Records
<1> HIDE DEF s
<1>10. /\ rec' \in Records /\ rec'.date = rec.date /\ rec'.at = rec.at /\ rec'.status = rec.status
       /\ rec'.hook = rec.hook /\ rec'.file.id = rec.file.id /\ rec'.file.on = rec.file.on
       /\ rec'.file.recent = rec.file.recent
    BY <1>1, <1>9, Parts DEF IInv
<1>11. Types'
    BY <1>1, <1>8, <1>10 DEF IInv, Types, WorldTypes, HistoryTypes
<1>12. PastInv'
    BY <1>1, <1>8, <1>10 DEF IInv, PastInv, Past, Timely, Today, Day
<1>13. Held => Held'
    BY <1>1, <1>10 DEF Held, Today, Day
<1>14. Spent \subseteq Spent'
    BY <1>1, <1>10 DEF Spent, SpentOf
<1> QED
    BY <1>1, <1>8, <1>11, <1>12, <1>13, <1>14, KeptStep DEF Waived

\* A run's outcome is recorded, with the marks of the time the run began if it is one of
\* the schedule.
LEMMA RecordRunStep ==
    ASSUME IInv, NEW t \in Callers, RecordRun(t)
    PROVE  IInv'
<1> DEFINE c == [Idle EXCEPT !.pc = IF co[t].swept THEN "scan" ELSE "idle"]
           n == co[t].run
           rec1(status, run) == [rec EXCEPT !.status = status, !.started = clock, !.run = run]
<1>1. /\ To(t, c)
      /\ UNCHANGED <<schedule, turn, version, clock, runs, rolledBack, undone, forgotten>>
    BY DEF RecordRun
<1>2. c \in Coroutines /\ c.pc \in {"scan", "idle"} /\ c.snap = <<>>
  <2>1. c \in CoRecords /\ c.event = NoEvent /\ c.pc \in {"scan", "idle"} /\ c.snap = <<>>
      BY IdleFits DEF Coroutines, CoRecords, Pcs, Idle
  <2> QED
      BY <2>1 DEF Coroutines, Fits
<1> HIDE DEF c
<1>3. /\ CoTypes' /\ LaunchInv'
      /\ \A u \in Callers : Timely(co'[u])
    BY <1>1, <1>2, Move DEF Timely
<1>4. CASE UNCHANGED <<rec, excused>>
  <2>1. Types' /\ PastInv'
      BY <1>1, <1>3, <1>4 DEF IInv, Types, WorldTypes, HistoryTypes, PastInv, Past, Timely, Today, Day
  <2>2. Held' = Held /\ Spent' = Spent
      BY <1>1, <1>4 DEF Held, Today, Day, Spent, SpentOf
  <2> QED
      BY <1>1, <1>3, <1>4, <2>1, <2>2, KeptStep DEF Waived
<1>5. \/ UNCHANGED <<rec, excused>>
      \/ \E status \in {co[t].outcome, "failed"}, run \in {n, rec.run, NoRun} :
            /\ rec' \in {rec1(status, run), Dated(rec1(status, run), co[t].day, runs[n].at)}
            /\ excused' = excused \cup Voided(rec')
  <2> SUFFICES ASSUME ~UNCHANGED <<rec, excused>>
               PROVE  \E status \in {co[t].outcome, "failed"}, run \in {n, rec.run, NoRun} :
                        /\ rec' \in {rec1(status, run), Dated(rec1(status, run), co[t].day, runs[n].at)}
                        /\ excused' = excused \cup Voided(rec')
      OBVIOUS
  <2> DEFINE ended == co[t].outcome = "started" /\ turn[n] \in Ended
  <2>1. PICK status \in {co[t].outcome} \cup (IF ended THEN {"failed"} ELSE {}),
             run \in CASE co[t].outcome = "started" -> {n}
                       [] co[t].outcome = "failed" -> {rec.run, NoRun}
                       [] OTHER -> {NoRun} :
             LET s == [rec EXCEPT !.status = status, !.started = clock, !.run = run] IN
             /\ rec' = IF runs[n].origin \in {"schedule", "forced"} THEN Dated(s, co[t].day, runs[n].at) ELSE s
             /\ excused' = excused \cup Voided(rec')
      BY DEF RecordRun
  <2> HIDE DEF ended
  <2>2. status \in {co[t].outcome, "failed"} /\ run \in {n, rec.run, NoRun}
      BY <2>1
  <2> QED
      BY <2>1, <2>2
<1>6. CASE \E status \in {co[t].outcome, "failed"}, run \in {n, rec.run, NoRun} :
            /\ rec' \in {rec1(status, run), Dated(rec1(status, run), co[t].day, runs[n].at)}
            /\ excused' = excused \cup Voided(rec')
  <2>0. PICK status \in {co[t].outcome, "failed"}, run \in {n, rec.run, NoRun} :
            /\ rec' \in {rec1(status, run), Dated(rec1(status, run), co[t].day, runs[n].at)}
            /\ excused' = excused \cup Voided(rec')
      BY <1>6
  <2> DEFINE s == rec1(status, run)
             day == co[t].day
             at == runs[n].at
  <2>1. n \in DOMAIN runs /\ at \in 0..MaxTicks /\ at <= clock /\ n \in Runs
    <3>1. n \in DOMAIN runs /\ n \in Runs
        BY Parts DEF IInv, LaunchInv, RecordRun
    <3>2. runs[n] \in RunRecords
        BY <3>1, Parts DEF IInv
    <3> QED
        BY <3>1, <3>2 DEF RunRecords, IInv, PastInv
  <2>2. /\ status \in Statuses /\ run \in Runs \cup {NoRun} /\ clock \in Marks /\ clock \in Nat
        /\ rec \in Records
    <3>1. co[t].outcome \in {"none", "started", "queued"} \cup Ended /\ rec \in Records
          /\ clock \in 0..MaxTicks /\ clock \in Nat
        BY Parts, CoParts DEF IInv
    <3> QED
        BY <2>0, <2>1, <3>1, RecordParts, Constants DEF Statuses, ActiveStatus, Ended, Marks
  <2>3. /\ s \in Records /\ s.date = rec.date /\ s.at = rec.at
        /\ s.file = rec.file /\ s.hook = rec.hook
      BY <2>2 DEF Records
  <2>4. at \in Nat /\ at \in Marks /\ day \in Marks /\ day <= Today
    <3>1. co[t].pc = "record" /\ Timely(co[t]) /\ day \in Marks
        BY Parts, CoParts DEF RecordRun, IInv, PastInv
    <3> QED
        BY <3>1, <2>1, Constants DEF Marks, Timely
  <2> HIDE DEF s, day, at
  <2>5. /\ Dated(s, day, at) \in Records /\ Past(Dated(s, day, at))
        /\ Dated(s, day, at).file = rec.file /\ Dated(s, day, at).hook = rec.hook
    <3>1. s.at <= clock
        BY <2>3 DEF IInv, PastInv, Past
    <3> QED
        BY <2>1, <2>3, <2>4, <3>1 DEF Dated, Records, Past
  <2>6. Past(s)
      BY <2>3 DEF IInv, PastInv, Past
  <2>7. rec' \in Records /\ Past(rec') /\ rec'.file = rec.file /\ rec'.hook = rec.hook
    <3>1. rec' \in {s, Dated(s, day, at)}
        BY <2>0 DEF s, day, at
    <3> QED
        BY <2>3, <2>5, <2>6, <3>1
  <2>8. Types' /\ PastInv'
      BY <1>1, <1>3, <2>7 DEF IInv, Types, WorldTypes, HistoryTypes, PastInv, Past, Timely, Today, Day
  <2>9. Held /\ Slot(clock) \in Slots => Held' \/ Slot(clock) \in Waived'
      BY <1>1, <2>0, <2>7, MarkOrExcuse DEF Waived
  <2>10. Spent' = Spent
      BY <1>1, <2>7 DEF Spent, SpentOf
  <2> QED
      BY <1>1, <1>3, <2>0, <2>8, <2>9, <2>10, KeptStep DEF Waived
<1> QED
    BY <1>4, <1>5, <1>6

-----------------------------------------------------------------------------
(* The steps that start a run.                                             *)

\* The coroutine of a run that begins, and the record that reserves it.
LEMMA Begun ==
    ASSUME IInv, NEW t \in Callers, CanRun, Launching(t)
    PROVE  \E c \in Coroutines : /\ To(t, c) /\ c.pc = "launch" /\ c.run = Len(runs) + 1 /\ c.snap = <<>>
<1> DEFINE c == [Idle EXCEPT !.pc = "launch", !.run = NewRun,
                             !.swept = co[t].pc = "due" /\ ~co[t].force]
<1>1. NewRun \in Runs /\ NewRun = Len(runs) + 1
    BY Parts, Constants DEF IInv, CanRun, NewRun, Runs
<1>2. (co[t].pc = "due" /\ ~co[t].force) \in BOOLEAN
    OBVIOUS
<1>3. /\ c \in CoRecords /\ c.pc = "launch" /\ c.run = NewRun /\ c.event = NoEvent
      /\ c.snap = <<>>
    BY <1>1, <1>2, IdleFits DEF Coroutines, CoRecords, Pcs, Idle
<1>4. c \in Coroutines
    BY <1>3 DEF Coroutines, Fits
<1>5. To(t, c)
    BY DEF Launching
<1> HIDE DEF c
<1> QED
    BY <1>1, <1>3, <1>4, <1>5

LEMMA ReservedParts ==
    ASSUME IInv, NEW s \in Records
    PROVE  /\ Reserved(s) \in Records /\ Reserved(s).date = s.date /\ Reserved(s).at = s.at
           /\ Reserved(s).file = s.file /\ Reserved(s).hook = s.hook
           /\ Reserved(s).status = "starting"
<1>1. clock \in Marks
    BY Parts, Constants DEF IInv, Marks
<1> QED
    BY <1>1 DEF Reserved, Records, Statuses, ActiveStatus

\* All three starts: the run, its coroutine and the reserved record.
LEMMA StartStep ==
    ASSUME IInv, NEW t \in Callers, NEW origin \in Origins, CanRun, Launching(t), Started(t, origin),
           rec' \in Records, Past(rec'), Held => Held', origin = "schedule" => ~Held /\ Held',
           co[t].event # NoEvent => (rec.kind = "agent" => co[t].event \notin Strangers),
           UNCHANGED <<schedule, turn, version, clock, excused, rolledBack, undone>>,
           forgotten \subseteq forgotten', Spent \subseteq Spent',
           LET p == <<co[t].event, co[t].id>> IN
           co[t].event # NoEvent => p \in Spent' /\ (p \in Spent => p \in forgotten')
    PROVE  IInv'
<1> DEFINE r == [origin |-> origin, at |-> clock, kind |-> rec.kind,
                 event |-> co[t].event, id |-> co[t].id]
<1>1. /\ r \in RunRecords /\ r.at = clock /\ r.origin = origin /\ r.kind = rec.kind
      /\ r.event = co[t].event /\ r.id = co[t].id
  <2>1. co[t].event \in AllEvents /\ co[t].id \in Nat /\ rec.kind \in Kinds /\ clock \in 0..MaxTicks
      BY Parts, CoParts, RecordParts DEF IInv
  <2> QED
      BY <2>1 DEF RunRecords
<1>2. runs' = Append(runs, r)
    BY DEF Started
<1> HIDE DEF r
<1>3. PICK c \in Coroutines : To(t, c) /\ c.pc = "launch" /\ c.run = Len(runs) + 1 /\ c.snap = <<>>
    BY Begun
<1>4. /\ runs' \in Seq(RunRecords) /\ Len(runs') = Len(runs) + 1 /\ DOMAIN runs = 1..Len(runs)
      /\ DOMAIN runs' = 1..(Len(runs) + 1) /\ Len(runs) \in Nat
      /\ \A i \in 1..Len(runs) : runs'[i] = runs[i]
      /\ runs'[Len(runs) + 1] = r
  <2>1. runs \in Seq(RunRecords)
      BY Parts DEF IInv
  <2> QED
      BY <1>1, <1>2, <2>1, AppendProperties
<1>5. c.run \in DOMAIN runs' /\ DOMAIN runs \subseteq DOMAIN runs'
    BY <1>3, <1>4
<1>6. /\ CoTypes' /\ LaunchInv'
      /\ \A u \in Callers : Timely(co'[u])
    BY <1>3, <1>5, Move DEF Timely
<1>7. Types'
  <2>1. Len(runs') <= MaxRuns
      BY <1>4, Constants DEF CanRun
  <2> QED
      BY <1>4, <1>6, <2>1 DEF IInv, Types, WorldTypes, HistoryTypes
<1>8. PastInv'
  <2>1. \A i \in DOMAIN runs' : runs'[i].at <= clock
    <3>1. \A i \in DOMAIN runs' : i \in DOMAIN runs \/ i = Len(runs) + 1
        BY <1>4
    <3>2. r.at <= clock
        BY <1>1, Parts DEF IInv
    <3> QED
        BY <1>4, <3>1, <3>2 DEF IInv, PastInv
  <2> QED
      BY <1>6, <2>1 DEF PastInv, Past, Timely, Today, Day
<1>9. r.kind = "agent" => r.event \notin Strangers
    BY <1>1, Constants
<1> QED
    BY <1>1, <1>2, <1>6, <1>7, <1>8, <1>9, BeginStep DEF Waived

LEMMA EmitStep ==
    ASSUME IInv, NEW t \in Callers, Emit(t)
    PROVE  IInv'
<1>1. /\ co[t].pc = "idle" /\ CanRun /\ rec' = Reserved(rec) /\ Started(t, "event") /\ Launching(t)
      /\ UNCHANGED <<schedule, turn, version, clock, excused, rolledBack, undone, forgotten>>
    BY DEF Emit
<1>2. co[t].event = NoEvent /\ rec \in Records
    BY <1>1, Parts DEF IInv, Coroutines, Fits
<1>3. /\ rec' \in Records /\ rec'.date = rec.date /\ rec'.at = rec.at /\ rec'.status = "starting"
      /\ rec'.file = rec.file /\ rec'.hook = rec.hook
    BY <1>1, <1>2, ReservedParts
<1>4. Past(rec') /\ (Held => Held') /\ Spent' = Spent
    BY <1>1, <1>3 DEF IInv, PastInv, Past, Timely, Held, Today, Day, Spent, SpentOf
<1> QED
    BY <1>1, <1>2, <1>3, <1>4, StartStep DEF Origins

LEMMA ReserveDueStep ==
    ASSUME IInv, NEW t \in Callers, ReserveDue(t)
    PROVE  IInv'
<1> DEFINE origin == IF co[t].force THEN "forced" ELSE "schedule"
           c == [Idle EXCEPT !.pc = IF co[t].force THEN "idle" ELSE "scan"]
           starts == rec.present /\ CanRun /\ (co[t].force \/ (IsDue(rec) /\ ~HasActiveRun(rec)))
<1>1. /\ co[t].pc = "due"
      /\ UNCHANGED <<schedule, turn, version, clock, excused, rolledBack, undone, forgotten>>
    BY DEF ReserveDue
<1>2. CASE starts
  <2>1. /\ CanRun /\ rec' = Dated(Reserved(rec), Today, clock) /\ Started(t, origin) /\ Launching(t)
        /\ co[t].force \/ IsDue(rec)
      BY <1>2 DEF ReserveDue
  <2>2. co[t].event = NoEvent /\ rec \in Records /\ clock \in Nat /\ clock \in 0..MaxTicks
      BY <1>1, Parts DEF IInv, Coroutines, Fits
  <2>3. /\ Reserved(rec) \in Records /\ Reserved(rec).at = rec.at
        /\ Reserved(rec).file = rec.file /\ Reserved(rec).hook = rec.hook
        /\ Reserved(rec).status = "starting"
      BY <2>2, ReservedParts
  <2>4. Day(clock) \in Marks /\ clock \in Marks /\ Today = Day(clock) /\ Day(clock) \in Nat
    <3>1. Day(clock) \in 0..clock
        BY <2>2, Days
    <3> QED
        BY <2>2, <3>1, Constants DEF Marks, Today
  <2>5. /\ rec' \in Records /\ rec'.date = Today /\ rec'.status = "starting"
        /\ rec'.at = IF schedule = "interval" THEN clock ELSE rec.at
        /\ rec'.file = rec.file /\ rec'.hook = rec.hook
      BY <2>1, <2>3, <2>4 DEF Dated, Records
  <2>6. Past(rec') /\ Held' /\ Spent' = Spent
    <3>1. rec.at <= clock /\ clock <= clock /\ Today <= Today
        BY <2>2, <2>4 DEF IInv, PastInv, Past
    <3>2. Past(rec')
        BY <2>5, <3>1 DEF Past
    <3>3. Held'
        BY <1>1, <2>5 DEF Held, Today, Day
    <3>4. Spent' = Spent
        BY <1>1, <2>5 DEF Spent, SpentOf
    <3> QED
        BY <3>2, <3>3, <3>4
  <2>7. ASSUME origin = "schedule" PROVE ~Held
    <3>1. IsDue(rec)
        BY <2>1, <2>7
    <3>2. CASE schedule = "interval"
        BY <2>2, <3>1, <3>2 DEF IsDue, Held, Never
    <3>3. CASE schedule # "interval"
        BY <3>1, <3>3 DEF IsDue, Held
    <3> QED
        BY <3>2, <3>3
  <2>8. origin \in Origins
      BY DEF Origins
  <2> HIDE DEF origin
  <2> QED
      BY <1>1, <2>1, <2>2, <2>5, <2>6, <2>7, <2>8, StartStep
<1>3. CASE ~starts
  <2>1. To(t, c) /\ rec' = rec /\ runs' = runs
      BY <1>3 DEF ReserveDue
  <2>2. c \in CoRecords /\ c.event = NoEvent /\ c.pc \in {"idle", "scan"} /\ c.snap = <<>>
      BY IdleFits DEF Coroutines, CoRecords, Pcs, Idle
  <2>3. c \in Coroutines
      BY <2>2 DEF Coroutines, Fits
  <2> HIDE DEF c
  <2> QED
      BY <1>1, <2>1, <2>2, <2>3, QuietMove, Parts DEF IInv, Timely
<1> QED
    BY <1>2, <1>3

LEMMA ReserveEventStep ==
    ASSUME IInv, NEW t \in Callers, ReserveEvent(t)
    PROVE  IInv'
<1> DEFINE c == co[t]
           tr == rec[c.via]
           p == <<c.event, c.id>>
           ids == IF c.via = "hook" THEN Events \cup {"old"} ELSE FileEvents
           all == Append(tr.recent, c.event)
           new == IF Full(c) THEN Tail(all) ELSE all
           noted == [tr EXCEPT !.recent = new]
           known == CanRun /\ rec.present /\ tr.on /\ tr.id = c.id
           starts == rec.enabled /\ Authorized(c)
<1>1. /\ c.pc = "event"
      /\ UNCHANGED <<schedule, turn, version, clock, excused, rolledBack, undone>>
    BY DEF ReserveEvent
<1>2. /\ c \in Coroutines /\ c.event # NoEvent /\ c.via = (IF c.event \in Events THEN "hook" ELSE "file")
      /\ c.event \in AllEvents /\ c.id \in Nat /\ rec \in Records
    BY <1>1, Parts, CoParts DEF IInv, Fits
<1>3. CASE To(t, Idle) /\ UNCHANGED <<rec, runs, forgotten>>
    BY <1>1, <1>3, IdleStep
<1>4. ASSUME known, c.event \notin ToSet(tr.recent), forgotten' = forgotten \cup Forgotten(c),
             \/ starts /\ rec' = Reserved(Noted(c)) /\ Started(t, "event") /\ Launching(t)
             \/ rec' = Noted(c) /\ To(t, Idle) /\ UNCHANGED runs
      PROVE  IInv'
  <2>1. tr \in Triggers(ids) /\ c.event \in ids /\ tr.id \in Nat /\ tr.recent \in Seq(ids)
    <3>1. CASE c.via = "hook"
        BY <3>1, <1>2, RecordParts DEF HookTriggers
    <3>2. CASE c.via = "file"
        BY <3>2, <1>2, RecordParts DEF FileTriggers, AllEvents
    <3> QED
        BY <1>2, <3>1, <3>2
  <2>2. new \in Seq(ids)
    <3> HIDE DEF tr, ids
    <3>1. all \in Seq(ids) /\ all # <<>>
        BY <2>1, AppendProperties
    <3>2. Tail(all) \in Seq(ids)
        BY <3>1, HeadTailProperties
    <3> QED
        BY <3>1, <3>2
  <2>3. /\ noted \in Triggers(ids) /\ c.event \in ToSet(new)
        /\ \A f \in ToSet(tr.recent) : f \in ToSet(new) \/ (Full(c) /\ f = Head(tr.recent))
    <3>1. Full(c) <=> Len(tr.recent) >= RecentLimit
        BY DEF Full
    <3> HIDE DEF tr, ids
    <3>2. new = IF Len(tr.recent) >= RecentLimit THEN Tail(Append(tr.recent, c.event))
                                                  ELSE Append(tr.recent, c.event)
        BY <3>1
    <3> HIDE DEF new, all
    <3> DEFINE e == c.event
    <3>3. e \in ids /\ new = IF Len(tr.recent) >= RecentLimit THEN Tail(Append(tr.recent, e))
                                                            ELSE Append(tr.recent, e)
        BY <2>1, <3>2
    <3> HIDE DEF e, c
    <3>4. /\ [tr EXCEPT !.recent = new] \in Triggers(ids)
          /\ e \in ToSet(new)
          /\ \A f \in ToSet(tr.recent) :
                 f \in ToSet(new) \/ (Len(tr.recent) >= RecentLimit /\ f = Head(tr.recent))
        BY <2>1, <2>2, <3>3, NotedTrigger, Zenon
    <3> QED
        BY <3>1, <3>4 DEF e
  <2>4. noted.id = tr.id /\ noted.on = tr.on /\ noted.recent = new
      BY <2>1 DEF Triggers
  <2>5. Forgotten(c) = IF Full(c) THEN {<<Head(tr.recent), c.id>>} ELSE {}
      BY DEF Forgotten
  <2>6. /\ Noted(c) \in Records
        /\ Noted(c).date = rec.date /\ Noted(c).at = rec.at /\ Noted(c).status = rec.status
        /\ Noted(c).hook = (IF c.via = "hook" THEN noted ELSE rec.hook)
        /\ Noted(c).file = (IF c.via = "file" THEN noted ELSE rec.file)
    <3>1. Noted(c) = [rec EXCEPT ![c.via].recent = new]
        BY DEF Noted
    <3>2. CASE c.via = "hook"
      <4>1. Noted(c) = [rec EXCEPT !.hook = noted]
          BY <1>2, <3>1, <3>2 DEF Records
      <4>2. noted \in HookTriggers
          BY <2>3, <3>2 DEF HookTriggers
      <4> HIDE DEF noted
      <4> QED
          BY <1>2, <3>2, <4>1, <4>2 DEF Records
    <3>3. CASE c.via = "file"
      <4>1. Noted(c) = [rec EXCEPT !.file = noted]
          BY <1>2, <3>1, <3>3 DEF Records
      <4>2. noted \in FileTriggers
          BY <2>3, <3>3 DEF FileTriggers
      <4> HIDE DEF noted
      <4> QED
          BY <1>2, <3>3, <4>1, <4>2 DEF Records
    <3> QED
        BY <1>2, <3>2, <3>3
  <2>7. /\ rec' \in Records /\ rec'.date = rec.date /\ rec'.at = rec.at
        /\ rec'.status \in {rec.status, "starting"}
        /\ rec'.hook = (IF c.via = "hook" THEN noted ELSE rec.hook)
        /\ rec'.file = (IF c.via = "file" THEN noted ELSE rec.file)
    <3>1. Reserved(Noted(c)).status = "starting" /\ rec' \in {Noted(c), Reserved(Noted(c))}
        BY <1>4, <2>6, ReservedParts
    <3> QED
        BY <2>6, <3>1, ReservedParts
  <2> HIDE DEF noted, new, all, ids
  <2>8. Past(rec') /\ (Held => Held')
      BY <1>1, <2>7 DEF IInv, PastInv, Past, Timely, Held, Today, Day
  <2>9. SpentOf(tr) \subseteq SpentOf(noted) \cup Forgotten(c) /\ p \in SpentOf(noted)
    <3>1. ASSUME NEW e \in AllEvents, NEW i \in Nat, <<e, i>> \in SpentOf(tr)
          PROVE  <<e, i>> \in SpentOf(noted) \cup Forgotten(c)
      <4>1. i < tr.id \/ (i = tr.id /\ e \in ToSet(tr.recent))
          BY <1>4, <3>1 DEF SpentOf
      <4>2. CASE i < tr.id
          BY <2>4, <4>2 DEF SpentOf
      <4>3. CASE i = tr.id /\ e \in ToSet(new)
          BY <2>4, <4>3 DEF SpentOf
      <4>4. CASE i = tr.id /\ Full(c) /\ e = Head(tr.recent)
          BY <1>4, <2>5, <4>4
      <4> QED
          BY <2>3, <4>1, <4>2, <4>3, <4>4
    <3>2. p \in SpentOf(noted)
        BY <1>2, <1>4, <2>3, <2>4 DEF SpentOf
    <3>3. SpentOf(tr) \subseteq AllEvents \X Nat
        BY DEF SpentOf
    <3> HIDE DEF p, tr
    <3> QED
        BY <3>1, <3>2, <3>3
  <2>10. Spent \subseteq Spent' /\ p \in Spent' /\ (p \in Spent => p \in forgotten)
    <3>1. p \notin SpentOf(tr)
        BY <1>4, <2>1 DEF SpentOf
    <3>2. CASE c.via = "hook"
      <4>1. c.event \in Events /\ tr = rec.hook /\ rec'.hook = noted /\ rec'.file = rec.file
          BY <1>2, <2>7, <3>2
      <4>2. SpentOf(rec.hook)' = SpentOf(noted) /\ SpentOf(rec.file)' = SpentOf(rec.file)
          BY <4>1 DEF SpentOf
      <4> HIDE DEF tr
      <4> QED
          BY <1>4, <2>9, <3>1, <4>1, <4>2 DEF Spent
    <3>3. CASE c.via = "file"
      <4>1. c.event \notin Events /\ tr = rec.file /\ rec'.file = noted /\ rec'.hook = rec.hook
          BY <1>2, <2>7, <3>3
      <4>2. SpentOf(rec.file)' = SpentOf(noted) /\ SpentOf(rec.hook)' = SpentOf(rec.hook)
          BY <4>1 DEF SpentOf
      <4> HIDE DEF tr
      <4> QED
          BY <1>4, <2>9, <3>1, <4>1, <4>2 DEF Spent
    <3> QED
        BY <1>2, <3>2, <3>3
  <2>11. CASE starts /\ Started(t, "event") /\ Launching(t)
    <3>1. rec.kind = "agent" => c.event \notin Strangers
        BY <1>2, <2>11, Constants DEF Authorized
    <3> QED
        BY <1>1, <1>2, <1>4, <2>7, <2>8, <2>10, <2>11, <3>1, StartStep DEF Origins
  <2>12. CASE To(t, Idle) /\ UNCHANGED runs
    <3>1. /\ CoTypes' /\ LaunchInv'
          /\ \A u \in Callers : Timely(co'[u])
      <4>1. Idle \in Coroutines /\ Idle.pc = "idle" /\ Idle.snap = <<>>
          BY IdleFits DEF Idle
      <4> QED
          BY <1>1, <2>12, <4>1, Move DEF Timely
    <3>2. Types' /\ PastInv'
        BY <1>1, <2>7, <2>8, <2>12, <3>1
        DEF IInv, Types, WorldTypes, HistoryTypes, PastInv, Past, Timely, Today, Day
    <3> QED
        BY <1>1, <1>4, <2>8, <2>10, <2>12, <3>1, <3>2, KeptStep DEF Waived
  <2> QED
      BY <1>4, <2>11, <2>12
<1> QED
    BY <1>3, <1>4 DEF ReserveEvent

-----------------------------------------------------------------------------
(* The theorems.                                                           *)

LEMMA Initially == Init => IInv
<1> SUFFICES ASSUME Init PROVE IInv
    OBVIOUS
<1>1. PICK kind \in Kinds, triggers \in {"file", "hook", "both"} :
          LET ran == triggers = "both" IN
          rec = [NewRoutine(kind, 0, 0) EXCEPT
                !.file = IF triggers = "hook" THEN @ ELSE FileTrigger(1, FALSE),
                !.hook = IF triggers = "file" THEN @
                         ELSE [WebhookTrigger(1, ~ran) EXCEPT !.recent = [i \in 1..RecentLimit |-> "old"]],
                !.status = IF ran THEN "completed" ELSE "none",
                !.date = IF ran THEN 0 ELSE Never,
                !.at = IF ran /\ schedule = "interval" THEN 0 ELSE Never]
    BY DEF Init
<1> DEFINE base == NewRoutine(kind, 0, 0)
           ran == triggers = "both"
           olds == [i \in 1..RecentLimit |-> "old"]
           hook == [WebhookTrigger(1, ~ran) EXCEPT !.recent = olds]
<1>2. base \in Records
    BY NewRecord
<1>3. FileTrigger(1, FALSE) \in FileTriggers /\ WebhookTrigger(1, ~ran) \in HookTriggers
    BY NewTriggers DEF FileTriggers, HookTriggers
<1>4. hook \in HookTriggers
  <2>1. olds \in Seq(Events \cup {"old"}) /\ Len(olds) = RecentLimit
    <3>1. RecentLimit \in Nat
        BY Constants
    <3> QED
        BY <3>1
  <2> HIDE DEF olds
  <2>2. \A tr \in HookTriggers : [tr EXCEPT !.recent = olds] \in HookTriggers
      BY <2>1, Constants DEF HookTriggers, Triggers
  <2> QED
      BY <1>3, <2>2
<1> HIDE DEF base, hook, ran
<1>5. /\ rec \in Records /\ rec.date \in {0, Never} /\ rec.at \in {0, Never}
  <2>1. rec = [base EXCEPT
                !.file = IF triggers = "hook" THEN @ ELSE FileTrigger(1, FALSE),
                !.hook = IF triggers = "file" THEN @ ELSE hook,
                !.status = IF ran THEN "completed" ELSE "none",
                !.date = IF ran THEN 0 ELSE Never,
                !.at = IF ran /\ schedule = "interval" THEN 0 ELSE Never]
      BY <1>1 DEF base, hook, ran
  <2>2. 0 \in Marks /\ Never \in Marks
      BY Constants DEF Marks, Never
  <2> DEFINE f == IF triggers = "hook" THEN base.file ELSE FileTrigger(1, FALSE)
             h == IF triggers = "file" THEN base.hook ELSE hook
             status == IF ran THEN "completed" ELSE "none"
             date == IF ran THEN 0 ELSE Never
             at == IF ran /\ schedule = "interval" THEN 0 ELSE Never
  <2>3. f \in FileTriggers /\ h \in HookTriggers
      BY <1>2, <1>3, <1>4, RecordParts
  <2>4. status \in Statuses /\ date \in {0, Never} /\ at \in {0, Never}
      BY DEF Statuses, Ended
  <2>5. rec = [base EXCEPT !.file = f, !.hook = h, !.status = status, !.date = date, !.at = at]
      BY <1>2, <2>1 DEF Records
  <2> HIDE DEF f, h, status, date, at
  <2>6. \A d \in {0, Never} : d \in Marks
      BY <2>2
  <2> QED
      BY <1>2, <2>3, <2>4, <2>5, <2>6 DEF Records
<1>6. Types
  <2>1. CoTypes /\ WorldTypes
      BY IdleFits, Constants DEF Init, CoTypes, WorldTypes, TurnStates, Versions
  <2>2. HistoryTypes
    <3>1. runs = <<>> /\ Len(runs) = 0 /\ undone \in BOOLEAN
        BY DEF Init
    <3>2. runs \in Seq(RunRecords)
        BY <3>1, EmptySeq
    <3>3. Len(runs) <= MaxRuns
        BY <3>1, Constants
    <3> QED
        BY <3>1, <3>2, <3>3 DEF HistoryTypes
  <2> QED
      BY <1>5, <2>1, <2>2 DEF Types
<1>7. \A t \in Callers : co[t].pc = "idle" /\ co[t].snap = <<>>
    BY DEF Init, Idle
<1>8. LaunchInv /\ PastInv
  <2>1. Today \in Nat /\ clock = 0
      BY Days DEF Init, Today
  <2> QED
      BY <1>5, <1>7, <2>1 DEF Init, LaunchInv, PastInv, Past, Timely, Never
<1>9. DOMAIN runs = {}
    BY DEF Init
<1> QED
    BY <1>6, <1>8, <1>9
    DEF IInv, SlotInv, Slots, OneRunInv, EventInv, Fired, EventsFireOnce, AgentRunsAreAuthorized

LEMMA Steps ==
    ASSUME IInv, [Next]_vars
    PROVE  IInv'
<1>1. CASE UNCHANGED vars
  <2>1. Types' /\ LaunchInv'
      BY <1>1 DEF vars, IInv, Types, CoTypes, WorldTypes, HistoryTypes, LaunchInv
  <2>2. \A t \in Callers : Timely(co'[t])
      BY <1>1 DEF vars, IInv, PastInv
  <2> QED
      BY <1>1, <2>1, <2>2, QuietStep DEF vars
<1>2. ASSUME NEW t \in Callers, Sweep(t) PROVE IInv'
    BY <1>2, ReconcileReadStep, ReconcileApplyStep, ReconcileWriteStep, ReserveDueStep, ScanStep,
       RecordSeenStep DEF Sweep
<1>3. ASSUME NEW t \in Callers, Running(t) PROVE IInv'
    BY <1>3, LaunchStep, RecordRunStep, ReserveEventStep DEF Running
<1> QED
    BY <1>1, <1>2, <1>3, ListedStep, EmitStep, CrashStep, DeliverStep, SaveRoutineStep,
       DeleteRoutineStep, TriggersStep, WorldStep, TickStep DEF Next

\* However sweeps, tool calls, events, edits, crashes and ticks interleave, for any number
\* of each: the record's mark stands for the scheduled run of its slot, the triggers'
\* lists for the events that started runs (app_client_routines.py, app_client_events.py).
THEOREM Invariance == Spec => []IInv
<1>1. Init => IInv
    BY Initially
<1>2. IInv /\ [Next]_vars => IInv'
    BY Steps
<1> QED
    BY <1>1, <1>2, PTL DEF Spec

\* A routine is scheduled at most once a day (once per interval), unless the day's run was
\* given up or its mark was overwritten or deleted (app_routines.py:92-102).
THEOREM OneRunPerDay == Spec => []SecondRunIsExcused
<1>1. IInv => SecondRunIsExcused
  <2> SUFFICES ASSUME IInv, NEW t \in 0..MaxTicks, t \notin Waived
               PROVE  ~(Cardinality(ScheduledIn(t)) > 1)
      BY TypeParts DEF IInv, SecondRunIsExcused, Waived
  <2>1. \A m, n \in ScheduledIn(t) : m = n
      BY DEF IInv, OneRunInv, ScheduledIn
  <2>2. CASE ScheduledIn(t) = {}
      BY <2>2, FS_EmptySet
  <2>3. CASE ScheduledIn(t) # {}
    <3>1. PICK n : ScheduledIn(t) = {n}
        BY <2>1, <2>3
    <3>2. Cardinality({n}) = 1
        BY FS_Singleton
    <3> QED
        BY <3>1, <3>2
  <2> QED
      BY <2>2, <2>3
<1> QED
    BY <1>1, Invariance, PTL

\* Nothing but a reconciliation that overwrote another caller's step makes an event start
\* a second run of a trigger that remembers it (app_client_events.py:144-147, 230).
THEOREM NoReplay == Spec => []ReplaysAreExplained
<1>1. IInv => ReplaysAreExplained
    BY DEF IInv, EventInv, ReplaysAreExplained
<1> QED
    BY <1>1, Invariance, PTL

\* No event of an unknown sender starts an agent, whatever became of the routine since its
\* webhook was added (app_client_events.py:249-262).
THEOREM StrangersStartNoAgent == Spec => []AgentRunsAreAuthorized
<1>1. IInv => AgentRunsAreAuthorized
    BY DEF IInv
<1> QED
    BY <1>1, Invariance, PTL
=============================================================================
