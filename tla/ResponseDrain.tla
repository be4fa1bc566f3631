---------------------------- MODULE ResponseDrain ----------------------------
(***************************************************************************)
(* How a Claude turn reads the responses it is owed (claude_sdk.py,        *)
(* _run_turn; claude_responses.py; claude_completion.py;                   *)
(* claude_steering.py).  Every query sent to the CLI, the turn's prompt or *)
(* a steer that joins it, holds a ticket until a result debits it.  The    *)
(* CLI may merge queries into one response, may spawn background tasks     *)
(* that outlive the response and start an unsolicited follow-up, and may   *)
(* schedule a wakeup that fires another.  Turns follow one another on the  *)
(* same CLI stream: what one leaves unread is the next one's first answer. *)
(*                                                                         *)
(* Steers are coroutines of the same event loop: they interleave with the  *)
(* reader at its awaits.                                                   *)
(***************************************************************************)
EXTENDS Integers, Sequences, SequencesExt

CONSTANTS MaxTurns,     \* bound: turns, one after another
          MaxQueries,   \* bound: prompts and steers
          Settings      \* the settings considered, one for each behaviour

ASSUME DrainAssumption ==
    /\ {MaxTurns, MaxQueries} \subseteq Nat
    /\ \A s \in Settings :
          /\ {s.turns, s.queries, s.tasks, s.wakeups} \subseteq Nat
          /\ s.turns <= MaxTurns /\ s.queries <= MaxQueries
          /\ {s.validates, s.interrupts, s.sendFails, s.cliExits, s.cancels} \subseteq BOOLEAN

VARIABLE setting
LastTurn == setting.turns          \* bound: turns
LastQuery == setting.queries       \* bound: queries
MaxTasks == setting.tasks          \* bound: background tasks the CLI spawns
MaxWakeups == setting.wakeups      \* bound: wakeups it schedules
Validates == setting.validates     \* whether the embedder passed validate_turn_result
Interrupts == setting.interrupts   \* whether steers may ask to interrupt the current work
SendFails == setting.sendFails     \* whether a steer's interrupt or send may fail with the CLI alive
CliExits == setting.cliExits       \* whether the CLI process may exit
Cancels == setting.cancels         \* whether turns may be cancelled

Queries == 1..MaxQueries
Tasks == 1..MaxTasks

VARIABLES
    turn, phase, outcome,     \* the turn, where _run_turn is in it, and how it ended
    cycle,                    \* how the current read waits
    consumed, lastResult,     \* consumed_any_result, last_result_message
    tracked, wakeTracked,     \* _BackgroundTasks: open tasks, a pending wakeup
    cycleEnded, cycleWoke,    \* ... a task ended, a wakeup was scheduled in this cycle
    stamp,                    \* turns.response_finished_at is set
    rowCancelled,             \* another coroutine or process cancelled the row
    verdict, invalidated,     \* the validator's answer, and whether a steer made it stale
    made, of,                 \* queries registered, and the turn each belongs to
    tickets, covered,         \* PendingResults
    early, buffer,            \* steers accepted before the turn was ready, those not sent yet
    sending, interrupting,    \* steers between their registration and the return of their send
    followup,                 \* _session_interrupted_steer_followups
    delivered, answered,      \* history: queries that reached the CLI, that a read result answered
    up, eof,                  \* the client is connected; its CLI has exited
    inbox, busy, answering,   \* the CLI: queries waiting, a response under way, what it answers
    stream,                   \* messages not yet read
    cliTasks, spawned,        \* the CLI's running tasks
    cliWake, wakeups          \* the CLI's pending wakeup

turnVars == <<setting, turn, phase, outcome>>
readVars == <<cycle, consumed, lastResult>>
trackVars == <<tracked, wakeTracked, cycleEnded, cycleWoke>>
rowVars == <<stamp, rowCancelled>>
validVars == <<verdict, invalidated>>
queryVars == <<made, of, early, buffer, sending, interrupting, followup, delivered>>
ticketVars == <<tickets, covered>>
cliVars == <<up, eof, inbox, busy, answering, cliTasks, spawned, cliWake, wakeups>>
vars == <<turnVars, readVars, trackVars, rowVars, validVars, queryVars, ticketVars,
          answered, cliVars, stream>>

Message(kind, what) == [kind |-> kind, what |-> what]
Result(qs) == Message("result", qs)
Content == Message("content", {})
Noop == Message("noop", {})
Messages == [kind : {"content", "result", "noop", "started", "ended", "wakeup"},
             what : (SUBSET Queries) \cup (SUBSET Tasks)]

Phases == {"idle", "launched", "prompting", "flushing", "read", "stamp", "check", "clear",
           "top", "leave", "validate", "ended"}
Reading == {"read", "stamp", "check", "clear", "top", "leave", "validate"}
Active == Reading \cup {"launched", "prompting", "flushing"}

TypeOK ==
    /\ setting \in Settings
    /\ turn \in 0..MaxTurns /\ phase \in Phases
    /\ outcome \in {"none", "completed", "failed", "cancelled"}
    /\ cycle \in {"none", "block", "timed", "drain"}
    /\ consumed \in BOOLEAN /\ lastResult \in BOOLEAN
    /\ tracked \subseteq Tasks
    /\ {wakeTracked, cycleEnded, cycleWoke, stamp, rowCancelled, invalidated} \subseteq BOOLEAN
    /\ verdict \in {"none", "passed", "refused"}
    /\ made \in 0..MaxQueries /\ of \in [Queries -> 0..MaxTurns]
    /\ tickets \in Seq(Queries) /\ IsInjective(tickets) /\ covered \subseteq ToSet(tickets)
    /\ early \subseteq Queries /\ buffer \in Seq(Queries)
    /\ sending \subseteq Queries /\ interrupting \subseteq sending
    /\ {followup, up, eof, busy, cliWake} \subseteq BOOLEAN
    /\ delivered \subseteq Queries /\ answered \subseteq Queries /\ answering \subseteq Queries
    /\ inbox \in Seq(Queries)
    /\ cliTasks \subseteq Tasks /\ spawned \in 0..MaxTasks /\ wakeups \in 0..MaxWakeups
    /\ stream \in Seq(Messages)

Init ==
    /\ setting \in Settings
    /\ turn = 0 /\ phase = "idle" /\ outcome = "none"
    /\ cycle = "none" /\ consumed = FALSE /\ lastResult = FALSE
    /\ tracked = {} /\ wakeTracked = FALSE /\ cycleEnded = FALSE /\ cycleWoke = FALSE
    /\ stamp = FALSE /\ rowCancelled = FALSE
    /\ verdict = "none" /\ invalidated = FALSE
    /\ made = 0 /\ of = [q \in Queries |-> 0]
    /\ tickets = <<>> /\ covered = {}
    /\ early = {} /\ buffer = <<>> /\ sending = {} /\ interrupting = {} /\ followup = FALSE
    /\ delivered = {} /\ answered = {}
    /\ up = FALSE /\ eof = FALSE
    /\ inbox = <<>> /\ busy = FALSE /\ answering = {}
    /\ stream = <<>>
    /\ cliTasks = {} /\ spawned = 0
    /\ cliWake = FALSE /\ wakeups = 0

-----------------------------------------------------------------------------
(* PendingResults and _BackgroundTasks *)

NeedsResult == ToSet(tickets) \ covered # {}
Background == tracked # {} \/ wakeTracked

MoreToRead == tickets # <<>> \/ (consumed /\ Background /\ ~rowCancelled)

\* A query is registered before it is sent; registering clears the recovery stamp.
Register(q) ==
    /\ tickets' = Append(tickets, q)
    /\ stamp' = FALSE
    /\ UNCHANGED covered

\* PendingResults.discard: a query whose ticket is gone already takes no other's.
Discard(q) ==
    /\ tickets' = IF q \in ToSet(tickets)
                  THEN RemoveAt(tickets, CHOOSE n \in DOMAIN tickets : tickets[n] = q)
                  ELSE tickets
    /\ covered' = covered \ {q}

ClearTickets ==
    /\ tickets' = <<>>
    /\ covered' = {}
    /\ followup' = FALSE

\* _disconnect_sdk_client: what the stream still owed dies with it, sends in flight fail.
Disconnect ==
    /\ ClearTickets
    /\ sending' = {} /\ interrupting' = {}
    /\ up' = FALSE /\ eof' = FALSE
    /\ inbox' = <<>> /\ busy' = FALSE /\ answering' = {} /\ stream' = <<>>
    /\ cliTasks' = {} /\ cliWake' = FALSE
    /\ UNCHANGED <<made, of, early, delivered, spawned, wakeups>>

KeepClient ==
    UNCHANGED <<ticketVars, made, of, early, sending, interrupting, followup, delivered,
                cliVars, stream>>

\* The turn's row and the session get the outcome; the finally clause drops what is buffered.
End(o) ==
    /\ phase' = "ended" /\ outcome' = o
    /\ buffer' = <<>>
    /\ cycle' = "none" /\ consumed' = FALSE /\ lastResult' = FALSE
    /\ tracked' = {} /\ wakeTracked' = FALSE /\ cycleEnded' = FALSE /\ cycleWoke' = FALSE
    /\ UNCHANGED <<setting, turn, rowVars, validVars, answered>>

\* Every exception drops the client before the row is failed.
Fail == Disconnect /\ End(IF rowCancelled THEN "cancelled" ELSE "failed")

Complete == IF rowCancelled THEN Disconnect /\ End("cancelled")
            ELSE KeepClient /\ End("completed")

-----------------------------------------------------------------------------
(* The turn's own queries: its prompt, then the steers buffered before it was ready *)

Launch ==
    /\ phase \in {"idle", "ended"}
    /\ turn < LastTurn /\ made < LastQuery
    /\ turn' = turn + 1 /\ phase' = "launched" /\ outcome' = "none"
    /\ made' = made + 1 /\ of' = [of EXCEPT ![made + 1] = turn + 1]
    /\ stamp' = FALSE /\ rowCancelled' = FALSE /\ verdict' = "none" /\ invalidated' = FALSE
    /\ UNCHANGED <<setting, readVars, trackVars, early, buffer, sending, interrupting, followup,
                   delivered, ticketVars, answered, cliVars, stream>>

Prompt == CHOOSE q \in Queries : of[q] = turn /\ \A p \in Queries : of[p] = turn => q <= p

\* The client is reused or connected; a resumed CLI may first emit an empty result.
BeginPrompt ==
    /\ phase = "launched"
    /\ phase' = "prompting"
    /\ Register(Prompt)
    /\ up' = TRUE
    /\ IF up THEN UNCHANGED stream ELSE stream' \in {<<>>, <<Noop>>}
    /\ UNCHANGED <<setting, turn, outcome, readVars, trackVars, rowCancelled, validVars, queryVars,
                   answered, eof, inbox, busy, answering, cliTasks, spawned, cliWake, wakeups>>

Deliver(q) ==
    /\ inbox' = Append(inbox, q)
    /\ delivered' = delivered \cup {q}

\* Mutant: the newest buffered steer is sent first.
SendOwnNewest ==
    /\ phase \in {"prompting", "flushing"}
    /\ ~eof
    /\ Deliver(Last(tickets))
    /\ IF buffer = <<>>
       THEN phase' = "top" /\ UNCHANGED <<buffer, tickets, covered, stamp>>
       ELSE phase' = "flushing" /\ Register(Last(buffer)) /\ buffer' = Front(buffer)
    /\ UNCHANGED <<setting, turn, outcome, readVars, trackVars, rowCancelled, validVars, made, of, early,
                   sending, interrupting, followup, answered, up, eof, busy, answering,
                   cliTasks, spawned, cliWake, wakeups, stream>>

\* A send returned: the next buffered steer is registered and sent; no await separates
\* the empty buffer from the turn being ready.
SendOwn ==
    /\ phase \in {"prompting", "flushing"}
    /\ ~eof
    /\ Deliver(Last(tickets))
    /\ IF buffer = <<>>
       THEN phase' = "top" /\ UNCHANGED <<buffer, tickets, covered, stamp>>
       ELSE phase' = "flushing" /\ Register(Head(buffer)) /\ buffer' = Tail(buffer)
    /\ UNCHANGED <<setting, turn, outcome, readVars, trackVars, rowCancelled, validVars, made, of, early,
                   sending, interrupting, followup, answered, up, eof, busy, answering,
                   cliTasks, spawned, cliWake, wakeups, stream>>

SendOwnFails ==
    /\ phase \in {"prompting", "flushing"}
    /\ eof
    /\ Fail

-----------------------------------------------------------------------------
(* Steers *)

\* The bound on queries leaves room for the prompts of later turns.
RoomForSteer == made + (LastTurn - turn) < LastQuery

SteerEarly ==
    /\ phase \in {"launched", "prompting", "flushing"}
    /\ ~rowCancelled
    /\ RoomForSteer
    /\ made' = made + 1 /\ of' = [of EXCEPT ![made + 1] = turn]
    /\ early' = early \cup {made + 1}
    /\ buffer' = Append(buffer, made + 1)
    /\ UNCHANGED <<turnVars, readVars, trackVars, rowVars, validVars, sending, interrupting,
                   followup, delivered, ticketVars, answered, cliVars, stream>>

\* The ticket is registered, and a validation under way made stale, before the send's await.
SteerBegin(interrupt) ==
    /\ phase \in Reading
    /\ up
    /\ ~rowCancelled
    /\ RoomForSteer
    /\ interrupt => Interrupts
    /\ made' = made + 1 /\ of' = [of EXCEPT ![made + 1] = turn]
    /\ Register(made + 1)
    /\ invalidated' = (phase = "validate" \/ invalidated)
    /\ sending' = sending \cup {made + 1}
    /\ interrupting' = IF interrupt THEN interrupting \cup {made + 1} ELSE interrupting
    /\ followup' = (interrupt \/ followup)
    /\ UNCHANGED <<turnVars, readVars, trackVars, rowCancelled, verdict, early, buffer,
                   delivered, answered, cliVars, stream>>

\* The CLI acknowledges the interrupt and ends the response under way.
SteerInterrupt(q) ==
    /\ q \in interrupting
    /\ ~eof
    /\ interrupting' = interrupting \ {q}
    /\ busy' = FALSE /\ answering' = {}
    /\ stream' = IF busy THEN Append(stream, Result(answering)) ELSE stream
    /\ UNCHANGED <<turnVars, readVars, trackVars, rowVars, validVars, made, of, early, buffer,
                   sending, followup, delivered, ticketVars, answered, up, eof, inbox,
                   cliTasks, spawned, cliWake, wakeups>>

SteerSend(q) ==
    /\ q \in sending \ interrupting
    /\ ~eof
    /\ Deliver(q)
    /\ sending' = sending \ {q}
    /\ UNCHANGED <<turnVars, readVars, trackVars, rowVars, validVars, made, of, early, buffer,
                   interrupting, followup, ticketVars, answered, up, eof, busy, answering,
                   cliTasks, spawned, cliWake, wakeups, stream>>

\* The interrupt or the send raised, or the steer's caller was cancelled.
SteerFails(q) ==
    /\ q \in sending
    /\ SendFails \/ eof
    /\ sending' = sending \ {q} /\ interrupting' = interrupting \ {q}
    /\ Discard(q)
    /\ followup' = FALSE
    /\ UNCHANGED <<turnVars, readVars, trackVars, rowVars, validVars, made, of, early, buffer,
                   delivered, answered, cliVars, stream>>

-----------------------------------------------------------------------------
(* The reader *)

\* How the next response is awaited: without a bound if a query is owed a result of its
\* own, for a while if the open tickets may have been merged, by polling if only
\* background work remains.
NextCycle ==
    /\ phase = "top"
    /\ MoreToRead
    /\ phase' = "read"
    /\ consumed' = (consumed /\ ~NeedsResult) /\ lastResult' = (lastResult /\ ~NeedsResult)
    /\ followup' = (followup /\ ~(NeedsResult /\ consumed))
    /\ cycle' = IF tickets = <<>> THEN "drain" ELSE IF consumed' THEN "timed" ELSE "block"
    /\ cycleEnded' = FALSE /\ cycleWoke' = FALSE
    /\ UNCHANGED <<setting, turn, outcome, tracked, wakeTracked, rowVars, validVars, made, of, early,
                   buffer, sending, interrupting, delivered, ticketVars, answered, cliVars, stream>>

\* A message was received.  The first one of a timed read turns it into an unbounded one.
Receive(kind) ==
    /\ phase = "read"
    /\ ~rowCancelled
    /\ stream # <<>> /\ Head(stream).kind = kind
    /\ stream' = Tail(stream)
    /\ cycle' = IF cycle = "timed" THEN "block" ELSE cycle
    /\ followup' = (followup /\ cycle # "timed")
    /\ UNCHANGED <<setting, turn, outcome, rowCancelled, validVars, made, of, early, buffer, sending,
                   interrupting, delivered, cliVars>>

ReadContent ==
    /\ Receive("content")
    /\ stamp' = FALSE
    /\ UNCHANGED <<phase, consumed, lastResult, trackVars, ticketVars, answered>>

ReadTaskStart ==
    /\ Receive("started")
    /\ tracked' = tracked \cup Head(stream).what
    /\ UNCHANGED <<phase, consumed, lastResult, wakeTracked, cycleEnded, cycleWoke, stamp,
                   ticketVars, answered>>

\* Mutant: a task's terminal event is not taken as its end.
ReadTaskEndIgnored ==
    /\ Receive("ended")
    /\ cycleEnded' = TRUE
    /\ UNCHANGED <<phase, consumed, lastResult, tracked, wakeTracked, cycleWoke, stamp,
                   ticketVars, answered>>

ReadTaskEnd ==
    /\ Receive("ended")
    /\ tracked' = tracked \ Head(stream).what
    /\ cycleEnded' = TRUE
    /\ UNCHANGED <<phase, consumed, lastResult, wakeTracked, cycleWoke, stamp, ticketVars, answered>>

ReadWakeup ==
    /\ Receive("wakeup")
    /\ wakeTracked' = TRUE /\ cycleWoke' = TRUE
    /\ UNCHANGED <<phase, consumed, lastResult, tracked, cycleEnded, stamp, ticketVars, answered>>

ReadNoop ==
    /\ Receive("noop")
    /\ phase' = "top"
    /\ UNCHANGED <<consumed, lastResult, trackVars, stamp, ticketVars, answered>>

\* Mutant: a result debits every ticket it may have covered.
ReadResultDebitsAll ==
    /\ Receive("result")
    /\ tickets' = <<>> /\ covered' = {}
    /\ wakeTracked' = (wakeTracked /\ (tickets # <<>> \/ cycleEnded \/ cycleWoke))
    /\ answered' = answered \cup Head(stream).what
    /\ consumed' = TRUE /\ lastResult' = TRUE
    /\ phase' = "stamp"
    /\ UNCHANGED <<tracked, cycleEnded, cycleWoke, stamp>>

\* PendingResults.receive: every open ticket may have been merged into this result, the
\* oldest is debited.  A result nobody asked for, with no task ended in its cycle and no
\* newer wakeup, is the wakeup firing.
ReadResult ==
    /\ Receive("result")
    /\ tickets' = IF tickets = <<>> THEN <<>> ELSE Tail(tickets)
    /\ covered' = ToSet(tickets')
    /\ wakeTracked' = (wakeTracked /\ (tickets # <<>> \/ cycleEnded \/ cycleWoke))
    /\ answered' = answered \cup Head(stream).what
    /\ consumed' = TRUE /\ lastResult' = TRUE
    /\ phase' = "stamp"
    /\ UNCHANGED <<tracked, cycleEnded, cycleWoke, stamp>>

\* The stamp is written in a worker thread; a steer may register before or after it.
StampWrite ==
    /\ phase = "stamp"
    /\ stamp' = IF rowCancelled THEN stamp ELSE ~Validates
    /\ phase' = "check"
    /\ UNCHANGED <<setting, turn, outcome, readVars, trackVars, rowCancelled, validVars, queryVars,
                   ticketVars, answered, cliVars, stream>>

\* Mutant: the stamp is not looked at again.
StampTrusted ==
    /\ phase = "check"
    /\ phase' = "top"
    /\ UNCHANGED <<setting, turn, outcome, readVars, trackVars, rowVars, validVars, queryVars,
                   ticketVars, answered, cliVars, stream>>

StampCheck ==
    /\ phase = "check"
    /\ phase' = IF NeedsResult THEN "clear" ELSE "top"
    /\ UNCHANGED <<setting, turn, outcome, readVars, trackVars, rowVars, validVars, queryVars,
                   ticketVars, answered, cliVars, stream>>

StampClear ==
    /\ phase = "clear"
    /\ stamp' = FALSE
    /\ phase' = "top"
    /\ UNCHANGED <<setting, turn, outcome, readVars, trackVars, rowCancelled, validVars, queryVars,
                   ticketVars, answered, cliVars, stream>>

\* The bounds of the timed read, 5 s and 90 s, are longer than a send and the start of the
\* response to a delivered query take.
Quiet == stream = <<>> /\ (eof \/ (inbox = <<>> /\ ~busy /\ sending = {}))

\* Mutant: a query that joined the timed read is dismissed with the merged ones.
TimedOutDismisses ==
    /\ phase = "read" /\ cycle = "timed" /\ stream = <<>>
    /\ NeedsResult \/ (Quiet /\ ~followup)
    /\ IF Background
       THEN /\ phase' = "top"
            /\ ClearTickets
            /\ UNCHANGED <<made, of, early, buffer, sending, interrupting, delivered, cliVars, stream>>
       ELSE /\ Disconnect
            /\ phase' = "leave"
            /\ UNCHANGED buffer
    /\ UNCHANGED <<setting, turn, outcome, readVars, trackVars, rowVars, validVars, answered>>

\* No further response began: a query that joined this read keeps its claim, an interrupted
\* steer's follow-up is missing, and otherwise the open tickets were merged away.
TimedOut ==
    /\ phase = "read" /\ cycle = "timed" /\ Quiet
    /\ ~NeedsResult /\ ~followup
    /\ IF Background
       THEN /\ phase' = "top"
            /\ ClearTickets
            /\ UNCHANGED <<made, of, early, buffer, sending, interrupting, delivered, cliVars, stream>>
       ELSE /\ Disconnect
            /\ phase' = "leave"
            /\ UNCHANGED buffer
    /\ UNCHANGED <<setting, turn, outcome, readVars, trackVars, rowVars, validVars, answered>>

\* A query that joined the read just before it timed out may still be on its way.
TimedOutOwed ==
    /\ phase = "read" /\ cycle = "timed" /\ stream = <<>>
    /\ NeedsResult
    /\ phase' = "top"
    /\ UNCHANGED <<setting, turn, outcome, readVars, trackVars, rowVars, validVars, queryVars,
                   ticketVars, answered, cliVars, stream>>

TimedOutInterrupted ==
    /\ phase = "read" /\ cycle = "timed" /\ Quiet
    /\ ~NeedsResult /\ followup
    /\ Fail

\* The stream ended inside an unbounded read.
StreamEnded ==
    /\ phase = "read" /\ cycle = "block" /\ stream = <<>> /\ eof
    /\ IF NeedsResult
       THEN Fail
       ELSE /\ ClearTickets
            /\ phase' = "leave"
            /\ UNCHANGED <<setting, turn, outcome, readVars, trackVars, rowVars, validVars, made, of, early,
                           buffer, sending, interrupting, delivered, answered, cliVars, stream>>

DrainEnded ==
    /\ phase = "read" /\ cycle = "drain" /\ stream = <<>> /\ eof
    /\ phase' = "leave"
    /\ UNCHANGED <<setting, turn, outcome, readVars, trackVars, rowVars, validVars, queryVars,
                   ticketVars, answered, cliVars, stream>>

\* A poll of the drain: the last task ended and no message came.  The client is dropped.
DrainPoll ==
    /\ phase = "read" /\ cycle = "drain" /\ stream = <<>> /\ ~eof
    /\ ~Background
    /\ Disconnect
    /\ phase' = "top"
    /\ UNCHANGED <<setting, turn, outcome, readVars, trackVars, rowVars, validVars, buffer, answered>>

\* A wakeup that did not fire two minutes after its time is given up.
WakeupExpires ==
    /\ phase = "read" /\ cycle = "drain" /\ stream = <<>> /\ ~eof
    /\ wakeTracked /\ ~cliWake /\ ~busy
    /\ wakeTracked' = FALSE
    /\ UNCHANGED <<turnVars, readVars, tracked, cycleEnded, cycleWoke, rowVars, validVars,
                   queryVars, ticketVars, answered, cliVars, stream>>

-----------------------------------------------------------------------------
(* Behind the reading loop *)

LeavesLoop == ~rowCancelled /\ (phase = "leave" \/ (phase = "top" /\ ~MoreToRead))

Reread ==
    /\ LeavesLoop
    /\ NeedsResult
    /\ phase' = "top"
    /\ UNCHANGED <<setting, turn, outcome, readVars, trackVars, rowVars, validVars, queryVars,
                   ticketVars, answered, cliVars, stream>>

\* No terminal result, or unfinished background work in front of a validator.
Unverified ==
    /\ LeavesLoop
    /\ ~NeedsResult
    /\ ~lastResult \/ (Validates /\ Background)
    /\ Fail

\* The last result reported an error.
ErrorResult ==
    /\ LeavesLoop
    /\ ~NeedsResult /\ lastResult
    /\ Fail

CompleteTurn ==
    /\ LeavesLoop
    /\ ~NeedsResult /\ lastResult /\ ~Validates
    /\ Complete

StartValidation ==
    /\ LeavesLoop
    /\ ~NeedsResult /\ lastResult /\ Validates /\ ~Background
    /\ phase' = "validate"
    /\ verdict' = "none" /\ invalidated' = FALSE
    /\ UNCHANGED <<setting, turn, outcome, readVars, trackVars, rowVars, queryVars, ticketVars,
                   answered, cliVars, stream>>

ValidatorAnswers ==
    /\ phase = "validate"
    /\ verdict = "none" /\ ~invalidated
    /\ verdict' \in {"passed", "refused"}
    /\ UNCHANGED <<turnVars, readVars, trackVars, rowVars, invalidated, queryVars, ticketVars,
                   answered, cliVars, stream>>

\* ResultValidation.run returned: stale, the turn reads on; otherwise the verdict stands.
ValidationResumes ==
    /\ phase = "validate"
    /\ verdict # "none" \/ invalidated
    /\ IF invalidated
       THEN /\ phase' = "top"
            /\ UNCHANGED <<setting, turn, outcome, readVars, trackVars, rowVars, validVars, queryVars,
                           ticketVars, answered, cliVars, stream>>
       ELSE IF verdict = "passed" THEN Complete ELSE Fail

-----------------------------------------------------------------------------
(* Cancellation: the row is written first, the watch then cancels the task *)

CancelRow ==
    /\ Cancels
    /\ phase \in Active
    /\ ~rowCancelled
    /\ rowCancelled' = TRUE
    /\ UNCHANGED <<turnVars, readVars, trackVars, stamp, validVars, queryVars, ticketVars,
                   answered, cliVars, stream>>

TurnCancelled ==
    /\ phase \in Active
    /\ rowCancelled
    /\ Disconnect
    /\ End("cancelled")

-----------------------------------------------------------------------------
(* The CLI, as claude_sdk.py uses it *)

CliAlive == up /\ ~eof

CliUnchanged == UNCHANGED <<turnVars, readVars, trackVars, rowVars, validVars, queryVars,
                            ticketVars, answered, up>>

CliBegin ==
    /\ CliAlive /\ ~busy /\ inbox # <<>>
    /\ busy' = TRUE /\ answering' = {Head(inbox)} /\ inbox' = Tail(inbox)
    /\ stream' = Append(stream, Content)
    /\ CliUnchanged /\ UNCHANGED <<eof, cliTasks, spawned, cliWake, wakeups>>

\* A query read between the tool calls of a response joins that response.
CliJoin ==
    /\ CliAlive /\ busy /\ inbox # <<>>
    /\ answering' = answering \cup {Head(inbox)} /\ inbox' = Tail(inbox)
    /\ CliUnchanged /\ UNCHANGED <<eof, busy, stream, cliTasks, spawned, cliWake, wakeups>>

CliResult ==
    /\ CliAlive /\ busy
    /\ busy' = FALSE /\ answering' = {}
    /\ stream' = Append(stream, Result(answering))
    /\ CliUnchanged /\ UNCHANGED <<eof, inbox, cliTasks, spawned, cliWake, wakeups>>

CliSpawn ==
    /\ CliAlive /\ busy /\ spawned < MaxTasks
    /\ spawned' = spawned + 1
    /\ cliTasks' = cliTasks \cup {spawned + 1}
    /\ stream' = Append(stream, Message("started", {spawned + 1}))
    /\ CliUnchanged /\ UNCHANGED <<eof, inbox, busy, answering, cliWake, wakeups>>

\* A task ends.  A response under way takes its outcome in; otherwise a follow-up starts,
\* unless the task was killed.
CliTaskEnd(k) ==
    /\ CliAlive /\ k \in cliTasks
    /\ cliTasks' = cliTasks \ {k}
    /\ \E follows \in IF busy THEN {FALSE} ELSE BOOLEAN :
          /\ busy' = (busy \/ follows)
          /\ stream' = stream \o <<Message("ended", {k})>> \o (IF follows THEN <<Content>> ELSE <<>>)
    /\ CliUnchanged /\ UNCHANGED <<eof, inbox, answering, spawned, cliWake, wakeups>>

CliSchedule ==
    /\ CliAlive /\ busy /\ ~cliWake /\ wakeups < MaxWakeups
    /\ cliWake' = TRUE /\ wakeups' = wakeups + 1
    /\ stream' = Append(stream, Message("wakeup", {}))
    /\ CliUnchanged /\ UNCHANGED <<eof, inbox, busy, answering, cliTasks, spawned>>

CliWakes ==
    /\ CliAlive /\ ~busy /\ cliWake
    /\ cliWake' = FALSE
    /\ busy' = TRUE
    /\ stream' = Append(stream, Content)
    /\ CliUnchanged /\ UNCHANGED <<eof, inbox, answering, cliTasks, spawned, wakeups>>

CliExit ==
    /\ CliExits /\ CliAlive
    /\ eof' = TRUE
    /\ inbox' = <<>> /\ busy' = FALSE /\ answering' = {} /\ cliTasks' = {} /\ cliWake' = FALSE
    /\ CliUnchanged /\ UNCHANGED <<stream, spawned, wakeups>>

-----------------------------------------------------------------------------
OwnSend == BeginPrompt \/ SendOwn \/ SendOwnFails

ReadMessage ==
    ReadContent \/ ReadTaskStart \/ ReadTaskEnd \/ ReadWakeup \/ ReadNoop \/ ReadResult

ReadEnds ==
    \/ TimedOut \/ TimedOutOwed \/ TimedOutInterrupted
    \/ StreamEnded \/ DrainEnded \/ DrainPoll \/ WakeupExpires

Conclude ==
    \/ Reread \/ Unverified \/ CompleteTurn \/ StartValidation
    \/ ValidatorAnswers \/ ValidationResumes \/ TurnCancelled

Reader ==
    OwnSend \/ NextCycle \/ ReadMessage \/ StampWrite \/ StampCheck \/ StampClear \/ ReadEnds \/ Conclude

SteerReturns == \E q \in sending : SteerInterrupt(q) \/ SteerSend(q)

CliWork == CliBegin \/ CliResult \/ CliWakes \/ \E k \in Tasks : CliTaskEnd(k)

Next ==
    \/ Launch \/ Reader \/ ErrorResult \/ CancelRow
    \/ SteerEarly \/ SteerReturns
    \/ \E interrupt \in BOOLEAN : SteerBegin(interrupt)
    \/ \E q \in sending : SteerFails(q)
    \/ CliWork \/ CliJoin \/ CliSpawn \/ CliSchedule \/ CliExit

Spec == Init /\ [][Next]_vars

\* The event loop serves the reader and the steers; the CLI answers what it was sent and
\* ends what it began.  Steers, cancellations, failures and tasks are not fair.
FairSpec == Spec /\ WF_vars(Reader) /\ WF_vars(SteerReturns) /\ WF_vars(CliWork)

-----------------------------------------------------------------------------
(* Properties *)

Completed == phase = "ended" /\ outcome = "completed"
Mine(q) == of[q] = turn
NoBackground == MaxTasks = 0 /\ MaxWakeups = 0
NoSteers == LastQuery <= LastTurn

\* "A steer's response must be consumed by the steered turn"
\* (test_claude_sdk_steered_response_does_not_shift_next_turn): no turn reads the answer
\* to another turn's query.  (A steer among background work can break this as well.)
AnswersStayHome ==
    [][ReadResult => \A q \in Head(stream).what : Mine(q)]_vars

\* A completed turn hands a clean stream to the next one: nothing unread, nothing waiting
\* or under way in the CLI, no background task or wakeup still to report.  (A steer among
\* background work can break this: its ticket is debited by a follow-up's result.)
CleanHandOver ==
    Completed /\ CliAlive /\ (NoBackground \/ NoSteers) =>
        /\ stream = <<>> /\ inbox = <<>> /\ ~busy
        /\ cliTasks = {} /\ ~cliWake

\* "Queries registered after the last result need a new terminal response, regardless of
\* how long it takes": a turn completes only when every query it accepted was answered, if its CLI
\* stays and has no background work.
QueriesAreAnswered ==
    Completed /\ ~CliExits /\ NoBackground => \A q \in delivered \cup sending : Mine(q) => q \in answered

\* The stamp that lets the orphan sweep complete a dead process's turn is off while a
\* query is owed a result, but for the write that raced its registration.  (The type
\* invariant goes along.)
StampIsHonest ==
    /\ TypeOK
    /\ stamp /\ phase \in Active \ {"stamp", "check", "clear"} => ~NeedsResult

\* The prompt goes first and the corrections buffered behind it follow in the order they
\* came: nothing overtakes a query accepted before the turn was ready.
EarlySteersKeepOrder ==
    phase \in Active =>
        \A q \in early \cup (IF phase = "launched" THEN {} ELSE {Prompt}), p \in delivered :
            Mine(q) /\ Mine(p) /\ p > q => q \in delivered

\* The reader waits without a bound for a result, and the CLI has nothing left to say.
Stranded ==
    /\ phase = "read" /\ cycle = "block" /\ stream = <<>>
    /\ CliAlive /\ ~busy /\ inbox = <<>> /\ sending = {} /\ cliTasks = {} /\ ~cliWake

\* Every launched turn ends, whichever responses the CLI merged, owed or never began.  Two
\* things can strand it, until it is steered or cancelled.  A steer's send fails while the
\* CLI lives on, and the reader already waits for the response.  Or a steer meets background
\* work: a follow-up's first message ends the bound of the timed read, and the ticket it
\* waits with is for a response that was merged away.
TurnsEnd ==
    phase = "launched"
        ~> \/ phase = "ended"
           \/ Stranded /\ (SendFails \/ ~(NoBackground \/ NoSteers))
==============================================================================
