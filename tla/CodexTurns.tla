------------------------------ MODULE CodexTurns ------------------------------
(***************************************************************************)
(* One Codex client process, the app server it talks to over a websocket,  *)
(* and what it believes about the turns of one thread                      *)
(* (app_client_transport.py, app_client_turns.py, app_client_labels.py,    *)
(* app_client_sessions.py, app_client_permissions.py).                     *)
(*                                                                         *)
(* The client learns of a turn from four sides: the answers to its own     *)
(* requests, the server's notifications, the reads it makes of the thread, *)
(* and the session record it keeps in the state file.  Each request is an  *)
(* await: what was true when it was sent may not be when it is answered.   *)
(* Notifications change the memory at once and the record by a task that   *)
(* runs later, in order.  The app server is external.                      *)
(***************************************************************************)
EXTENDS Integers, FiniteSets, Sequences, SequencesExt

CONSTANTS MaxTurns,     \* bound: turns the server starts
          MaxSubmits,   \* bound: prompts submitted
          MaxTwists     \* bound: progress notifications, approval requests, requests
                        \* that time out and connections that are lost

ASSUME TurnsAssumption == {MaxTurns, MaxSubmits, MaxTwists} \subseteq Nat

Turns == 1..MaxTurns
NoTurn == 0
Prompts == 1..MaxSubmits
Asks == 1..MaxTwists
Calls == {"submit", "progress", "cancel"}
Answerers == {"callback", "poll"}   \* the embedder's callback, the poll for a stored decision

VARIABLES
    srv,         \* server: the state of each turn
    requests,    \* server: requests received and not answered
    wire,        \* messages on their way to the client
    connected,   \* whether the thread's notifications reach the client
    call,        \* the client's coroutines, each waiting for an answer or about to go on
    tracked,     \* _turns: [status, finished, asks]
    current,     \* _current_turn_ids
    pendingAsks, \* _pending_server_requests
    answering,   \* answer_request coroutines in their send
    merges,      \* scheduled merge_session tasks, in order
    session,     \* the session record: activeTurnId, lastTurnId, lastStatus
    submits, twists,   \* counters of the bounds
    delivered,   \* history: how often each prompt reached a turn
    missed,      \* history: turns of which a notification was lost
    overtaken    \* history: a read or a cancellation was asked about a turn that is not the
                 \* newest, or was under way when a newer turn started

serverVars == <<srv, requests>>
memoryVars == <<tracked, current>>
askVars == <<pendingAsks, answering>>
boundVars == <<submits, twists>>
historyVars == <<delivered, missed, overtaken>>
vars == <<serverVars, wire, connected, call, memoryVars, askVars, merges, session,
          boundVars, historyVars>>

Terminal == {"completed", "failed", "cancelled"}
ActiveStatus == {"running", "waiting"}
ServerStates == {"none", "running", "stopping", "completed", "failed", "interrupted"}
Message(kind, what) == [kind |-> kind, what |-> what]
NoCall == [pc |-> "none", op |-> "none", turn |-> NoTurn, val |-> "none", prompt |-> 0,
           epoch |-> 0, ahead |-> 0]
Untracked == [status |-> "none", finished |-> FALSE, asks |-> {}]

TypeOK ==
    /\ srv \in [Turns -> ServerStates] /\ connected \in BOOLEAN
    /\ \A k \in Calls : call[k].pc \in {"none", "wait", "ready"} /\ call[k].turn \in Turns \cup {NoTurn}
    /\ \A t \in Turns : /\ tracked[t].status \in Terminal \cup ActiveStatus \cup {"none"}
                        /\ tracked[t].finished \in BOOLEAN /\ tracked[t].asks \subseteq Asks
    /\ current \in Turns \cup {NoTurn} /\ pendingAsks \subseteq Asks
    /\ answering \in [Answerers -> 0..MaxTwists]
    /\ session.active \in Turns \cup {NoTurn} /\ session.last \in Turns \cup {NoTurn}
    /\ session.status \in Terminal \cup ActiveStatus \cup {"unknown"}
    /\ delivered \in [Prompts -> Nat] /\ missed \subseteq Turns /\ overtaken \in BOOLEAN

\* A thread that start_thread just registered: nothing is known of it.
Init ==
    /\ srv = [t \in Turns |-> "none"] /\ requests = {} /\ wire = <<>> /\ connected = TRUE
    /\ call = [k \in Calls |-> NoCall]
    /\ tracked = [t \in Turns |-> Untracked] /\ current = NoTurn
    /\ pendingAsks = {} /\ answering = [x \in Answerers |-> 0]
    /\ merges = <<>> /\ session = [active |-> NoTurn, last |-> NoTurn, status |-> "unknown"]
    /\ submits = 0 /\ twists = 0
    /\ delivered = [n \in Prompts |-> 0] /\ missed = {} /\ overtaken = FALSE

-----------------------------------------------------------------------------
(* What the client believes.                                               *)

IsActive(status) == status \in ActiveStatus

\* normalize_turn_status of what thread/read says of a turn.
Normalized(state) ==
    CASE state \in {"running", "stopping"} -> "running"
      [] state = "interrupted" -> "cancelled"
      [] state = "none" -> "unknown"
      [] OTHER -> state

\* session_status: what memory says of the turn the record names; a turn that ended but
\* was set back to an active status is unknown, unless the record knows better.
SessionStatus(turns, s) ==
    LET named == IF s.active # NoTurn THEN s.active
                 ELSE IF IsActive(s.status) THEN s.last ELSE NoTurn
    IN IF named = NoTurn THEN IF IsActive(s.status) THEN "unknown" ELSE s.status
       ELSE IF turns[named].status = "none" THEN s.status
       ELSE IF ~(IsActive(turns[named].status) /\ turns[named].finished) THEN turns[named].status
       ELSE IF s.active # NoTurn /\ ~IsActive(s.status) THEN s.status
       ELSE "unknown"

\* thread_has_active_turn.
ThreadHasActiveTurn(turns, s) == IsActive(SessionStatus(turns, s))

\* The turn a name resolves to.
ResolvedTurn == IF session.active # NoTurn THEN session.active ELSE session.last

\* The newest turn at the server, and the newest of those that still run there.
Latest == Max({NoTurn} \cup {t \in Turns : srv[t] # "none"})
NewestRunning == Max({NoTurn} \cup {t \in Turns : Normalized(srv[t]) = "running"})

\* ensure_turn.
Ensured(t) == IF tracked[t].status = "none" THEN [tracked[t] EXCEPT !.status = "running"] ELSE tracked[t]

-----------------------------------------------------------------------------
(* merge_session: a patch names some fields of the record and clears some. *)
(* It runs under the state file's lock, in one go.  A patch that moves no  *)
(* field but timestamps and previews may be dropped; none is modelled.     *)

Patch(t, status) ==
    [active |-> IF IsActive(status) THEN t ELSE NoTurn, clear |-> ~IsActive(status),
     last |-> t, status |-> status]
\* A patch that updates only the turn's own summary.
OwnSummary == [active |-> NoTurn, clear |-> FALSE, last |-> NoTurn, status |-> "none"]

Merged(s, patch) ==
    [active |-> IF patch.clear THEN NoTurn ELSE IF patch.active # NoTurn THEN patch.active ELSE s.active,
     last |-> IF patch.last # NoTurn THEN patch.last ELSE s.last,
     status |-> IF patch.status # "none" THEN patch.status ELSE s.status]

ScheduleMerge(patch) == merges' = Append(merges, patch)

\* The oldest scheduled task runs.  A coroutine whose answer came after the task was
\* scheduled waits for it; one whose answer came before may go on before or after it, as
\* wait_for takes an extra turn of the loop on Python 3.11.
MergeSession ==
    /\ merges # <<>>
    /\ session' = Merged(session, Head(merges))
    /\ merges' = Tail(merges)
    /\ call' = [k \in Calls |-> [call[k] EXCEPT !.ahead = IF @ > 0 THEN @ - 1 ELSE 0]]
    /\ UNCHANGED <<serverVars, wire, connected, memoryVars, askVars, boundVars,
                   historyVars>>

-----------------------------------------------------------------------------
(* Requests.                                                               *)

\* request(): the coroutine of call k sends and awaits the answer.
Request(k, op, t, n) ==
    /\ call' = [call EXCEPT ![k] = [@ EXCEPT !.pc = "wait", !.op = op, !.turn = t, !.prompt = n]]
    /\ requests' = requests \cup {[call |-> k, epoch |-> call[k].epoch, op |-> op, turn |-> t,
                                   prompt |-> n]}
Return(k) == [call EXCEPT ![k] = [NoCall EXCEPT !.epoch = call[k].epoch]]

\* Going on after the answer: the merge tasks scheduled before it have run.
Goes(k, op) == call[k].pc = "ready" /\ call[k].op = op /\ call[k].ahead = 0

\* start_turn, after thread/resume; steer_turn; read_thread.
StartTurn(n) == Request("submit", "start", NoTurn, n)
SteerTurn(n) == Request("submit", "steer", ResolvedTurn, n)
ReadThread(k, t, n) == Request(k, "read", t, n)

\* start_turn_by_label: an active turn is steered; a thread in an unknown state is read
\* first; otherwise the turn starts.
Submit ==
    /\ call["submit"].pc = "none" /\ submits < MaxSubmits
    /\ submits' = submits + 1
    /\ LET status == SessionStatus(tracked, session) IN
       IF IsActive(status) /\ ResolvedTurn # NoTurn THEN SteerTurn(submits + 1)
       ELSE IF status = "unknown" THEN ReadThread("submit", NoTurn, submits + 1)
       ELSE StartTurn(submits + 1)
    /\ UNCHANGED <<srv, wire, connected, memoryVars, askVars, merges, session, twists,
                   historyVars>>

\* Mutant: a steer without an answer is taken for one that was refused.
SteerAnsweredOrNot ==
    /\ Goes("submit", "steer")
    /\ IF call["submit"].val = "ok"
       THEN call' = Return("submit") /\ UNCHANGED requests
       ELSE StartTurn(call["submit"].prompt)
    /\ UNCHANGED <<srv, wire, connected, memoryVars, askVars, merges, session, boundVars, historyVars>>

\* The steer is answered: accepted; refused because no turn is running, and then the
\* prompt starts a turn of its own; or failed, which the caller is told.
SteerAnswered ==
    /\ Goes("submit", "steer")
    /\ IF call["submit"].val = "no turn"
       THEN StartTurn(call["submit"].prompt)
       ELSE call' = Return("submit") /\ UNCHANGED requests
    /\ UNCHANGED <<srv, wire, connected, memoryVars, askVars, merges, session, boundVars, historyVars>>

KnownEmpty(s) == s.last = NoTurn /\ s.active = NoTurn

\* _refresh_unknown_target: what was read of the thread, if anything, is recorded.
Known(c) == c.val \notin {"unknown", "error"}
Refreshed(c) == IF Known(c) THEN Merged(session, Patch(c.turn, c.val)) ELSE session

\* start_or_queue_turn goes on: refused while nothing is known of a thread that has
\* turns; queued behind an active one; else started.
RefreshAnswered ==
    /\ Goes("submit", "read")
    /\ LET c == call["submit"]
           s == Refreshed(c)
           refused == ~Known(c) /\ ~KnownEmpty(s)
           queued == (Known(c) /\ IsActive(c.val)) \/ ThreadHasActiveTurn(tracked, s)
       IN /\ session' = s
          /\ IF refused \/ queued THEN call' = Return("submit") /\ UNCHANGED requests
             ELSE StartTurn(c.prompt)
    /\ UNCHANGED <<srv, wire, connected, memoryVars, askVars, merges, boundVars,
                   historyVars>>

\* _persist_turn_start: the turn is the newest one; notifications that came first have
\* the last word on its status.  A failed start is reported.
PersistTurnStart ==
    /\ Goes("submit", "start")
    /\ call' = Return("submit")
    /\ LET t == call["submit"].turn
           status == IF tracked[t].status \in Terminal THEN tracked[t].status
                     ELSE IF tracked[t].asks # {} \/ tracked[t].status = "waiting" THEN "waiting"
                     ELSE "running"
       IN IF t = NoTurn THEN UNCHANGED <<tracked, current, session>>
          ELSE /\ current' = t
               /\ tracked' = [tracked EXCEPT ![t] = [Ensured(t) EXCEPT !.status = status]]
               /\ session' = Merged(session, Patch(t, status))
    /\ UNCHANGED <<serverVars, wire, connected, askVars, merges, boundVars, historyVars>>

\* turn_progress reads the thread about the turn its name resolves to.
AskProgress ==
    /\ call["progress"].pc = "none" /\ ResolvedTurn # NoTurn
    /\ overtaken' = (overtaken \/ ResolvedTurn # Latest)
    /\ ReadThread("progress", ResolvedTurn, 0)
    /\ UNCHANGED <<srv, wire, connected, memoryVars, askVars, merges, session, boundVars, delivered, missed>>

\* record_turn_progress.
RecordTurnProgress(t, status) == session' = Merged(session, Patch(t, status))

\* turn_progress goes on with what it read: it overwrites the tracked status and
\* record_turn_progress the session record; a pending approval outweighs the thread.
ProgressAnswered ==
    /\ Goes("progress", "read")
    /\ call' = Return("progress")
    /\ LET t == call["progress"].turn
           read == call["progress"].val
           status == IF \E a \in pendingAsks : a \in tracked[t].asks THEN "waiting"
                     ELSE IF read # "unknown" THEN read
                     ELSE IF tracked[t].status = "none" THEN "unknown" ELSE tracked[t].status
           finished == tracked[t].finished \/ status \in {"completed", "failed"}
       IN IF read = "error" THEN UNCHANGED <<tracked, session, missed>>
          ELSE /\ tracked' = IF tracked[t].status = "none" \/ status = "unknown" THEN tracked
                             ELSE [tracked EXCEPT ![t] = [@ EXCEPT !.status = status, !.finished = finished]]
               /\ RecordTurnProgress(t, status)
          /\ missed' = IF status = Normalized(srv[t]) THEN missed \ {t} ELSE missed
    /\ UNCHANGED <<serverVars, wire, connected, current, askVars, merges, boundVars,
                   delivered, overtaken>>

\* cancel_turn of an active turn.
AskCancel ==
    /\ call["cancel"].pc = "none" /\ ResolvedTurn # NoTurn
    /\ IsActive(SessionStatus(tracked, session))
    /\ overtaken' = (overtaken \/ ResolvedTurn # Latest)
    /\ Request("cancel", "interrupt", ResolvedTurn, 0)
    /\ UNCHANGED <<srv, wire, connected, memoryVars, askVars, merges, session, boundVars, delivered, missed>>

\* cancel_turn goes on: the turn is recorded as cancelled, finished now.
CancelAnswered ==
    /\ Goes("cancel", "interrupt")
    /\ call' = Return("cancel")
    /\ LET t == call["cancel"].turn IN
       IF call["cancel"].val # "ok" THEN UNCHANGED <<tracked, session>>
       ELSE /\ tracked' = [tracked EXCEPT ![t] = [Ensured(t) EXCEPT !.status = "cancelled", !.finished = TRUE]]
            /\ session' = Merged(session, Patch(t, "cancelled"))
    /\ UNCHANGED <<serverVars, wire, connected, current, askVars, merges, boundVars,
                   delivered, missed, overtaken>>

\* request(): nobody answers in time.  The answer may still come.
RequestTimesOut(k) ==
    /\ call[k].pc = "wait" /\ twists < MaxTwists
    /\ twists' = twists + 1
    /\ call' = [call EXCEPT ![k] = [NoCall EXCEPT !.epoch = call[k].epoch + 1]]
    /\ UNCHANGED <<serverVars, wire, connected, memoryVars, askVars, merges, session, submits, historyVars>>

-----------------------------------------------------------------------------
(* The app server.                                                         *)

Tell(messages) == wire' = IF connected THEN wire \o messages ELSE wire
LoseTrackOf(t) == missed' = IF connected THEN missed ELSE missed \cup {t}

Reply(r, t, val) == Message("reply", [call |-> r.call, epoch |-> r.epoch, turn |-> t, val |-> val])
Answered(r) == requests' = requests \ {r}

\* turn/start, in the order sent, after a thread/resume that subscribes the connection.
\* The new turn replaces one that still runs.  The answer and the first notification come in either
\* order.
ServerStarts(r) ==
    /\ r.op = "start" /\ Latest < MaxTurns
    /\ \A q \in requests : q.op = "start" => q.epoch >= r.epoch
    /\ overtaken' = (overtaken \/ \E k \in Calls : call[k].op \in {"read", "interrupt"})
    /\ LET t == Latest + 1
           answer == Reply(r, t, "ok")
           note == Message("started", t)
       IN /\ srv' = [u \in Turns |-> IF u = t THEN "running"
                                     ELSE IF srv[u] = "running" THEN "stopping" ELSE srv[u]]
          /\ \E order \in {<<answer, note>>, <<note, answer>>} : wire' = wire \o order
    /\ connected' = TRUE
    /\ delivered' = [delivered EXCEPT ![r.prompt] = @ + 1]
    /\ Answered(r)
    /\ UNCHANGED <<call, memoryVars, askVars, merges, session, boundVars, missed>>

\* turn/steer joins the turn it names, if that is running.
ServerSteers(r) ==
    /\ r.op = "steer"
    /\ wire' = Append(wire, Reply(r, r.turn, IF srv[r.turn] = "running" THEN "ok" ELSE "no turn"))
    /\ delivered' = IF srv[r.turn] = "running" THEN [delivered EXCEPT ![r.prompt] = @ + 1] ELSE delivered
    /\ Answered(r)
    /\ UNCHANGED <<srv, connected, call, memoryVars, askVars, merges, session, boundVars, missed, overtaken>>

\* thread/read: of one turn, or of the running or else the latest one.
ServerReads(r) ==
    /\ r.op = "read"
    /\ LET t == IF r.turn # NoTurn THEN r.turn ELSE IF NewestRunning # NoTurn THEN NewestRunning ELSE Latest
       IN wire' = Append(wire, Reply(r, t, IF t = NoTurn THEN "completed" ELSE Normalized(srv[t])))
    /\ Answered(r)
    /\ UNCHANGED <<srv, connected, call, memoryVars, askVars, merges, session, boundVars, historyVars>>

\* turn/interrupt: the turn ends some time later.
ServerInterrupts(r) ==
    /\ r.op = "interrupt"
    /\ srv' = IF srv[r.turn] = "running" THEN [srv EXCEPT ![r.turn] = "stopping"] ELSE srv
    /\ wire' = Append(wire, Reply(r, r.turn, "ok"))
    /\ Answered(r)
    /\ UNCHANGED <<connected, call, memoryVars, askVars, merges, session, boundVars, historyVars>>

\* Progress of a turn.
ServerWorks(t) ==
    /\ srv[t] \in {"running", "stopping"} /\ twists < MaxTwists
    /\ twists' = twists + 1
    /\ Tell(<<Message("item", t)>>)
    /\ UNCHANGED <<serverVars, connected, call, memoryVars, askVars, merges, session, submits, historyVars>>

\* A turn ends; an interrupted one is reported as completed without an error.
ServerEnds(t) ==
    /\ srv[t] \in {"running", "stopping"}
    /\ \E state \in IF srv[t] = "stopping" THEN {"interrupted"} ELSE {"completed", "failed"} :
          /\ srv' = [srv EXCEPT ![t] = state]
          /\ Tell(<<Message("ended", [turn |-> t, failed |-> state = "failed"])>>)
    /\ LoseTrackOf(t)
    /\ UNCHANGED <<requests, connected, call, memoryVars, askVars, merges, session, boundVars, delivered, overtaken>>

\* The newest turn asks for an approval and waits for it.
ServerAsks(t) ==
    /\ srv[t] = "running" /\ connected /\ twists < MaxTwists
    /\ twists' = twists + 1
    /\ Tell(<<Message("ask", [turn |-> t, ask |-> twists + 1])>>)
    /\ UNCHANGED <<serverVars, connected, call, memoryVars, pendingAsks, answering, merges, session,
                   submits, historyVars>>

-----------------------------------------------------------------------------
(* The reader: one message at a time, without giving up the loop.          *)

Got(kind) == wire # <<>> /\ Head(wire).kind = kind /\ wire' = Tail(wire)
What == Head(wire).what

\* handle_rpc_response: a request that timed out is only logged.
ReceiveReply ==
    /\ Got("reply")
    /\ LET k == What.call IN
       call' = IF call[k].pc = "wait" /\ call[k].epoch = What.epoch
               THEN [call EXCEPT ![k] = [@ EXCEPT !.pc = "ready", !.turn = What.turn, !.val = What.val,
                                                  !.ahead = Len(merges)]]
               ELSE call
    /\ UNCHANGED <<serverVars, connected, memoryVars, askVars, merges, session, boundVars, historyVars>>

\* handle_notification: a turn that a newer one superseded updates its own summary only.
Notified(t, entry, now) ==
    /\ tracked' = [tracked EXCEPT ![t] = entry]
    /\ current' = now
    /\ ScheduleMerge(IF now \notin {NoTurn, t} THEN OwnSummary ELSE Patch(t, entry.status))

\* turn/started.
ReceiveStarted ==
    /\ Got("started")
    /\ LET t == What IN
       Notified(t, Ensured(t), IF Ensured(t).status \in Terminal THEN current ELSE t)
    /\ UNCHANGED <<serverVars, connected, call, askVars, session, boundVars, historyVars>>

\* Progress: running, unless the turn waits or is over.
ReceiveItem ==
    /\ Got("item")
    /\ Notified(What, Ensured(What), current)
    /\ UNCHANGED <<serverVars, connected, call, askVars, session, boundVars, historyVars>>

\* Mutant: the end of a turn counts whoever owns the session by then.
ReceiveEndedAlways ==
    /\ Got("ended")
    /\ LET t == What.turn
           status == IF What.failed THEN "failed"
                     ELSE IF Ensured(t).status = "cancelled" THEN "cancelled" ELSE "completed"
           entry == [Ensured(t) EXCEPT !.status = status, !.finished = TRUE]
       IN /\ tracked' = [tracked EXCEPT ![t] = entry]
          /\ ScheduleMerge(Patch(t, status))
    /\ UNCHANGED <<serverVars, connected, call, current, askVars, session, boundVars,
                   historyVars>>

\* turn/completed: with an error the turn failed; a cancelled turn stays cancelled.
ReceiveEnded ==
    /\ Got("ended")
    /\ LET t == What.turn
           status == IF What.failed THEN "failed"
                     ELSE IF Ensured(t).status = "cancelled" THEN "cancelled" ELSE "completed"
       IN Notified(t, [Ensured(t) EXCEPT !.status = status, !.finished = TRUE], current)
    /\ UNCHANGED <<serverVars, connected, call, askVars, session, boundVars, historyVars>>

\* handle_server_request: the turn waits.
ReceiveAsk ==
    /\ Got("ask")
    /\ LET t == What.turn IN
       /\ tracked' = [tracked EXCEPT ![t] = [Ensured(t) EXCEPT !.status = "waiting", !.asks = @ \cup {What.ask}]]
       /\ ScheduleMerge(Patch(t, "waiting"))
    /\ pendingAsks' = pendingAsks \cup {What.ask}
    /\ UNCHANGED <<serverVars, connected, call, current, answering, session, boundVars, historyVars>>

\* A permission callback or a poll of the shared store answers: it finds the request pending and sends its answer, which
\* may take a while.
AnswerSend(x, a) ==
    /\ answering[x] = 0 /\ a \in pendingAsks
    /\ answering' = [answering EXCEPT ![x] = a]
    /\ UNCHANGED <<serverVars, wire, connected, call, memoryVars, pendingAsks, merges, session,
                   boundVars, historyVars>>

\* Mutant: the turn goes on waiting for the request that was answered.
AnswerSentQuietly(x) ==
    /\ answering[x] # 0
    /\ answering' = [answering EXCEPT ![x] = 0]
    /\ pendingAsks' = pendingAsks \ {answering[x]}
    /\ tracked' = [t \in Turns |-> [tracked[t] EXCEPT !.asks = @ \ {answering[x]}]]
    /\ UNCHANGED <<serverVars, wire, connected, call, current, merges, session, boundVars, historyVars>>

\* remove_pending_request_from_turn.
WithoutAsk(entry, a) ==
    LET asks == entry.asks \ {a} IN
    [entry EXCEPT !.asks = asks, !.status = IF asks = {} /\ @ = "waiting" THEN "running" ELSE @]

\* The answer is sent and the request forgotten, by the first answerer that gets here;
\* the turn runs on when it waits for nothing else.
AnswerSent(x) ==
    /\ answering[x] # 0
    /\ answering' = [answering EXCEPT ![x] = 0]
    /\ IF answering[x] \notin pendingAsks THEN UNCHANGED <<pendingAsks, tracked>>
       ELSE /\ pendingAsks' = pendingAsks \ {answering[x]}
            /\ tracked' = [t \in Turns |-> WithoutAsk(tracked[t], answering[x])]
    /\ UNCHANGED <<serverVars, wire, connected, call, current, merges, session, boundVars, historyVars>>

\* The connection is lost with everything on the wire: waiting requests are rejected.
\* The next request connects again, but only turn/start subscribes to the thread.
ConnectionLost ==
    /\ twists < MaxTwists /\ connected
    /\ twists' = twists + 1
    /\ connected' = FALSE /\ wire' = <<>> /\ requests' = {}
    /\ missed' = missed \cup {t \in Turns : \E n \in DOMAIN wire :
                                  wire[n].kind \in {"started", "ended"} /\
                                  t = IF wire[n].kind = "started" THEN wire[n].what ELSE wire[n].what.turn}
                        \cup {t \in Turns : srv[t] = "running" /\ tracked[t].status = "none"}
    /\ call' = [k \in Calls |-> IF call[k].pc = "wait"
                                THEN [call[k] EXCEPT !.pc = "ready", !.turn = IF call[k].op = "start" THEN NoTurn ELSE @,
                                                     !.val = "error", !.ahead = Len(merges)]
                                ELSE call[k]]
    /\ UNCHANGED <<srv, memoryVars, askVars, merges, session, submits, delivered, overtaken>>

-----------------------------------------------------------------------------
Client ==
    \/ Submit \/ SteerAnswered \/ RefreshAnswered \/ PersistTurnStart
    \/ AskProgress \/ ProgressAnswered \/ AskCancel \/ CancelAnswered
    \/ MergeSession
    \/ ReceiveReply \/ ReceiveStarted \/ ReceiveItem \/ ReceiveEnded \/ ReceiveAsk
    \/ \E x \in Answerers : AnswerSent(x) \/ \E a \in Asks : AnswerSend(x, a)
Server ==
    \/ \E r \in requests : ServerStarts(r) \/ ServerSteers(r) \/ ServerReads(r) \/ ServerInterrupts(r)
    \/ \E t \in Turns : ServerWorks(t) \/ ServerEnds(t) \/ ServerAsks(t)
Trouble == ConnectionLost \/ \E k \in Calls : RequestTimesOut(k)

Next == Client \/ Server \/ Trouble
Spec == Init /\ [][Next]_vars

-----------------------------------------------------------------------------
\* Nothing is under way that would still change what the client believes.
Quiet == wire = <<>> /\ merges = <<>> /\ requests = {} /\ \A k \in Calls : call[k].pc = "none"

\* Once nothing is under way, the gate that decides between starting a prompt and
\* queueing or steering it says what is true at the server, however the answers,
\* notifications, reads and merges interleaved (app_client_sessions.py:250-282).
GateIsHonest ==
    Quiet /\ missed = {} /\ ~overtaken =>
        /\ (\E t \in Turns : srv[t] = "running") => ThreadHasActiveTurn(tracked, session)
        /\ ThreadHasActiveTurn(tracked, session) => \E t \in Turns : srv[t] \in {"running", "stopping"}

\* Once nothing is under way, the session names the newest turn while that runs: a call
\* about an older turn has not hidden it (app_client_transport.py:546-551).
NewestTurnStaysVisible ==
    Quiet /\ missed = {} /\ current # NoTurn /\ srv[current] = "running" => ResolvedTurn = current

\* A turn waits only for requests that can still be answered (app_client_permissions.py:66-90).
WaitingIsExplained ==
    \A t \in Turns : tracked[t].status = "waiting" =>
        tracked[t].asks # {} /\ tracked[t].asks \subseteq pendingAsks

\* A prompt reaches at most one turn, also when a steer is refused or is not answered
\* (app_client_labels.py:213-247).  (The type invariant goes along.)
PromptsArriveOnce == TypeOK /\ \A n \in Prompts : delivered[n] <= 1
==============================================================================
