-------------------------- MODULE SessionTransport --------------------------
(***************************************************************************)
(* The Claude CLIs that clients keep connected to one session              *)
(* (claude_sdk.py, _sdk_client_for, warm_session_by_label, steer_by_label, *)
(* close; claude_steering.py; claude_compaction.py; claude_inbox.py).      *)
(* Every client caches a CLI of its own, which holds the conversation in   *)
(* memory from the entry of the transcript at which it was connected; a    *)
(* prompt sent to a CLI that is behind the transcript's tip forks the      *)
(* conversation.  The session row's last_client_instance (leaf) tells      *)
(* clients whose CLI is current.  Turns, warm-ups and compactions hold the *)
(* session's locks; steers and close() do not.                             *)
(*                                                                         *)
(* A turn is named by the prompt that launched it.  Launch and the two     *)
(* locks are interleaved in TurnLifecycle, responses in ResponseDrain; a   *)
(* launch is one step here, and so is the sending of a turn's prompt with  *)
(* the corrections buffered for it.                                        *)
(***************************************************************************)
EXTENDS Integers, FiniteSets

CONSTANTS Clients,      \* ClaudeAgentSdkClient instances on one store
          Prompts,      \* prompts, each sent by one call
          Layouts,      \* where clients may run: functions to [process, loop]
          MaxClosed,    \* bound: clients that are closed
          Nobody

ASSUME TransportAssumption ==
    /\ Nobody \notin Clients \cup Prompts
    /\ Clients \cap Prompts = {}
    /\ MaxClosed \in Nat
    /\ \A l \in Layouts : DOMAIN l = Clients /\ \A c \in Clients : DOMAIN l[c] = {"process", "loop"}

Ops == Prompts \cup Clients     \* a client's warm-up or compaction is named by the client

VARIABLES
    place,                  \* the process and event loop of each client
    closed, closing,        \* _closed; clients between close()'s flag and its disconnects
    cli, registered,        \* _sdk_clients with who connected them, _TRANSPORT_OWNERS
    leaf, active,           \* sessions.last_client_instance, sessions.active_turn_id
    cancelled,              \* turns whose row is cancelled
    kind, runner, step,     \* the operations that take the locks
    seenLeaf,               \* the leaf in the session row a compaction read
    loopLock, flock,        \* _session_locks of each client, the session's lock file
    sent, buffered,         \* _initial_query_sent, _buffered_steers
    call,                   \* steer and start calls
    inbox,                  \* the recorded inbox of another program that has the session open
    current,                \* clients whose CLI has the tip of the transcript in memory
    landed, forked, crossed \* history: how many places each prompt went to; a steer was sent
                            \* to a CLI that no turn was reading; before any was, a prompt was
                            \* sent to a CLI that is behind

clientVars == <<place, closed, closing>>
cliVars == <<cli, registered, current>>
rowVars == <<leaf, active, cancelled>>
opVars == <<kind, runner, step, seenLeaf>>
lockVars == <<loopLock, flock>>
bufferVars == <<sent, buffered>>
vars == <<clientVars, cliVars, rowVars, opVars, lockVars, bufferVars, call, inbox, landed,
          forked, crossed>>

NoCli == [by |-> Nobody, late |-> FALSE]
NoCall == [step |-> "idle", self |-> Nobody, wanted |-> Nobody, seen |-> Nobody, cli |-> Nobody,
           other |-> FALSE]
Waits == {"loop", "flock", "read", "connecting", "setting", "connected", "running"}

TypeOK ==
    /\ place \in Layouts
    /\ closing \subseteq closed /\ closed \subseteq Clients /\ registered \subseteq Clients
    /\ cli \in [Clients -> [by : Ops \cup {Nobody}, late : BOOLEAN]]
    /\ leaf \in Clients \cup {Nobody} /\ active \in Prompts \cup {Nobody}
    /\ cancelled \subseteq Prompts /\ sent \subseteq Prompts
    /\ kind \in [Ops -> {"none", "turn", "warm", "compact"}]
    /\ runner \in [Ops -> Clients \cup {Nobody}]
    /\ step \in [Ops -> Waits \cup {"none", "done"}]
    /\ seenLeaf \in [Clients -> Clients \cup {Nobody}]
    /\ loopLock \in [Clients -> Ops \cup {Nobody}] /\ flock \in Ops \cup {Nobody}
    /\ buffered \in [Prompts -> SUBSET Prompts]
    /\ \A s \in Prompts :
          /\ call[s].step \in {"idle", "dropping", "inbox", "waiting", "interrupting", "sent", "done"}
          /\ call[s].self \in Clients \cup {Nobody}
          /\ {call[s].wanted, call[s].seen} \subseteq Prompts \cup {Nobody}
          /\ call[s].cli \in Ops \cup {Nobody} /\ call[s].other \in BOOLEAN
    /\ inbox \in {"none", "live", "dead"}
    /\ current \subseteq Clients /\ forked \in BOOLEAN /\ crossed \in BOOLEAN
    /\ landed \in [Prompts -> 0..2]

\* A session with a transcript that no client has driven yet; another program may have it open.
Init ==
    /\ place \in Layouts
    /\ closed = {} /\ closing = {}
    /\ cli = [c \in Clients |-> NoCli] /\ registered = {}
    /\ leaf = Nobody /\ active = Nobody /\ cancelled = {}
    /\ kind = [o \in Ops |-> "none"] /\ runner = [o \in Ops |-> Nobody]
    /\ step = [o \in Ops |-> "none"] /\ seenLeaf = [c \in Clients |-> Nobody]
    /\ loopLock = [c \in Clients |-> Nobody] /\ flock = Nobody
    /\ sent = {} /\ buffered = [s \in Prompts |-> {}]
    /\ call = [s \in Prompts |-> NoCall]
    /\ inbox \in {"none", "live"}
    /\ current = {} /\ forked = FALSE
    /\ landed = [s \in Prompts |-> 0] /\ crossed = FALSE

-----------------------------------------------------------------------------
(* Who owns what.                                                          *)

Connected(c) == cli[c].by # Nobody
OwnsLeaf(c, l) == l \in {Nobody, c}

\* Clients of one event loop, and of two loops of one process.
Beside(c, d) == place[c] = place[d]
OtherLoop(c, d) == place[c].process = place[d].process /\ place[c].loop # place[d].loop

\* Another event loop of the process has a CLI for the session.
Outside(c) == \E d \in registered : OtherLoop(c, d) /\ Connected(d)

\* The client of c's event loop whose turn is inside the locked region, c if there is none.
ActiveOwner(c) ==
    IF flock \in Prompts /\ Beside(c, runner[flock]) THEN runner[flock] ELSE c

\* The client that answers a steer given to c.
Executor(c) ==
    IF flock \in Prompts /\ Beside(c, runner[flock]) THEN runner[flock]
    ELSE LET owners == {d \in registered : /\ Beside(c, d) /\ d \notin closed
                                           /\ Connected(d) /\ OwnsLeaf(d, leaf)}
         IN  IF owners = {} THEN c ELSE CHOOSE d \in owners : TRUE

InFlight(c) == \E o \in Ops : runner[o] = c /\ step[o] \in Waits

-----------------------------------------------------------------------------
(* The cached CLI.                                                         *)

Disconnect(c) ==
    /\ cli' = [cli EXCEPT ![c] = NoCli]
    /\ registered' = registered \ {c}
    /\ current' = current \ {c}

DisconnectIf(c, drop) == IF drop THEN Disconnect(c) ELSE UNCHANGED cliVars

\* Prompts reach the CLI of c: they continue the conversation it has in memory.
Sends(c, excused) ==
    /\ forked' = (forked \/ (~excused /\ c \notin current))
    /\ current' = {c}

\* The CLI resumes the session from the transcript's tip.
Connects(o, c) ==
    /\ cli' = [cli EXCEPT ![c] = [by |-> o, late |-> c \in closed]]
    /\ current' = current \cup {c}
    /\ registered' = {d \in registered : ~Beside(c, d)} \cup {c}
    /\ leaf' = c

-----------------------------------------------------------------------------
(* Turns, warm-ups and compactions under the session's locks.              *)

To(o, where) == step' = [step EXCEPT ![o] = where]

Launch(t, c) ==
    /\ active' = t
    /\ kind' = [kind EXCEPT ![t] = "turn"]
    /\ runner' = [runner EXCEPT ![t] = c]
    /\ To(t, "loop")

\* A warm-up or a compaction is asked for.  A warm-up of a closed client returns at once.
UpkeepStart(c, what) ==
    /\ step[c] = "none" /\ active = Nobody /\ ~Outside(c)
    /\ what = "warm" => c \notin closed
    /\ kind' = [kind EXCEPT ![c] = what]
    /\ runner' = [runner EXCEPT ![c] = c]
    /\ To(c, "loop")
    /\ UNCHANGED <<clientVars, cliVars, rowVars, seenLeaf, lockVars, bufferVars, call, inbox,
                   landed, forked, crossed>>

TakeLoopLock(o) ==
    /\ step[o] = "loop" /\ loopLock[runner[o]] = Nobody
    /\ loopLock' = [loopLock EXCEPT ![runner[o]] = o]
    /\ To(o, "flock")
    /\ UNCHANGED <<clientVars, cliVars, rowVars, kind, runner, seenLeaf, flock, bufferVars, call,
                   inbox, landed, forked, crossed>>

Release(o) ==
    /\ loopLock' = [loopLock EXCEPT ![runner[o]] = Nobody]
    /\ flock' = Nobody
    /\ To(o, "done")
    /\ runner' = [runner EXCEPT ![o] = Nobody]

\* The end of _run_turn; the client is kept unless the response may still be on its stream.
EndTurn(t, drop) ==
    /\ DisconnectIf(runner[t], drop \/ runner[t] \in closed)
    /\ Release(t)
    /\ active' = IF active = t THEN Nobody ELSE active
    /\ cancelled' = cancelled \ {t}
    /\ sent' = sent \ {t} /\ buffered' = [buffered EXCEPT ![t] = {}]
    /\ UNCHANGED leaf

\* Mutant: a cached CLI is reused whatever the row says.
ClientForAnyLeaf(o, l) ==
    LET c == runner[o] IN
    \/ /\ Connected(c)
       /\ \/ leaf' = c /\ To(o, "connected")
          \/ leaf' = leaf /\ To(o, "setting")
       /\ UNCHANGED cliVars
    \/ Disconnect(c) /\ leaf' = leaf /\ To(o, "connecting")

\* _sdk_client_for with the session row's leaf l: the cached CLI is reused when it owns the leaf
\* and has the same options, perhaps after a change of its model; else another is connected.
ClientFor(o, l) ==
    LET c == runner[o] IN
    \/ /\ Connected(c) /\ OwnsLeaf(c, l)
       /\ \/ leaf' = c /\ To(o, "connected")
          \/ leaf' = leaf /\ To(o, "setting")
       /\ UNCHANGED cliVars
    \/ Disconnect(c) /\ leaf' = leaf /\ To(o, "connecting")

BeginTurn(t) ==
    /\ kind[t] = "turn" /\ step[t] = "flock" /\ flock = Nobody
    /\ \/ t \in cancelled /\ EndTurn(t, FALSE)
       \/ t \notin cancelled /\ Outside(runner[t]) /\ EndTurn(t, TRUE)
       \/ /\ t \notin cancelled /\ ~Outside(runner[t])
          /\ flock' = t
          /\ ClientFor(t, leaf)
          /\ UNCHANGED <<active, cancelled, runner, loopLock, bufferVars>>
    /\ UNCHANGED <<clientVars, kind, seenLeaf, call, inbox, landed, forked,
                   crossed>>

BeginWarmUp(c) ==
    /\ kind[c] = "warm" /\ step[c] = "flock" /\ flock = Nobody
    /\ \/ /\ active # Nobody \/ c \in closed \/ Outside(c)
          /\ Release(c)
          /\ UNCHANGED <<cliVars, leaf>>
       \/ /\ active = Nobody /\ c \notin closed /\ ~Outside(c)
          /\ flock' = c
          /\ ClientFor(c, leaf)
          /\ UNCHANGED <<runner, loopLock>>
    /\ UNCHANGED <<clientVars, active, cancelled, kind, seenLeaf, bufferVars, call, inbox,
                   landed, forked, crossed>>

\* A compaction writes to the store between its read of the row and its use of it.
BeginCompaction(c) ==
    /\ kind[c] = "compact" /\ step[c] = "flock" /\ flock = Nobody
    /\ \/ active # Nobody /\ Release(c) /\ UNCHANGED seenLeaf
       \/ /\ active = Nobody
          /\ flock' = c
          /\ seenLeaf' = [seenLeaf EXCEPT ![c] = leaf]
          /\ To(c, "read")
          /\ UNCHANGED <<runner, loopLock>>
    /\ UNCHANGED <<clientVars, cliVars, rowVars, kind, bufferVars, call, inbox, landed,
                   forked, crossed>>

CompactionConnects(c) ==
    /\ step[c] = "read"
    /\ \/ Outside(c) /\ Release(c) /\ UNCHANGED <<cliVars, leaf>>
       \/ ~Outside(c) /\ ClientFor(c, seenLeaf[c]) /\ UNCHANGED <<runner, lockVars>>
    /\ UNCHANGED <<clientVars, active, cancelled, kind, seenLeaf, bufferVars, call, inbox,
                   landed, forked, crossed>>

\* The CLI is connected, or has the new model.
ClientReady(o) ==
    /\ step[o] \in {"connecting", "setting"}
    /\ IF step[o] = "connecting" THEN Connects(o, runner[o])
       ELSE leaf' = runner[o] /\ UNCHANGED cliVars
    /\ To(o, "connected")
    /\ UNCHANGED <<clientVars, active, cancelled, kind, runner, seenLeaf, lockVars, bufferVars, call,
                   inbox, landed, forked, crossed>>

\* It did not start or did not answer; a folder's consent dialog stayed open.  An upkeep lets
\* the error out of its locked region.
ClientFails(o) ==
    /\ step[o] \in {"connecting", "setting"}
    /\ IF kind[o] = "turn" THEN EndTurn(o, TRUE)
       ELSE Release(o) /\ UNCHANGED <<cliVars, rowVars, bufferVars>>
    /\ UNCHANGED <<clientVars, kind, seenLeaf, call, inbox, landed, forked,
                   crossed>>

\* Mutant: close() is not noticed.
WarmUpEndsOpen(c) ==
    /\ kind[c] = "warm" /\ step[c] = "connected"
    /\ Release(c)
    /\ UNCHANGED <<clientVars, cliVars, rowVars, kind, seenLeaf, bufferVars, call, inbox,
                   landed, forked, crossed>>

\* A warm-up sends nothing; it drops its CLI if the client was closed meanwhile.
WarmUpEnds(c) ==
    /\ kind[c] = "warm" /\ step[c] = "connected"
    /\ DisconnectIf(c, c \in closed)
    /\ Release(c)
    /\ UNCHANGED <<clientVars, rowVars, kind, seenLeaf, bufferVars, call, inbox, landed,
                   forked, crossed>>

\* A turn sends its prompt and the corrections buffered for it, a compaction its command.
SendPrompt(o) ==
    /\ kind[o] \in {"turn", "compact"} /\ step[o] = "connected"
    /\ kind[o] = "turn" => o \notin cancelled
    /\ Connected(runner[o])
    /\ Sends(runner[o], crossed)
    /\ To(o, "running")
    /\ IF kind[o] = "turn" THEN sent' = sent \cup {o} /\ buffered' = [buffered EXCEPT ![o] = {}]
       ELSE UNCHANGED bufferVars
    /\ UNCHANGED <<clientVars, cli, registered, rowVars, kind, runner, seenLeaf, lockVars, call,
                   inbox, landed, crossed>>

CompactionEnds(c) ==
    /\ kind[c] = "compact" /\ step[c] \in {"connected", "running"}
    /\ \E failed \in BOOLEAN :
          /\ step[c] = "connected" => failed
          /\ DisconnectIf(c, failed \/ c \in closed)
    /\ Release(c)
    /\ UNCHANGED <<clientVars, rowVars, kind, seenLeaf, bufferVars, call, inbox, landed,
                   forked, crossed>>

\* The ticket of a steer keeps its turn open while the steer is sent (ResponseDrain).
TurnCompletes(t) ==
    /\ step[t] = "running" /\ t \notin cancelled
    /\ ~\E s \in Prompts : call[s].step \in {"interrupting", "sent"} /\ call[s].self = runner[t]
    /\ EndTurn(t, FALSE)
    /\ UNCHANGED <<clientVars, kind, seenLeaf, call, inbox, landed, forked,
                   crossed>>

\* The CLI fails, or the watch finds the row cancelled while the turn waits for its CLI.
TurnFails(t) ==
    /\ \/ kind[t] = "turn" /\ step[t] \in {"connected", "running"}
       \/ t \in cancelled /\ step[t] \in {"connecting", "setting"}
    /\ EndTurn(t, TRUE)
    /\ UNCHANGED <<clientVars, kind, seenLeaf, call, inbox, landed, forked,
                   crossed>>

\* cancel_by_label, from any client.
CancelTurn ==
    /\ active # Nobody
    /\ cancelled' = cancelled \cup {active}
    /\ active' = Nobody
    /\ UNCHANGED <<clientVars, cliVars, leaf, opVars, lockVars, bufferVars, call, inbox, landed,
                   forked, crossed>>

-----------------------------------------------------------------------------
(* Steers and starts: coroutines that take no lock, atomic between awaits. *)

launchVars == <<active, kind, runner, step>>
sendVars == <<current, forked, crossed>>

Return(s) == call' = [call EXCEPT ![s] = [NoCall EXCEPT !.step = "done"]]
Await(s, where) == call' = [call EXCEPT ![s] = where]
Lands(s) == landed' = [landed EXCEPT ![s] = @ + 1]
Refuse(s) == Return(s) /\ UNCHANGED <<landed, buffered, launchVars>>

\* The active turn a was launched by c and has not sent its prompt.
IsPending(c, a) == runner[a] = c /\ step[a] \in Waits /\ a \notin sent

\* _steer_active_turn at c for the turn a the caller saw, w the one it asked for.
SteerActive(s, c, a, w) ==
    LET d == ActiveOwner(c) IN
    \/ w \notin {Nobody, a} /\ Refuse(s)
    \/ /\ w \in {Nobody, a} /\ IsPending(d, a)
       /\ buffered' = [buffered EXCEPT ![a] = @ \cup {s}]
       /\ Lands(s) /\ Return(s)
       /\ UNCHANGED launchVars
    \/ /\ w \in {Nobody, a} /\ ~IsPending(d, a)
       /\ Await(s, [NoCall EXCEPT !.step = "waiting", !.self = d, !.wanted = w, !.seen = a])
       /\ UNCHANGED <<landed, buffered, launchVars>>

\* start_turn_by_label at c, with the turn now active.
StartTurn(s, c, w) ==
    \/ Outside(c) /\ Refuse(s)
    \/ /\ ~Outside(c) /\ active = Nobody
       /\ Launch(s, c)
       /\ Lands(s) /\ Return(s)
       /\ UNCHANGED buffered
    \/ ~Outside(c) /\ active # Nobody /\ SteerActive(s, c, active, w)

Proceed(s, c, a, w) == IF a = Nobody THEN StartTurn(s, c, w) ELSE SteerActive(s, c, a, w)

StartCall(s, c, w) ==
    /\ call[s].step = "idle"
    /\ StartTurn(s, c, w)
    /\ UNCHANGED <<clientVars, cliVars, leaf, cancelled, seenLeaf, lockVars, sent, inbox, forked,
                   crossed>>

\* steer_by_label: drops a CLI that is behind, then tries the inbox if it has no CLI.
SteerCall(s, c, w) ==
    LET d == Executor(c)
        other == Outside(d)
        asked == [NoCall EXCEPT !.self = d, !.wanted = w, !.seen = active, !.other = other]
    IN
    /\ call[s].step = "idle"
    /\ \/ w \notin {Nobody, active} /\ Refuse(s) /\ UNCHANGED cliVars
       \/ /\ w \in {Nobody, active} /\ ~other /\ Connected(d) /\ ~OwnsLeaf(d, leaf)
          /\ Disconnect(d)
          /\ Await(s, [asked EXCEPT !.step = "dropping"])
          /\ UNCHANGED <<landed, buffered, launchVars>>
       \/ /\ w \in {Nobody, active} /\ inbox # "none"
          /\ other \/ ~Connected(d)
          /\ Await(s, [asked EXCEPT !.step = "inbox"])
          /\ UNCHANGED <<cliVars, landed, buffered, launchVars>>
       \/ /\ w \in {Nobody, active} /\ other /\ inbox = "none"
          /\ Refuse(s) /\ UNCHANGED cliVars
       \/ /\ w \in {Nobody, active} /\ ~other
          /\ IF Connected(d) THEN OwnsLeaf(d, leaf) ELSE inbox = "none"
          /\ Proceed(s, d, active, w) /\ UNCHANGED cliVars
    /\ UNCHANGED <<clientVars, leaf, cancelled, seenLeaf, lockVars, sent, inbox, forked, crossed>>

\* The CLI that was behind is disconnected; the session row is the one read before.
StaleDropped(s) ==
    LET r == call[s] IN
    /\ r.step = "dropping"
    /\ IF ~Connected(r.self) /\ inbox # "none"
       THEN Await(s, [r EXCEPT !.step = "inbox"]) /\ UNCHANGED <<landed, buffered, launchVars>>
       ELSE Proceed(s, r.self, r.seen, r.wanted)
    /\ UNCHANGED <<clientVars, cliVars, leaf, cancelled, seenLeaf, lockVars, sent, inbox, forked,
                   crossed>>

\* deliver_steer to a live socket: the frame was written, or may have been; or the socket could
\* not be reached in time.
Delivered(s) ==
    \/ Lands(s) /\ Return(s) /\ UNCHANGED <<buffered, launchVars>>
    \/ Refuse(s)

\* Mutant: a frame that may have been written is taken for lost.
InboxAnswersAmbiguous(s) ==
    LET r == call[s] IN
    /\ r.step = "inbox"
    /\ \/ /\ inbox = "live"
          /\ Lands(s) /\ Await(s, [r EXCEPT !.step = "dropping"])
          /\ UNCHANGED <<buffered, launchVars>>
          /\ inbox' = "none"
       \/ /\ inbox # "live"
          /\ inbox' = "none"
          /\ IF r.other THEN Refuse(s) ELSE Proceed(s, r.self, r.seen, r.wanted)
    /\ UNCHANGED <<clientVars, cliVars, leaf, cancelled, seenLeaf, lockVars, sent, forked, crossed>>

\* A dead socket alone lets the steer go on, with the session row it read before.
InboxAnswers(s) ==
    LET r == call[s] IN
    /\ r.step = "inbox"
    /\ \/ /\ inbox = "live"
          /\ Delivered(s)
          /\ UNCHANGED inbox
       \/ /\ inbox # "live"
          /\ inbox' = "none"
          /\ IF r.other THEN Refuse(s) ELSE Proceed(s, r.self, r.seen, r.wanted)
    /\ UNCHANGED <<clientVars, cliVars, leaf, cancelled, seenLeaf, lockVars, sent, forked, crossed>>

\* The query of a steer leaves for the CLI of c, where the turn a may or may not be reading.
Query(s, c, a) ==
    /\ crossed' = (crossed \/ runner[a] # c \/ step[a] # "running")
    /\ Sends(c, crossed')
    /\ Lands(s)
    /\ Await(s, [NoCall EXCEPT !.step = "sent", !.self = c, !.cli = cli[c].by])

\* The wait for a CLI finds another client's turn, or the CLI of its own client.
SteerPolls(s) ==
    LET r == call[s]
        d == r.self
        o == ActiveOwner(d)
    IN
    /\ r.step = "waiting"
    /\ \/ /\ o # d
          /\ IF active = Nobody THEN StartTurn(s, o, Nobody) ELSE SteerActive(s, o, active, r.wanted)
          /\ UNCHANGED sendVars
       \/ /\ o = d /\ Connected(d) /\ OwnsLeaf(d, leaf) /\ active # r.seen
          /\ StartTurn(s, d, Nobody)
          /\ UNCHANGED sendVars
       \/ /\ o = d /\ Connected(d) /\ OwnsLeaf(d, leaf) /\ active = r.seen
          /\ Query(s, d, active)
          /\ UNCHANGED <<buffered, launchVars>>
       \/ /\ o = d /\ Connected(d) /\ OwnsLeaf(d, leaf) /\ active = r.seen
          /\ Await(s, [r EXCEPT !.step = "interrupting", !.cli = cli[d].by])
          /\ UNCHANGED <<landed, buffered, launchVars, sendVars>>
    /\ UNCHANGED <<clientVars, cli, registered, leaf, cancelled, seenLeaf, lockVars, sent, inbox>>

\* It finds none in time: the turn may be over or taken for orphaned; else the prompt is queued.
SteerGivesUp(s) ==
    LET r == call[s]
        d == r.self
    IN
    /\ r.step = "waiting" /\ ActiveOwner(d) = d
    /\ ~(Connected(d) /\ OwnsLeaf(d, leaf))
    /\ \/ active # r.seen /\ StartTurn(s, d, Nobody)
       \/ /\ active = r.seen /\ flock = Nobody
          /\ IF Outside(d)
             THEN active' = Nobody /\ Return(s) /\ UNCHANGED <<landed, kind, runner, step>>
             ELSE Launch(s, d) /\ Lands(s) /\ Return(s)
          /\ UNCHANGED buffered
       \/ /\ active = r.seen
          /\ Lands(s) /\ Return(s)
          /\ UNCHANGED <<buffered, launchVars>>
    /\ UNCHANGED <<clientVars, cliVars, leaf, cancelled, seenLeaf, lockVars, sent, inbox, forked,
                   crossed>>

\* The interrupt is acknowledged; it fails, at the latest when the CLI is gone.
SteerInterrupted(s) ==
    LET r == call[s] IN
    /\ r.step = "interrupting"
    /\ \/ cli[r.self].by = r.cli /\ Query(s, r.self, r.seen)
       \/ Return(s) /\ UNCHANGED <<sendVars, landed>>
    /\ UNCHANGED <<clientVars, cli, registered, rowVars, opVars, lockVars, bufferVars, inbox>>

\* The send returns: the client's CLI has the tip of the conversation, the row says.  A send
\* fails with the CLI it was written to, long before its client has connected another.
SteerSent(s) ==
    LET r == call[s] IN
    /\ r.step = "sent"
    /\ \/ leaf' = leaf
       \/ leaf' = r.self /\ cli[r.self].by \in {r.cli, Nobody}
    /\ Return(s)
    /\ UNCHANGED <<clientVars, cliVars, active, cancelled, opVars, lockVars, bufferVars, inbox,
                   landed, forked, crossed>>

-----------------------------------------------------------------------------
(* close(), and the other program.                                         *)

CloseBegin(c) ==
    /\ c \notin closed /\ Cardinality(closed) < MaxClosed
    /\ closed' = closed \cup {c} /\ closing' = closing \cup {c}
    /\ UNCHANGED <<place, cliVars, rowVars, opVars, lockVars, bufferVars, call, inbox, landed,
                   forked, crossed>>

\* A session whose lock is held is left to the operation that holds it.
CloseEnds(c) ==
    /\ c \in closing
    /\ closing' = closing \ {c}
    /\ DisconnectIf(c, loopLock[c] = Nobody)
    /\ UNCHANGED <<place, closed, rowVars, opVars, lockVars, bufferVars, call, inbox, landed,
                   forked, crossed>>

ProgramExits ==
    /\ inbox = "live"
    /\ inbox' = "dead"
    /\ UNCHANGED <<clientVars, cliVars, rowVars, opVars, lockVars, bufferVars, call, landed,
                   forked, crossed>>

-----------------------------------------------------------------------------

Locked ==
    \/ \E o \in Ops : TakeLoopLock(o) \/ ClientReady(o) \/ ClientFails(o) \/ SendPrompt(o)
    \/ \E t \in Prompts : BeginTurn(t) \/ TurnCompletes(t) \/ TurnFails(t)
    \/ \E c \in Clients :
          \/ BeginWarmUp(c) \/ WarmUpEnds(c)
          \/ BeginCompaction(c) \/ CompactionConnects(c) \/ CompactionEnds(c)

Continue ==
    \E s \in Prompts :
       \/ StaleDropped(s) \/ InboxAnswers(s) \/ SteerPolls(s) \/ SteerGivesUp(s)
       \/ SteerInterrupted(s) \/ SteerSent(s)

Ask ==
    \/ \E s \in Prompts, c \in Clients :
          \E w \in (Prompts \ {s}) \cup {Nobody} : StartCall(s, c, w) \/ SteerCall(s, c, w)
    \/ \E c \in Clients, what \in {"warm", "compact"} : UpkeepStart(c, what)
    \/ CancelTurn
    \/ \E c \in Clients : CloseBegin(c) \/ CloseEnds(c)
    \/ ProgramExits

Next == Locked \/ Continue \/ Ask

Spec == Init /\ [][Next]_vars

-----------------------------------------------------------------------------
(* Properties.                                                             *)

\* No prompt is sent to a CLI that is behind the transcript, unless some steer was sent to a CLI
\* that no turn was reading: reuse, reconnection, warm-ups, compactions and late bookkeeping
\* keep last_client_instance true to what the CLIs know (claude_sdk.py:1456).
ForksAreExplained == ~forked

\* A CLI that was connected after its client closed does not outlive the client's operations,
\* whichever of them connected it (claude_sdk.py:379).
NoCliOutlivesClose ==
    \A c \in closed : ~InFlight(c) => ~cli[c].late

\* A prompt goes to one place: what may have been written to another program's inbox is never
\* also started, queued or sent (claude_sdk.py:589), and no route of a steer delivers twice.
\* (The type invariant goes along.)
PromptsLandOnce == TypeOK /\ \A s \in Prompts : landed[s] <= 1

\* A closed client keeps no CLI once its operations are over (claude_sdk.py:1636).
ClosedClientsDisconnect ==
    \A c \in closed \ closing : ~InFlight(c) => ~Connected(c)

\* A steer is sent only to the client that runs the turn it joins (claude_steering.py:18).
SteersReachTheTurn == ~crossed
=============================================================================
