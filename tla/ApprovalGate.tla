----------------------------- MODULE ApprovalGate -----------------------------
(***************************************************************************)
(* The approval of tool calls (approval_gate.py, app_permissions.py).      *)
(* Every process has a gate; a tool call of one of its turns records a     *)
(* request in a file all processes share and waits, for a bounded time,    *)
(* for a decision: stored in the file by an approver in some process, or   *)
(* handed to the gate directly.  Every mutation of the file rewrites it    *)
(* from a snapshot, under a file lock.                                     *)
(***************************************************************************)
EXTENDS Naturals, Sequences

CONSTANTS Gates,        \* processes, each with its gate
          Approvers,    \* processes that store decisions
          Turns,        \* turns whose tools ask for approval
          MaxCalls,     \* bound: tool calls
          Answers       \* bound: the decisions approvers take

NoCall == 0

ASSUME GateAssumption ==
    /\ MaxCalls \in Nat /\ NoCall \notin Gates
    /\ Answers \subseteq {"accept", "decline", "cancel"}

Calls == 1..MaxCalls
Actors == Calls \cup Gates \cup Approvers
Decisions == {"accept", "decline", "cancel"}

VARIABLES
    gate,       \* life of each process
    made,       \* calls made
    owner, turn, call,  \* per call: its gate, its turn, where request_permission is
    future,     \* per call: the decision handed to the gate directly
    age,        \* per call: 0 young, 1 past approvalExpiresAt, 2 past the waiter's deadline
    outcome,    \* per call: what request_permission returned
    file,       \* the shared file
    held,       \* per actor: the snapshot it read under the file lock, <<>> if none
    intent,     \* per approver: the decision it is storing
    given,      \* history: decisions that approvers gave a call
    scoped,     \* history: calls that a cancellation of their turn reached
    dropped     \* history: calls whose answer was lost to a timeout on its own tick

callVars == <<owner, turn, made>>
vars == <<gate, callVars, call, future, age, outcome, file, held, intent, given, scoped, dropped>>

Files == [requests : SUBSET Calls, decisions : [Calls -> Decisions \cup {"none"}]]

TypeOK ==
    /\ gate \in [Gates -> {"unborn", "starting", "up", "dead"}]
    /\ made \in 0..MaxCalls
    /\ owner \in [Calls -> Gates \cup {NoCall}] /\ turn \in [Calls -> Turns \cup {NoCall}]
    /\ call \in [Calls -> {"none", "record", "check", "wait", "clear", "done", "dead"}]
    /\ future \in [Calls -> Decisions \cup {"none"}]
    /\ age \in [Calls -> 0..2]
    /\ outcome \in [Calls -> Decisions \cup {"none", "raised"}]
    /\ file \in Files
    /\ held \in [Actors -> {<<>>} \cup (Files \X Actors)]
    /\ intent \in [Approvers -> [call : Calls \cup {NoCall}, decision : Decisions]]
    /\ given \in [Calls -> SUBSET Decisions]
    /\ scoped \subseteq Calls /\ dropped \subseteq Calls

Init ==
    /\ gate = [g \in Gates |-> "unborn"]
    /\ made = 0
    /\ owner = [r \in Calls |-> NoCall] /\ turn = [r \in Calls |-> NoCall]
    /\ call = [r \in Calls |-> "none"]
    /\ future = [r \in Calls |-> "none"]
    /\ age = [r \in Calls |-> 0]
    /\ outcome = [r \in Calls |-> "none"]
    /\ file = [requests |-> {}, decisions |-> [r \in Calls |-> "none"]]
    /\ held = [a \in Actors |-> <<>>]
    /\ intent = [a \in Approvers |-> [call |-> NoCall, decision |-> "cancel"]]
    /\ given = [r \in Calls |-> {}]
    /\ scoped = {} /\ dropped = {}

-----------------------------------------------------------------------------
(* The shared file *)

LockFree == \A a \in Actors : held[a] = <<>>

\* Mutant: the file is read without its lock.
ReadUnlocked(a) ==
    /\ held[a] = <<>>
    /\ held' = [held EXCEPT ![a] = <<file, a>>]

Read(a) ==
    /\ LockFree
    /\ held' = [held EXCEPT ![a] = <<file, a>>]

Snapshot(a) == held[a][1]

Write(a, f) ==
    /\ held[a] # <<>>
    /\ file' = f
    /\ held' = [held EXCEPT ![a] = <<>>]

Without(f, rs) == [requests |-> f.requests \ rs,
                   decisions |-> [r \in Calls |-> IF r \in rs THEN "none" ELSE f.decisions[r]]]

-----------------------------------------------------------------------------
(* A tool call.  From record to wait and from its outcome to done it does not await: *)
(* it keeps the event loop of its process.                                          *)

Busy(g) == \E r \in Calls : owner[r] = g /\ call[r] \in {"record", "check", "clear"}
LoopIsFree(g) == gate[g] = "up" /\ ~Busy(g)
Pending(r) == call[r] = "wait"

RequestPermission(g, t) ==
    /\ LoopIsFree(g)
    /\ made < MaxCalls
    /\ made' = made + 1
    /\ owner' = [owner EXCEPT ![made + 1] = g]
    /\ turn' = [turn EXCEPT ![made + 1] = t]
    /\ call' = [call EXCEPT ![made + 1] = "record"]
    /\ UNCHANGED <<gate, future, age, outcome, file, held, intent, given, scoped, dropped>>

RecordRead(r) ==
    /\ call[r] = "record"
    /\ Read(r)
    /\ UNCHANGED <<gate, callVars, call, future, age, outcome, file, intent, given, scoped, dropped>>

RecordWrite(r) ==
    /\ call[r] = "record"
    /\ Write(r, [Snapshot(r) EXCEPT !.requests = @ \cup {r}])
    /\ call' = [call EXCEPT ![r] = "check"]
    /\ UNCHANGED <<gate, callVars, future, age, outcome, intent, given, scoped, dropped>>

Return(r, decision) ==
    /\ outcome' = [outcome EXCEPT ![r] = decision]
    /\ call' = [call EXCEPT ![r] = "clear"]

\* Mutant: the deadline is looked at only while the request is stored.
TimeOutStored(r) ==
    /\ call[r] = "check" /\ held[r] = <<>>
    /\ age[r] = 2 /\ r \in file.requests
    /\ Return(r, "decline")
    /\ UNCHANGED <<gate, callVars, future, age, file, held, intent, given, scoped, dropped>>

TimeOut(r) ==
    /\ call[r] = "check" /\ held[r] = <<>>
    /\ age[r] = 2
    /\ Return(r, "decline")
    /\ UNCHANGED <<gate, callVars, future, age, file, held, intent, given, scoped, dropped>>

PollRead(r) ==
    /\ call[r] = "check"
    /\ age[r] < 2
    /\ r \in file.requests
    /\ Read(r)
    /\ UNCHANGED <<gate, callVars, call, future, age, outcome, file, intent, given, scoped, dropped>>

PollSkip(r) ==
    /\ call[r] = "check" /\ held[r] = <<>>
    /\ age[r] < 2
    /\ r \notin file.requests
    /\ call' = [call EXCEPT ![r] = "wait"]
    /\ UNCHANGED <<gate, callVars, future, age, outcome, file, held, intent, given, scoped, dropped>>

\* pop_shared_permission_decision writes the file only if there is a decision to remove.
PollPop(r) ==
    /\ call[r] = "check"
    /\ held[r] # <<>>
    /\ LET decision == Snapshot(r).decisions[r] IN
          IF decision = "none"
          THEN /\ held' = [held EXCEPT ![r] = <<>>]
               /\ \/ age[r] = 2 /\ Return(r, "decline")
                  \/ age[r] < 2 /\ call' = [call EXCEPT ![r] = "wait"] /\ UNCHANGED outcome
               /\ UNCHANGED file
          ELSE /\ Return(r, decision)
               /\ Write(r, [Snapshot(r) EXCEPT !.decisions[r] = "none"])
    /\ UNCHANGED <<gate, callVars, future, age, intent, given, scoped, dropped>>

\* Mutant: the timer of the poll wins over an answer that is already there.
WakeAnyway(r) ==
    /\ Pending(r) /\ LoopIsFree(owner[r])
    /\ call' = [call EXCEPT ![r] = "check"]
    /\ UNCHANGED <<gate, callVars, future, age, outcome, file, held, intent, given, scoped, dropped>>

\* The poll interval, or what remains of the bound, elapsed.  A timeout on the event loop's
\* own tick of the answer drops the answer (asyncio.wait_for since Python 3.12).
Wake(r) ==
    /\ Pending(r) /\ LoopIsFree(owner[r])
    /\ dropped' = IF future[r] = "none" THEN dropped ELSE dropped \cup {r}
    /\ call' = [call EXCEPT ![r] = "check"]
    /\ UNCHANGED <<gate, callVars, future, age, outcome, file, held, intent, given, scoped>>

Answered(r) ==
    /\ Pending(r) /\ LoopIsFree(owner[r])
    /\ future[r] # "none"
    /\ Return(r, future[r])
    /\ UNCHANGED <<gate, callVars, future, age, file, held, intent, given, scoped, dropped>>

\* The SDK cancels the callback, as when its client disconnects.
CallCancelled(r) ==
    /\ Pending(r) /\ LoopIsFree(owner[r])
    /\ future' = [future EXCEPT ![r] = IF @ = "none" THEN "cancel" ELSE @]
    /\ Return(r, "raised")
    /\ UNCHANGED <<gate, callVars, age, file, held, intent, given, scoped, dropped>>

ClearRead(r) ==
    /\ call[r] = "clear"
    /\ Read(r)
    /\ UNCHANGED <<gate, callVars, call, future, age, outcome, file, intent, given, scoped, dropped>>

ClearWrite(r) ==
    /\ call[r] = "clear"
    /\ Write(r, Without(Snapshot(r), {r}))
    /\ call' = [call EXCEPT ![r] = "done"]
    /\ UNCHANGED <<gate, callVars, future, age, outcome, intent, given, scoped, dropped>>

\* The waiter's deadline is set after approvalExpiresAt and passes after it.
Age(r) ==
    /\ call[r] \in {"record", "check", "wait"}
    /\ age[r] < 2
    /\ age' = [age EXCEPT ![r] = @ + 1]
    /\ UNCHANGED <<gate, callVars, call, future, outcome, file, held, intent, given, scoped, dropped>>

-----------------------------------------------------------------------------
(* Decisions *)

Resolve(r, d) ==
    /\ Pending(r) /\ LoopIsFree(owner[r])
    /\ future[r] = "none"
    /\ future' = [future EXCEPT ![r] = d]
    /\ given' = [given EXCEPT ![r] = @ \cup {d}]
    /\ UNCHANGED <<gate, callVars, call, age, outcome, file, held, intent, scoped, dropped>>

\* Mutant: the cancellation of a turn reaches the calls of every turn.
CancelEveryScope(g, t) ==
    /\ LoopIsFree(g)
    /\ future' = [r \in Calls |->
          IF Pending(r) /\ owner[r] = g /\ future[r] = "none" THEN "cancel" ELSE future[r]]
    /\ scoped' = scoped \cup {r \in Calls : Pending(r) /\ owner[r] = g /\ turn[r] = t /\ future[r] = "none"}
    /\ UNCHANGED <<gate, callVars, call, age, outcome, file, held, intent, given, dropped>>

InScope(r, g, t) == Pending(r) /\ owner[r] = g /\ turn[r] = t /\ future[r] = "none"

\* The turn was cancelled, or ended, in its own process.
CancelScope(g, t) ==
    /\ LoopIsFree(g)
    /\ future' = [r \in Calls |-> IF InScope(r, g, t) THEN "cancel" ELSE future[r]]
    /\ scoped' = scoped \cup {r \in Calls : InScope(r, g, t)}
    /\ UNCHANGED <<gate, callVars, call, age, outcome, file, held, intent, given, dropped>>

DecideRead(a, r, d) ==
    /\ r <= made
    /\ Read(a)
    /\ intent' = [intent EXCEPT ![a] = [call |-> r, decision |-> d]]
    /\ UNCHANGED <<gate, callVars, call, future, age, outcome, file, given, scoped, dropped>>

\* Mutant: a decision is stored for a request that is not there.
DecideBlindly(a) ==
    /\ held[a] # <<>>
    /\ LET r == intent[a].call IN
       /\ Write(a, [Snapshot(a) EXCEPT !.decisions[r] = intent[a].decision])
       /\ given' = [given EXCEPT ![r] = @ \cup {intent[a].decision}]
    /\ intent' = [intent EXCEPT ![a] = [call |-> NoCall, decision |-> "cancel"]]
    /\ UNCHANGED <<gate, callVars, call, future, age, outcome, scoped, dropped>>

DecideWrite(a) ==
    /\ held[a] # <<>>
    /\ LET r == intent[a].call IN
          IF r \in Snapshot(a).requests
          THEN /\ Write(a, [Snapshot(a) EXCEPT !.decisions[r] = intent[a].decision])
               /\ given' = [given EXCEPT ![r] = @ \cup {intent[a].decision}]
          ELSE /\ held' = [held EXCEPT ![a] = <<>>]
               /\ UNCHANGED <<file, given>>
    /\ intent' = [intent EXCEPT ![a] = [call |-> NoCall, decision |-> "cancel"]]
    /\ UNCHANGED <<gate, callVars, call, future, age, outcome, scoped, dropped>>

-----------------------------------------------------------------------------
(* Processes *)

GateStart(g) ==
    /\ gate[g] = "unborn"
    /\ Read(g)
    /\ gate' = [gate EXCEPT ![g] = "starting"]
    /\ UNCHANGED <<callVars, call, future, age, outcome, file, intent, given, scoped, dropped>>

Orphaned(r) == age[r] > 0 \/ gate[owner[r]] = "dead"

\* A gate that starts removes the requests of exited processes and the expired ones.
Sweep(g) ==
    /\ gate[g] = "starting"
    /\ Write(g, Without(Snapshot(g), {r \in Snapshot(g).requests : Orphaned(r)}))
    /\ gate' = [gate EXCEPT ![g] = "up"]
    /\ UNCHANGED <<callVars, call, future, age, outcome, intent, given, scoped, dropped>>

\* The kernel releases the dead process's lock; its file was replaced as a whole or not at all.
GateDies(g) ==
    /\ gate[g] \in {"starting", "up"}
    /\ gate' = [gate EXCEPT ![g] = "dead"]
    /\ LET dead == {r \in Calls : owner[r] = g} IN
       /\ call' = [r \in Calls |-> IF r \in dead /\ call[r] # "done" THEN "dead" ELSE call[r]]
       /\ held' = [a \in Actors |-> IF a \in dead \cup {g} THEN <<>> ELSE held[a]]
    /\ UNCHANGED <<callVars, future, age, outcome, file, intent, given, scoped, dropped>>

-----------------------------------------------------------------------------
Runs(r) == RecordWrite(r) \/ TimeOut(r) \/ PollSkip(r) \/ PollPop(r) \/ ClearWrite(r)
Locks(r) == RecordRead(r) \/ PollRead(r) \/ ClearRead(r)
Resumes(r) == Wake(r) \/ Answered(r)

Next ==
    \/ \E g \in Gates, t \in Turns : RequestPermission(g, t) \/ CancelScope(g, t)
    \/ \E r \in Calls : Runs(r) \/ Locks(r) \/ Resumes(r) \/ CallCancelled(r) \/ Age(r)
    \/ \E r \in Calls, d \in Answers : Resolve(r, d)
    \/ \E a \in Approvers, r \in Calls, d \in Answers : DecideRead(a, r, d)
    \/ \E a \in Approvers : DecideWrite(a)
    \/ \E g \in Gates : GateStart(g) \/ Sweep(g) \/ GateDies(g)

Spec == Init /\ [][Next]_vars

\* Time passes, a process runs, the file lock and the event loop come round to everyone
\* who waits for them.
FairSpec ==
    /\ Spec
    /\ \A r \in Calls : WF_vars(Runs(r)) /\ WF_vars(Age(r)) /\ SF_vars(Locks(r)) /\ SF_vars(Resumes(r))
    /\ \A a \in Approvers : WF_vars(DecideWrite(a))
    /\ \A g \in Gates : WF_vars(Sweep(g))

-----------------------------------------------------------------------------
(* Properties *)

\* A call is allowed, declined or cancelled because an approver decided so on this very
\* request, its turn was cancelled, or its time was up: never by another call's answer.
OutcomesAreExplained ==
    \A r \in Calls :
        /\ outcome[r] = "accept" => "accept" \in given[r]
        /\ outcome[r] = "cancel" => "cancel" \in given[r] \/ r \in scoped
        /\ outcome[r] = "decline" => "decline" \in given[r] \/ age[r] = 2

\* "Stale requests from exited processes are discarded": a finished call leaves nothing in
\* the file and no decision outlives the request it answers.  (The type invariant goes along.)
StoreIsClean ==
    /\ TypeOK
    /\ \A r \in Calls :
        /\ r \in file.requests => call[r] # "done"
        /\ file.decisions[r] # "none" => r \in file.requests

Waiting(r) == call[r] \in {"check", "wait"}

\* The store lock keeps writers from losing each other's updates: while a live, unexpired
\* call waits, its request stays in the file and a stored decision stays until it is taken.
EntriesAreNotLost ==
    [][\A r \in Calls : Waiting(r) /\ Waiting(r)' /\ age[r] = 0 =>
          /\ r \in file.requests => r \in file'.requests
          /\ file.decisions[r] # "none" => file'.decisions[r] # "none"]_vars

\* "Fail closed any pending requests owned by a cancelled scope" (cancel_scope): a stored
\* acceptance does not let a cancelled call through, unless the cancellation was dropped by a
\* timeout on its own tick.
CancelledCallsAreDenied == \A r \in scoped \ dropped : outcome[r] # "accept"

\* Approval waits are bounded: every call of a process that lives gets an outcome and is
\* cleared, whatever the approvers, the sweeps and the other calls do.
CallsEnd == \A r \in Calls : call[r] = "record" ~> call[r] \in {"done", "dead"}
==============================================================================
