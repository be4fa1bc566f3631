----------------------- MODULE SessionTransport_proofs -----------------------
(***************************************************************************)
(* TLAPS proofs about SessionTransport, for any clients in any layout of   *)
(* processes and event loops, any prompts and any number of closed         *)
(* clients.                                                                *)
(***************************************************************************)
EXTENDS SessionTransport, TLAPS

-----------------------------------------------------------------------------
(* The inductive invariant.                                                *)

\* An operation that has a CLI; one inside both locks.
WithCli == {"setting", "connected", "running"}
Inside == {"read", "connecting"} \cup WithCli
Started == {"connected", "running", "done"}

CallRecord ==
    [step : {"idle", "dropping", "inbox", "waiting", "interrupting", "sent", "done"},
     self : Clients \cup {Nobody}, wanted : Prompts \cup {Nobody}, seen : Prompts \cup {Nobody},
     cli : Ops \cup {Nobody}, other : BOOLEAN]

\* The types, and that a prompt goes nowhere before its call decides where.
TypeInv ==
    /\ TypeOK
    /\ call \in [Prompts -> CallRecord]
    /\ \A s \in Prompts : /\ landed[s] <= 1
                          /\ call[s].step \notin {"sent", "done"} => landed[s] = 0

\* The conjuncts of TypeInv, by what they are about.
CliTypes ==
    /\ registered \subseteq Clients /\ current \subseteq Clients
    /\ cli \in [Clients -> [by : Ops \cup {Nobody}, late : BOOLEAN]]
RowTypes ==
    /\ leaf \in Clients \cup {Nobody} /\ active \in Prompts \cup {Nobody}
    /\ cancelled \subseteq Prompts
OpTypes ==
    /\ kind \in [Ops -> {"none", "turn", "warm", "compact"}]
    /\ runner \in [Ops -> Clients \cup {Nobody}]
    /\ step \in [Ops -> Waits \cup {"none", "done"}]
    /\ seenLeaf \in [Clients -> Clients \cup {Nobody}]
LockTypes == loopLock \in [Clients -> Ops \cup {Nobody}] /\ flock \in Ops \cup {Nobody}
BufferTypes == sent \subseteq Prompts /\ buffered \in [Prompts -> SUBSET Prompts]
CallTypes ==
    /\ call \in [Prompts -> CallRecord]
    /\ landed \in [Prompts -> 0..2]
    /\ \A s \in Prompts : /\ landed[s] <= 1
                          /\ call[s].step \notin {"sent", "done"} => landed[s] = 0
OtherTypes ==
    /\ place \in Layouts /\ closing \subseteq closed /\ closed \subseteq Clients
    /\ inbox \in {"none", "live", "dead"} /\ forked \in BOOLEAN /\ crossed \in BOOLEAN

\* An operation under way has a client; inside the region it holds both locks, and the flock
\* is held by nobody else.
LockInv ==
    /\ \A o \in Ops : step[o] \in Waits => runner[o] \in Clients
    /\ \A c \in Clients : step[c] \in Waits => runner[c] = c
    /\ \A o \in Ops : step[o] \in Inside => flock = o
    /\ flock # Nobody => step[flock] \in Inside
    /\ \A o \in Ops : step[o] \in Inside \cup {"flock"} => loopLock[runner[o]] = o
    /\ \A t \in Prompts : kind[t] \in {"none", "turn"} /\ step[t] # "read"
    /\ \A c \in Clients : kind[c] \in {"none", "warm", "compact"}

\* A call names its client and the turn it saw; its prompt is launched only when it returns.
\* A CLI that a client has, or that a steer was written to, was connected by an operation
\* that will not connect another.
Knows(s) ==
    /\ call[s].step \notin {"idle", "done"} => call[s].self \in Clients
    /\ call[s].step \in {"waiting", "interrupting"} => call[s].seen \in Prompts
    /\ call[s].step \in {"interrupting", "sent"} => call[s].cli # Nobody
    /\ call[s].step # "done" => step[s] = "none"
    /\ call[s].step \notin {"interrupting", "sent"} => call[s].cli = Nobody
    /\ call[s].cli # Nobody => step[call[s].cli] \in Started
CallInv ==
    /\ \A s \in Prompts : Knows(s)
    /\ \A c \in Clients : Connected(c) => step[cli[c].by] \in Started

\* Until a steer crosses: a connected CLI that the row names, or that an operation is about to
\* use, has the tip of the conversation in memory, and a steer on its way to a CLI that is
\* still there keeps the turn it joins open.
LeafInv ==
    /\ \A c \in Clients : Connected(c) => leaf # Nobody
    /\ ~forked
    /\ ~crossed =>
        /\ \A c \in Clients : leaf = c /\ Connected(c) => c \in current
        /\ \A c \in Clients : step[c] = "read" =>
              /\ Connected(c) /\ OwnsLeaf(c, seenLeaf[c]) => c \in current
              /\ \A d \in Clients : leaf = d /\ Connected(d) => seenLeaf[c] = d
        /\ \A o \in Ops : step[o] \in WithCli =>
              /\ Connected(runner[o]) => runner[o] \in current
              /\ \A d \in Clients : leaf = d /\ Connected(d) => runner[o] = d
        /\ \A s \in Prompts :
              call[s].step = "sent" /\ cli[call[s].self].by = call[s].cli =>
                  \E a \in Prompts : step[a] = "running" /\ runner[a] = call[s].self

\* A CLI connected after its client closed is in use.
LateInv ==
    \A c \in Clients : cli[c].late =>
        c \in closed /\ \E o \in Ops : runner[o] = c /\ step[o] \in {"connected", "running"}

IInv == TypeInv /\ LockInv /\ CallInv /\ LeafInv /\ LateInv

-----------------------------------------------------------------------------

\* The names of operations: prompts and clients, apart, and neither is Nobody.
LEMMA Names ==
    /\ Ops = Prompts \cup Clients /\ Prompts \cap Clients = {}
    /\ Nobody \notin Clients /\ Nobody \notin Prompts /\ Nobody \notin Ops
    /\ \A l \in Layouts : DOMAIN l = Clients
BY TransportAssumption DEF Ops

LEMMA TypeParts ==
    TypeInv <=> /\ CliTypes /\ RowTypes /\ OpTypes /\ LockTypes /\ BufferTypes /\ CallTypes
                /\ OtherTypes
<1>1. call \in [Prompts -> CallRecord] =>
        \A s \in Prompts :
          /\ call[s].step \in {"idle", "dropping", "inbox", "waiting", "interrupting", "sent", "done"}
          /\ call[s].self \in Clients \cup {Nobody}
          /\ {call[s].wanted, call[s].seen} \subseteq Prompts \cup {Nobody}
          /\ call[s].cli \in Ops \cup {Nobody} /\ call[s].other \in BOOLEAN
    BY DEF CallRecord
<1> QED
    BY <1>1
    DEF TypeInv, TypeOK, CliTypes, RowTypes, OpTypes, LockTypes, BufferTypes, CallTypes,
        OtherTypes

\* Initially nothing is connected, locked or under way.
LEMMA InitIInv == Init => IInv
<1> SUFFICES ASSUME Init PROVE IInv
    OBVIOUS
<1>1. call \in [Prompts -> CallRecord]
    BY DEF Init, NoCall, CallRecord
<1>2. TypeInv
  <2>1. /\ cli \in [Clients -> [by : Ops \cup {Nobody}, late : BOOLEAN]]
        /\ buffered \in [Prompts -> SUBSET Prompts] /\ landed \in [Prompts -> 0..2]
      BY DEF Init, NoCli
  <2>2. \A s \in Prompts : call[s] = NoCall /\ landed[s] = 0
      BY DEF Init
  <2>3. TypeOK
      BY <2>1, <2>2 DEF Init, TypeOK, NoCall, Waits
  <2> QED
      BY <1>1, <2>2, <2>3 DEF TypeInv
<1>3. LockInv
    BY Names DEF Init, LockInv, Waits, Inside, WithCli
<1>4. CallInv
    BY Names DEF Init, CallInv, Knows, NoCall, NoCli, Connected
<1>5. LeafInv /\ LateInv
    BY Names DEF Init, LeafInv, LateInv, NoCall, NoCli, Connected, WithCli
<1> QED
    BY <1>2, <1>3, <1>4, <1>5 DEF IInv

-----------------------------------------------------------------------------
(* What a steer or start call may do.                                      *)

\* The call s returns, with its prompt launched for c.
Launches(s, c) ==
    /\ Launch(s, c) /\ Lands(s) /\ Return(s)
    /\ UNCHANGED buffered

\* It returns otherwise: refused, queued, or buffered for the turn it joins.
Returns(s) ==
    /\ UNCHANGED <<kind, runner, step>> /\ active' \in {active, Nobody}
    /\ Return(s) /\ (Lands(s) \/ UNCHANGED landed)
    /\ buffered' = buffered \/ \E a \in Prompts : buffered' = [buffered EXCEPT ![a] = @ \cup {s}]

\* It waits, at c for a CLI of the turn a, or before that for something else.
WaitsOn(s) ==
    /\ UNCHANGED launchVars /\ UNCHANGED <<landed, buffered>>
    /\ \E r \in CallRecord :
          /\ Await(s, r) /\ r.self \in Clients /\ r.cli = Nobody
          /\ r.step \in {"dropping", "inbox", "waiting"}
          /\ r.step = "waiting" => r.seen \in Prompts

Decides(s) == (\E c \in Clients : Launches(s, c)) \/ Returns(s) \/ WaitsOn(s)

\* A steer of the active turn, or a start, decides one of the three.
LEMMA ProceedDecides ==
    ASSUME IInv, NEW s \in Prompts, NEW c \in Clients, NEW w \in Prompts \cup {Nobody}
    PROVE  /\ StartTurn(s, c, w) => Decides(s)
           /\ \A a \in Prompts : SteerActive(s, c, a, w) => Decides(s)
           /\ \A a \in Prompts \cup {Nobody} : Proceed(s, c, a, w) => Decides(s)
<1>1. ActiveOwner(c) \in Clients
    BY Names DEF ActiveOwner, IInv, LockInv, Inside, WithCli, Waits
<1>2. ASSUME NEW a \in Prompts, SteerActive(s, c, a, w) PROVE Decides(s)
  <2> DEFINE d == ActiveOwner(c)
             r == [NoCall EXCEPT !.step = "waiting", !.self = d, !.wanted = w, !.seen = a]
  <2>1. /\ r \in CallRecord /\ r.self \in Clients /\ r.cli = Nobody
        /\ r.step = "waiting" /\ r.seen \in Prompts
      BY <1>1, Names DEF NoCall, CallRecord
  <2>2. CASE Refuse(s)
      BY <2>2 DEF Refuse, Decides, Returns, launchVars
  <2>3. CASE /\ buffered' = [buffered EXCEPT ![a] = @ \cup {s}]
             /\ Lands(s) /\ Return(s)
             /\ UNCHANGED launchVars
      BY <2>3 DEF Decides, Returns, launchVars
  <2>4. CASE Await(s, r) /\ UNCHANGED <<landed, buffered, launchVars>>
      BY <2>1, <2>4 DEF Decides, WaitsOn, launchVars
  <2> QED
      BY <1>2, <2>2, <2>3, <2>4 DEF SteerActive
<1>3. ASSUME StartTurn(s, c, w) PROVE Decides(s)
  <2>1. CASE Refuse(s)
      BY <2>1 DEF Refuse, Decides, Returns, launchVars
  <2>2. CASE Launch(s, c) /\ Lands(s) /\ Return(s) /\ UNCHANGED buffered
      BY <2>2 DEF Decides, Launches
  <2>3. CASE active # Nobody /\ SteerActive(s, c, active, w)
      BY <1>2, <2>3 DEF IInv, TypeInv, TypeOK
  <2> QED
      BY <1>3, <2>1, <2>2, <2>3 DEF StartTurn
<1> QED
    BY <1>2, <1>3 DEF Proceed

\* A call that decides; a CLI that is behind may be dropped on the way.
Deciding(s) ==
    /\ call[s].step \notin {"sent", "done"} /\ Decides(s)
    /\ UNCHANGED cliVars \/ \E d \in Clients : Disconnect(d)
    /\ UNCHANGED <<clientVars, leaf, cancelled, seenLeaf, lockVars, sent, forked, crossed>>
    /\ inbox' \in {inbox, "none"}

idleVars == <<clientVars, cli, registered, rowVars, opVars, lockVars, bufferVars, inbox>>

\* A steer is sent to the connected CLI of c.
Querying(s) ==
    /\ call[s].step \in {"waiting", "interrupting"}
    /\ \E c \in Clients, a \in Prompts : Connected(c) /\ Query(s, c, a)
    /\ UNCHANGED idleVars

\* Its interrupt is sent first.
Interrupts(s) ==
    /\ call[s].step = "waiting"
    /\ Connected(call[s].self)
    /\ Await(s, [call[s] EXCEPT !.step = "interrupting", !.cli = cli[call[s].self].by])
    /\ UNCHANGED <<idleVars, current, landed, forked, crossed>>

\* Whatever a call does next is one of these, or SteerSent.
LEMMA CallActions ==
    ASSUME IInv, NEW s \in Prompts
    PROVE  /\ \A c \in Clients, w \in Prompts \cup {Nobody} :
                 StartCall(s, c, w) \/ SteerCall(s, c, w) => Deciding(s)
           /\ StaleDropped(s) \/ InboxAnswers(s) \/ SteerGivesUp(s) => Deciding(s)
           /\ SteerPolls(s) => Deciding(s) \/ Querying(s) \/ Interrupts(s)
           /\ SteerInterrupted(s) => Deciding(s) \/ Querying(s)
<1> DEFINE r == call[s]
<1>r. /\ r \in CallRecord /\ active \in Prompts \cup {Nobody}
      /\ cli \in [Clients -> [by : Ops \cup {Nobody}, late : BOOLEAN]]
    BY DEF IInv, TypeInv, TypeOK
<1>s. /\ r.step \notin {"idle", "done"} => r.self \in Clients
      /\ r.step \in {"waiting", "interrupting"} => r.seen \in Prompts
      /\ r.step \in {"interrupting", "sent"} => r.cli # Nobody
    BY DEF IInv, CallInv, Knows
<1>t. r.seen \in Prompts \cup {Nobody} /\ r.wanted \in Prompts \cup {Nobody}
    BY <1>r DEF CallRecord
<1>o. \A c \in Clients : ActiveOwner(c) \in Clients
    BY Names DEF ActiveOwner, IInv, LockInv, Inside, WithCli, Waits
<1>n. Nobody \in Prompts \cup {Nobody}
    OBVIOUS
<1>f. Refuse(s) => Decides(s) /\ UNCHANGED <<landed, buffered, launchVars>>
    BY DEF Refuse, Decides, Returns, launchVars
<1>1. ASSUME NEW c \in Clients, NEW w \in Prompts \cup {Nobody}, StartCall(s, c, w)
      PROVE  Deciding(s)
    BY <1>1, ProceedDecides DEF StartCall, Deciding
<1>2. ASSUME NEW c \in Clients, NEW w \in Prompts \cup {Nobody}, SteerCall(s, c, w)
      PROVE  Deciding(s)
  <2> DEFINE d == Executor(c)
             asked == [NoCall EXCEPT !.self = d, !.wanted = w, !.seen = active,
                                     !.other = Outside(d)]
  <2>1. d \in Clients
    <3> DEFINE owners == {e \in registered : /\ Beside(c, e) /\ e \notin closed
                                            /\ Connected(e) /\ OwnsLeaf(e, leaf)}
    <3>1. CASE flock \in Prompts /\ Beside(c, runner[flock])
        BY <3>1, Names DEF Executor, IInv, LockInv, Inside, WithCli, Waits
    <3>2. CASE ~(flock \in Prompts /\ Beside(c, runner[flock])) /\ owners = {}
        BY <3>2 DEF Executor
    <3>3. CASE ~(flock \in Prompts /\ Beside(c, runner[flock])) /\ owners # {}
      <4>1. (CHOOSE e \in owners : TRUE) \in owners
          BY <3>3
      <4>2. owners \subseteq Clients
          BY DEF IInv, TypeInv, TypeOK
      <4> QED
          BY <3>3, <4>1, <4>2 DEF Executor
    <3> QED
        BY <3>1, <3>2, <3>3
  <2>2. Outside(d) \in BOOLEAN
      BY DEF Outside
  <2>3. \A st \in {"dropping", "inbox"} :
            /\ [asked EXCEPT !.step = st] \in CallRecord
            /\ [asked EXCEPT !.step = st].self \in Clients
            /\ [asked EXCEPT !.step = st].cli = Nobody
            /\ [asked EXCEPT !.step = st].step = st
      BY <1>r, <2>1, <2>2, Names, ZenonT(60) DEF NoCall, CallRecord
  <2> HIDE DEF asked, d
  <2>4. ASSUME NEW st \in {"dropping", "inbox"}, Await(s, [asked EXCEPT !.step = st]),
               UNCHANGED <<landed, buffered, launchVars>>
        PROVE  Decides(s)
      BY <2>3, <2>4 DEF Decides, WaitsOn
  <2>5. CASE Refuse(s) /\ UNCHANGED cliVars
      BY <1>2, <1>f, <2>5 DEF SteerCall, Deciding
  <2>6. CASE Disconnect(d) /\ Await(s, [asked EXCEPT !.step = "dropping"])
             /\ UNCHANGED <<landed, buffered, launchVars>>
      BY <1>2, <2>1, <2>4, <2>6 DEF SteerCall, Deciding
  <2>7. CASE Await(s, [asked EXCEPT !.step = "inbox"])
             /\ UNCHANGED <<cliVars, landed, buffered, launchVars>>
      BY <1>2, <2>4, <2>7 DEF SteerCall, Deciding
  <2>8. CASE Proceed(s, d, active, w) /\ UNCHANGED cliVars
    <3>1. Decides(s)
        BY <1>r, <2>1, <2>8, ProceedDecides
    <3> QED
        BY <1>2, <2>8, <3>1 DEF SteerCall, Deciding
  <2> QED
      BY <1>2, <2>5, <2>6, <2>7, <2>8 DEF SteerCall, asked, d
<1>3. ASSUME StaleDropped(s) PROVE Deciding(s)
  <2>1. CASE Await(s, [r EXCEPT !.step = "inbox"]) /\ UNCHANGED <<landed, buffered, launchVars>>
    <3> DEFINE q == [r EXCEPT !.step = "inbox"]
    <3>1. q \in CallRecord /\ q.self \in Clients /\ q.step = "inbox"
        BY <1>3, <1>r, <1>s DEF CallRecord, StaleDropped
    <3>2. q.cli = Nobody
        BY <1>3, <1>r DEF StaleDropped, CallRecord, IInv, CallInv, Knows
    <3>3. WaitsOn(s)
        BY <2>1, <3>1, <3>2 DEF WaitsOn
    <3> QED
        BY <1>3, <3>3 DEF StaleDropped, Deciding, Decides
  <2>2. CASE Proceed(s, r.self, r.seen, r.wanted)
    <3>1. Decides(s)
        BY <1>3, <1>s, <1>t, <2>2, ProceedDecides DEF StaleDropped
    <3> QED
        BY <1>3, <3>1 DEF StaleDropped, Deciding
  <2> QED
      BY <1>3, <2>1, <2>2 DEF StaleDropped
<1>4. ASSUME InboxAnswers(s) PROVE Deciding(s)
  <2>1. CASE Delivered(s)
    <3>1. Decides(s)
        BY <1>f, <2>1 DEF Delivered, Decides, Returns, launchVars
    <3> QED
        BY <1>4, <2>1, <3>1 DEF InboxAnswers, Deciding
  <2>2. CASE Refuse(s)
      BY <1>4, <1>f, <2>2 DEF InboxAnswers, Deciding
  <2>3. CASE Proceed(s, r.self, r.seen, r.wanted)
    <3>1. Decides(s)
        BY <1>4, <1>s, <1>t, <2>3, ProceedDecides DEF InboxAnswers
    <3> QED
        BY <1>4, <3>1 DEF InboxAnswers, Deciding
  <2> QED
      BY <1>4, <2>1, <2>2, <2>3 DEF InboxAnswers
<1>5. ASSUME SteerGivesUp(s) PROVE Deciding(s)
  <2>1. r.self \in Clients
      BY <1>5, <1>s DEF SteerGivesUp
  <2>2. CASE StartTurn(s, r.self, Nobody)
    <3>1. Decides(s)
        BY <1>n, <2>1, <2>2, ProceedDecides
    <3> QED
        BY <1>5, <3>1 DEF SteerGivesUp, Deciding
  <2>3. CASE ~StartTurn(s, r.self, Nobody)
    <3>1. Decides(s)
        BY <1>5, <2>1, <2>3 DEF SteerGivesUp, Decides, Returns, Launches, launchVars
    <3> QED
        BY <1>5, <3>1 DEF SteerGivesUp, Deciding
  <2> QED
      BY <2>2, <2>3
<1>6. ASSUME SteerPolls(s) PROVE Deciding(s) \/ Querying(s) \/ Interrupts(s)
  <2> DEFINE d == r.self
             o == ActiveOwner(d)
  <2>1. d \in Clients /\ o \in Clients /\ r.seen \in Prompts /\ r.step = "waiting"
      BY <1>6, <1>s, <1>o DEF SteerPolls
  <2> HIDE DEF o
  <2>2. CASE /\ IF active = Nobody THEN StartTurn(s, o, Nobody)
                ELSE SteerActive(s, o, active, r.wanted)
             /\ UNCHANGED sendVars
    <3>1. Decides(s)
        BY <1>n, <1>r, <1>t, <2>1, <2>2, ProceedDecides
    <3> QED
        BY <1>6, <2>2, <3>1 DEF SteerPolls, Deciding, sendVars, cliVars
  <2>3. CASE StartTurn(s, d, Nobody) /\ UNCHANGED sendVars
    <3>1. Decides(s)
        BY <1>n, <2>1, <2>3, ProceedDecides
    <3> QED
        BY <1>6, <2>3, <3>1 DEF SteerPolls, Deciding, sendVars, cliVars
  <2>4. CASE Connected(d) /\ active = r.seen /\ Query(s, d, active) /\ UNCHANGED <<buffered, launchVars>>
      BY <1>6, <2>1, <2>4
      DEF SteerPolls, Querying, idleVars, launchVars, rowVars, opVars, bufferVars
  <2>5. CASE Connected(d) /\ Await(s, [r EXCEPT !.step = "interrupting", !.cli = cli[d].by])
             /\ UNCHANGED <<landed, buffered, launchVars, sendVars>>
      BY <1>6, <2>1, <2>5
      DEF SteerPolls, Interrupts, idleVars, launchVars, sendVars, rowVars, opVars, bufferVars
  <2> QED
      BY <1>6, <2>2, <2>3, <2>4, <2>5 DEF SteerPolls, o
<1>7. ASSUME SteerInterrupted(s) PROVE Deciding(s) \/ Querying(s)
  <2>1. CASE cli[r.self].by = r.cli /\ Query(s, r.self, r.seen)
      BY <1>7, <1>s, <2>1 DEF SteerInterrupted, Querying, idleVars, Connected
  <2>2. CASE Return(s) /\ UNCHANGED <<sendVars, landed>>
      BY <1>7, <2>2
      DEF SteerInterrupted, Deciding, Decides, Returns, sendVars, cliVars, rowVars, opVars,
          bufferVars
  <2> QED
      BY <1>7, <2>1, <2>2 DEF SteerInterrupted
<1> QED
    BY <1>1, <1>2, <1>3, <1>4, <1>5, <1>6, <1>7

-----------------------------------------------------------------------------
(* What an operation under the locks may do.                               *)

\* It ends.  A CLI connected after the close goes, and a turn that keeps its CLI leaves
\* no steer on the way to it.
Ends(o) ==
    /\ step[o] \in Inside \/ (step[o] = "flock" /\ flock = Nobody)
    /\ Release(o)
    /\ UNCHANGED cliVars \/ Disconnect(runner[o])
    /\ runner[o] \in closed /\ step[o] \in {"connected", "running"} => Disconnect(runner[o])
    /\ o \in Prompts /\ step[o] = "running" =>
          \/ Disconnect(runner[o])
          \/ \A s \in Prompts : call[s].step = "sent" => call[s].self # runner[o]
    /\ UNCHANGED <<clientVars, leaf, kind, seenLeaf, call, inbox, landed, forked, crossed>>
    /\ active' \in {active, Nobody} /\ cancelled' \subseteq cancelled /\ sent' \subseteq sent
    /\ buffered' = buffered \/ \E t \in Prompts : buffered' = [buffered EXCEPT ![t] = {}]

\* It gets a CLI for the leaf it read.
Uses(o) ==
    /\ \/ step[o] = "flock" /\ flock = Nobody /\ ClientFor(o, leaf)
       \/ step[o] = "read" /\ o \in Clients /\ ClientFor(o, seenLeaf[o])
    /\ flock' = o
    /\ UNCHANGED <<clientVars, active, cancelled, kind, runner, seenLeaf, loopLock, bufferVars,
                   call, inbox, landed, forked, crossed>>

\* A compaction reads the row.
Reads(c) ==
    /\ step[c] = "flock" /\ flock = Nobody
    /\ flock' = c
    /\ seenLeaf' = [seenLeaf EXCEPT ![c] = leaf]
    /\ To(c, "read")
    /\ UNCHANGED <<clientVars, cliVars, rowVars, kind, runner, loopLock, bufferVars, call, inbox,
                   landed, forked, crossed>>

\* Whatever an operation under the locks does is one of these, ClientReady or SendPrompt.
LEMMA LockedActions ==
    ASSUME IInv
    PROVE  /\ \A t \in Prompts : BeginTurn(t) => Ends(t) \/ Uses(t)
           /\ \A c \in Clients : BeginWarmUp(c) => Ends(c) \/ Uses(c)
           /\ \A c \in Clients : BeginCompaction(c) => Ends(c) \/ Reads(c)
           /\ \A c \in Clients : CompactionConnects(c) => Ends(c) \/ Uses(c)
           /\ \A o \in Ops : ClientFails(o) => Ends(o)
           /\ \A t \in Prompts : TurnCompletes(t) \/ TurnFails(t) => Ends(t)
           /\ \A c \in Clients : WarmUpEnds(c) \/ CompactionEnds(c) => Ends(c)
<1> USE DEF Inside, WithCli, rowVars, opVars, lockVars, bufferVars, To
<1>k. \A t \in Prompts : kind[t] \in {"none", "turn"}
    BY DEF IInv, LockInv
<1>l. \A c \in Clients : kind[c] \in {"none", "warm", "compact"}
    BY DEF IInv, LockInv
<1>e. ASSUME NEW t \in Prompts, NEW drop \in BOOLEAN, EndTurn(t, drop)
      PROVE  /\ Release(t)
             /\ UNCHANGED cliVars \/ Disconnect(runner[t])
             /\ drop \/ runner[t] \in closed => Disconnect(runner[t])
             /\ UNCHANGED leaf
             /\ active' \in {active, Nobody} /\ cancelled' \subseteq cancelled /\ sent' \subseteq sent
             /\ \E u \in Prompts : buffered' = [buffered EXCEPT ![u] = {}]
    BY <1>e DEF EndTurn, DisconnectIf
<1>1. ASSUME NEW t \in Prompts, BeginTurn(t) PROVE Ends(t) \/ Uses(t)
  <2>1. CASE \E drop \in BOOLEAN : EndTurn(t, drop)
      BY <1>1, <1>e, <2>1 DEF BeginTurn, Ends
  <2>2. CASE /\ flock' = t
             /\ ClientFor(t, leaf)
             /\ UNCHANGED <<active, cancelled, runner, loopLock, bufferVars>>
      BY <1>1, <2>2 DEF BeginTurn, Uses
  <2> QED
      BY <1>1, <2>1, <2>2 DEF BeginTurn
<1>2. ASSUME NEW c \in Clients, BeginWarmUp(c) PROVE Ends(c) \/ Uses(c)
  <2>1. CASE Release(c) /\ UNCHANGED <<cliVars, leaf>>
      BY <1>2, <2>1, Names DEF BeginWarmUp, Ends
  <2>2. CASE flock' = c /\ ClientFor(c, leaf) /\ UNCHANGED <<runner, loopLock>>
      BY <1>2, <2>2 DEF BeginWarmUp, Uses
  <2> QED
      BY <1>2, <2>1, <2>2 DEF BeginWarmUp
<1>3. ASSUME NEW c \in Clients, BeginCompaction(c) PROVE Ends(c) \/ Reads(c)
    BY <1>3, Names DEF BeginCompaction, Ends, Reads
<1>4. ASSUME NEW c \in Clients, CompactionConnects(c) PROVE Ends(c) \/ Uses(c)
  <2>1. flock = c
      BY <1>4, Names DEF CompactionConnects, IInv, LockInv
  <2>2. CASE Release(c) /\ UNCHANGED <<cliVars, leaf>>
      BY <1>4, <2>2, Names DEF CompactionConnects, Ends
  <2>3. CASE ClientFor(c, seenLeaf[c]) /\ UNCHANGED <<runner, lockVars>>
      BY <1>4, <2>1, <2>3 DEF CompactionConnects, Uses
  <2> QED
      BY <1>4, <2>2, <2>3 DEF CompactionConnects
<1>5. ASSUME NEW o \in Ops, ClientFails(o) PROVE Ends(o)
  <2>1. CASE kind[o] = "turn" /\ EndTurn(o, TRUE)
    <3>1. o \in Prompts
        BY <1>l, <2>1, Names
    <3> QED
        BY <1>5, <1>e, <2>1, <3>1 DEF ClientFails, Ends
  <2>2. CASE Release(o) /\ UNCHANGED <<cliVars, rowVars, bufferVars>>
      BY <1>5, <2>2 DEF ClientFails, Ends
  <2> QED
      BY <1>5, <2>1, <2>2 DEF ClientFails
<1>6. ASSUME NEW t \in Prompts, TurnCompletes(t) PROVE Ends(t)
    BY <1>6, <1>e DEF TurnCompletes, Ends
<1>7. ASSUME NEW t \in Prompts, TurnFails(t) PROVE Ends(t)
    BY <1>7, <1>e DEF TurnFails, Ends
<1>8. ASSUME NEW c \in Clients, WarmUpEnds(c) \/ CompactionEnds(c) PROVE Ends(c)
  <2>1. runner[c] = c
      BY <1>8 DEF WarmUpEnds, CompactionEnds, IInv, LockInv, Waits
  <2>2. /\ UNCHANGED cliVars \/ Disconnect(c)
        /\ c \in closed => Disconnect(c)
      BY <1>8 DEF WarmUpEnds, CompactionEnds, DisconnectIf
  <2> QED
      BY <1>8, <2>1, <2>2, Names DEF WarmUpEnds, CompactionEnds, Ends
<1> QED
    BY <1>1, <1>2, <1>3, <1>4, <1>5, <1>6, <1>7, <1>8

CallStep(s) == Deciding(s) \/ Querying(s) \/ Interrupts(s) \/ SteerSent(s)
OpStep(o) == TakeLoopLock(o) \/ Uses(o) \/ ClientReady(o) \/ SendPrompt(o) \/ Ends(o)
ClientStep(c) ==
    \/ Reads(c) \/ CloseBegin(c) \/ CloseEnds(c)
    \/ \E what \in {"warm", "compact"} : UpkeepStart(c, what)

\* The steps of the specification, summed up.
LEMMA Actions ==
    ASSUME IInv, [Next]_vars
    PROVE  \/ \E s \in Prompts : CallStep(s)
           \/ \E o \in Ops : OpStep(o)
           \/ \E c \in Clients : ClientStep(c)
           \/ CancelTurn \/ ProgramExits \/ UNCHANGED vars
<1> USE DEF CallStep, OpStep, ClientStep
<1>1. CASE Locked
    BY <1>1, LockedActions, Names DEF Locked
<1>2. CASE Continue
    BY <1>2, CallActions DEF Continue
<1>3. CASE Ask
    BY <1>3, CallActions DEF Ask
<1> QED
    BY <1>1, <1>2, <1>3 DEF Next

-----------------------------------------------------------------------------
(* The invariant is inductive.                                             *)

\* Types are preserved, and a prompt that has gone somewhere belongs to a call that decided.
LEMMA TypeInvStep == IInv /\ [Next]_vars => TypeInv'
<1> SUFFICES ASSUME IInv, [Next]_vars PROVE TypeInv'
    OBVIOUS
<1> USE DEF clientVars, cliVars, rowVars, opVars, lockVars, bufferVars, idleVars, launchVars
<1>t. CliTypes /\ RowTypes /\ OpTypes /\ LockTypes /\ BufferTypes /\ CallTypes /\ OtherTypes
    BY TypeParts DEF IInv
<1>c. \A o \in Ops : step[o] \in Waits => runner[o] \in Clients
    BY DEF IInv, LockInv
<1>s. \A s \in Prompts : call[s].step \notin {"idle", "done"} => call[s].self \in Clients
    BY DEF IInv, CallInv, Knows
<1>n. NoCli \in [by : Ops \cup {Nobody}, late : BOOLEAN]
    BY DEF NoCli
<1>1. CliTypes'
  <2>1. ASSUME NEW c \in Clients, Disconnect(c) PROVE CliTypes'
    <3>1. cli' \in [Clients -> [by : Ops \cup {Nobody}, late : BOOLEAN]]
        BY <1>t, <1>n, <2>1 DEF CliTypes, Disconnect
    <3> QED
        BY <1>t, <2>1, <3>1 DEF CliTypes, Disconnect
  <2>2. ASSUME NEW c \in Clients, NEW o \in Ops, Connects(o, c) PROVE CliTypes'
    <3>1. [by |-> o, late |-> c \in closed] \in [by : Ops \cup {Nobody}, late : BOOLEAN]
        OBVIOUS
    <3>2. cli' \in [Clients -> [by : Ops \cup {Nobody}, late : BOOLEAN]]
        BY <1>t, <2>2, <3>1 DEF CliTypes, Connects
    <3> QED
        BY <1>t, <2>2, <3>2 DEF CliTypes, Connects
  <2>3. CASE UNCHANGED <<cli, registered>> /\ current' \subseteq Clients
      BY <1>t, <2>3 DEF CliTypes
  <2>4. ASSUME NEW s \in Prompts, CallStep(s) PROVE CliTypes'
      BY <1>t, <2>1, <2>3, <2>4
      DEF CallStep, CliTypes, Deciding, Querying, Query, Sends, Interrupts, SteerSent
  <2>5. ASSUME NEW o \in Ops, OpStep(o) PROVE CliTypes'
    <3>1. TakeLoopLock(o) \/ runner[o] \in Clients
        BY <1>c, <2>5 DEF OpStep, Uses, ClientReady, SendPrompt, Ends, Waits, Inside, WithCli
    <3> QED
        BY <1>t, <2>1, <2>2, <2>3, <2>5, <3>1
        DEF OpStep, CliTypes, TakeLoopLock, Uses, ClientFor, ClientReady, SendPrompt, Sends, Ends
  <2>6. ASSUME NEW c \in Clients, ClientStep(c) PROVE CliTypes'
      BY <1>t, <2>1, <2>3, <2>6
      DEF ClientStep, CliTypes, Reads, CloseBegin, CloseEnds, DisconnectIf, UpkeepStart
  <2>7. CASE CancelTurn \/ ProgramExits \/ UNCHANGED vars
      BY <1>t, <2>3, <2>7 DEF CliTypes, CancelTurn, ProgramExits, vars
  <2> QED
      BY <2>4, <2>5, <2>6, <2>7, Actions
<1>2. RowTypes'
  <2>1. ASSUME NEW s \in Prompts, CallStep(s) PROVE RowTypes'
      BY <1>t, <1>s, <2>1
      DEF CallStep, RowTypes, Deciding, Decides, Launches, Launch, Returns, WaitsOn, Querying,
          Interrupts, SteerSent
  <2>2. ASSUME NEW o \in Ops, OpStep(o) PROVE RowTypes'
      BY <1>t, <1>c, <2>2
      DEF OpStep, RowTypes, TakeLoopLock, Uses, ClientFor, Disconnect, ClientReady, Connects,
          SendPrompt, Ends, Waits
  <2>3. ASSUME NEW c \in Clients, ClientStep(c) PROVE RowTypes'
      BY <1>t, <2>3 DEF ClientStep, RowTypes, Reads, CloseBegin, CloseEnds, UpkeepStart
  <2>4. CASE CancelTurn \/ ProgramExits \/ UNCHANGED vars
      BY <1>t, <2>4 DEF RowTypes, CancelTurn, ProgramExits, vars
  <2> QED
      BY <2>1, <2>2, <2>3, <2>4, Actions
<1>3. OpTypes'
  <2>1. ASSUME NEW s \in Prompts, CallStep(s) PROVE OpTypes'
      BY <1>t, <2>1, Names
      DEF CallStep, OpTypes, Deciding, Decides, Launches, Launch, To, Returns, WaitsOn,
          Querying, Interrupts, SteerSent, Waits
  <2>2. ASSUME NEW o \in Ops, OpStep(o) PROVE OpTypes'
      BY <1>t, <2>2
      DEF OpStep, OpTypes, TakeLoopLock, Uses, ClientFor, ClientReady, SendPrompt, Ends,
          Release, To, Waits
  <2>3. ASSUME NEW c \in Clients, ClientStep(c) PROVE OpTypes'
      BY <1>t, <2>3, Names
      DEF ClientStep, OpTypes, RowTypes, Reads, CloseBegin, CloseEnds, UpkeepStart, To, Waits
  <2>4. CASE CancelTurn \/ ProgramExits \/ UNCHANGED vars
      BY <1>t, <2>4 DEF OpTypes, CancelTurn, ProgramExits, vars
  <2> QED
      BY <2>1, <2>2, <2>3, <2>4, Actions
<1>4. LockTypes'
  <2>1. ASSUME NEW s \in Prompts, CallStep(s) PROVE LockTypes'
      BY <1>t, <2>1 DEF CallStep, LockTypes, Deciding, Querying, Interrupts, SteerSent
  <2>2. ASSUME NEW o \in Ops, OpStep(o) PROVE LockTypes'
      BY <1>t, <2>2
      DEF OpStep, LockTypes, TakeLoopLock, Uses, ClientReady, SendPrompt, Ends, Release
  <2>3. ASSUME NEW c \in Clients, ClientStep(c) PROVE LockTypes'
      BY <1>t, <2>3, Names DEF ClientStep, LockTypes, Reads, CloseBegin, CloseEnds, UpkeepStart
  <2>4. CASE CancelTurn \/ ProgramExits \/ UNCHANGED vars
      BY <1>t, <2>4 DEF LockTypes, CancelTurn, ProgramExits, vars
  <2> QED
      BY <2>1, <2>2, <2>3, <2>4, Actions
<1>5. BufferTypes'
  <2>1. ASSUME NEW s \in Prompts, CallStep(s) PROVE BufferTypes'
      BY <1>t, <2>1
      DEF CallStep, BufferTypes, Deciding, Decides, Launches, Returns, WaitsOn, Querying,
          Interrupts, SteerSent
  <2>2. ASSUME NEW o \in Ops, OpStep(o) PROVE BufferTypes'
    <3>1. CASE SendPrompt(o) /\ kind[o] = "turn"
      <4>1. o \in Prompts
          BY <3>1, Names DEF OpStep, IInv, LockInv
      <4> QED
          BY <1>t, <3>1, <4>1 DEF OpStep, BufferTypes, SendPrompt
    <3> QED
        BY <1>t, <2>2, <3>1
        DEF OpStep, BufferTypes, TakeLoopLock, Uses, ClientReady, SendPrompt, Ends
  <2>3. ASSUME NEW c \in Clients, ClientStep(c) PROVE BufferTypes'
      BY <1>t, <2>3 DEF ClientStep, BufferTypes, Reads, CloseBegin, CloseEnds, UpkeepStart
  <2>4. CASE CancelTurn \/ ProgramExits \/ UNCHANGED vars
      BY <1>t, <2>4 DEF BufferTypes, CancelTurn, ProgramExits, vars
  <2> QED
      BY <2>1, <2>2, <2>3, <2>4, Actions
<1>6. CallTypes'
  <2>1. ASSUME NEW s \in Prompts, NEW r \in CallRecord, Await(s, r),
               call[s].step \notin {"sent", "done"},
               \/ UNCHANGED landed /\ (r.step \in {"sent", "done"} \/ landed[s] = 0)
               \/ Lands(s) /\ r.step \in {"sent", "done"}
        PROVE  CallTypes'
    <3>1. landed[s] = 0
        BY <1>t, <2>1 DEF CallTypes
    <3>2. call' \in [Prompts -> CallRecord] /\ call'[s] = r
        BY <1>t, <2>1 DEF CallTypes, Await
    <3>3. landed' \in [Prompts -> 0..2] /\ landed'[s] <= 1
        BY <1>t, <2>1, <3>1 DEF CallTypes, Lands
    <3>4. ASSUME NEW u \in Prompts \ {s} PROVE call'[u] = call[u] /\ landed'[u] = landed[u]
        BY <1>t, <2>1 DEF CallTypes, Lands, Await
    <3>5. r.step \notin {"sent", "done"} => landed'[s] = 0
        BY <2>1, <3>1
    <3> QED
        BY <1>t, <3>2, <3>3, <3>4, <3>5 DEF CallTypes
  <2>2. /\ [NoCall EXCEPT !.step = "done"] \in CallRecord
        /\ [NoCall EXCEPT !.step = "done"].step = "done"
      BY DEF NoCall, CallRecord
  <2>3. ASSUME NEW s \in Prompts, Deciding(s) PROVE CallTypes'
    <3>1. CASE Return(s) /\ (Lands(s) \/ UNCHANGED landed)
        BY <2>1, <2>2, <2>3, <3>1 DEF Deciding, Return, Await
    <3>2. CASE WaitsOn(s)
      <4>1. landed[s] = 0
          BY <1>t, <2>3 DEF CallTypes, Deciding
      <4> QED
          BY <2>1, <2>3, <3>2, <4>1 DEF Deciding, WaitsOn
    <3> QED
        BY <2>3, <3>1, <3>2 DEF Deciding, Decides, Launches, Returns
  <2>4. ASSUME NEW s \in Prompts, Querying(s) PROVE CallTypes'
    <3>1. PICK c \in Clients, a \in Prompts : Query(s, c, a)
        BY <2>4 DEF Querying
    <3> DEFINE r == [NoCall EXCEPT !.step = "sent", !.self = c, !.cli = cli[c].by]
    <3>2. r \in CallRecord /\ r.step = "sent"
        BY <1>t, Names DEF NoCall, CallRecord, CliTypes
    <3> HIDE DEF r
    <3>3. Await(s, r) /\ Lands(s)
        BY <3>1 DEF Query, r
    <3> QED
        BY <2>1, <2>4, <3>2, <3>3 DEF Querying
  <2>5. ASSUME NEW s \in Prompts, Interrupts(s) PROVE CallTypes'
    <3> DEFINE r == [call[s] EXCEPT !.step = "interrupting", !.cli = cli[call[s].self].by]
    <3>1. call[s].self \in Clients /\ call[s] \in CallRecord
        BY <1>s, <1>t, <2>5 DEF Interrupts, CallTypes
    <3>2. r \in CallRecord
        BY <1>t, <3>1 DEF CallRecord, CliTypes
    <3>3. landed[s] = 0 /\ UNCHANGED landed
        BY <1>t, <2>5 DEF CallTypes, Interrupts
    <3> HIDE DEF r
    <3>4. Await(s, r)
        BY <2>5 DEF Interrupts, r
    <3> QED
        BY <2>1, <2>5, <3>2, <3>3, <3>4 DEF Interrupts
  <2>6. ASSUME NEW s \in Prompts, SteerSent(s) PROVE CallTypes'
    <3>1. call' \in [Prompts -> CallRecord] /\ call'[s].step = "done"
        BY <1>t, <2>2, <2>6 DEF CallTypes, SteerSent, Return
    <3> QED
        BY <1>t, <2>6, <3>1 DEF CallTypes, SteerSent, Return
  <2>7. ASSUME NEW o \in Ops, OpStep(o) PROVE CallTypes'
      BY <1>t, <2>7 DEF OpStep, CallTypes, TakeLoopLock, Uses, ClientReady, SendPrompt, Ends
  <2>8. ASSUME NEW c \in Clients, ClientStep(c) PROVE CallTypes'
      BY <1>t, <2>8 DEF ClientStep, CallTypes, Reads, CloseBegin, CloseEnds, UpkeepStart
  <2>9. CASE CancelTurn \/ ProgramExits \/ UNCHANGED vars
      BY <1>t, <2>9 DEF CallTypes, CancelTurn, ProgramExits, vars
  <2> QED
      BY <2>3, <2>4, <2>5, <2>6, <2>7, <2>8, <2>9, Actions DEF CallStep
<1>7. OtherTypes'
  <2>1. ASSUME NEW s \in Prompts, CallStep(s) PROVE OtherTypes'
      BY <1>t, <2>1
      DEF CallStep, OtherTypes, Deciding, Querying, Query, Sends, Interrupts, SteerSent
  <2>2. ASSUME NEW o \in Ops, OpStep(o) PROVE OtherTypes'
      BY <1>t, <2>2
      DEF OpStep, OtherTypes, TakeLoopLock, Uses, ClientReady, SendPrompt, Sends, Ends
  <2>3. ASSUME NEW c \in Clients, ClientStep(c) PROVE OtherTypes'
      BY <1>t, <2>3 DEF ClientStep, OtherTypes, Reads, CloseBegin, CloseEnds, UpkeepStart
  <2>4. CASE CancelTurn \/ ProgramExits \/ UNCHANGED vars
      BY <1>t, <2>4 DEF OtherTypes, CancelTurn, ProgramExits, vars
  <2> QED
      BY <2>1, <2>2, <2>3, <2>4, Actions
<1>8. \A s \in Prompts :
        /\ call'[s].step \in {"idle", "dropping", "inbox", "waiting", "interrupting", "sent", "done"}
        /\ call'[s].self \in Clients \cup {Nobody}
        /\ {call'[s].wanted, call'[s].seen} \subseteq Prompts \cup {Nobody}
        /\ call'[s].cli \in Ops \cup {Nobody} /\ call'[s].other \in BOOLEAN
    BY <1>6 DEF CallTypes, CallRecord
<1> QED
    BY <1>1, <1>2, <1>3, <1>4, <1>5, <1>6, <1>7, <1>8
    DEF TypeInv, TypeOK, CliTypes, RowTypes, OpTypes, LockTypes, BufferTypes, CallTypes,
        OtherTypes

\* CLIs stay as they are, or go.
DropsAtMost ==
    \A c \in Clients : \/ cli'[c] = cli[c] /\ (c \in current => c \in current')
                       \/ cli'[c] = NoCli

LEMMA Drops ==
    ASSUME IInv, NEW d \in Clients, UNCHANGED cliVars \/ Disconnect(d) PROVE DropsAtMost
BY TypeParts DEF IInv, CliTypes, cliVars, Disconnect, DropsAtMost

\* What a call that decides changes: its own record, its own turn if it launches one, and a CLI
\* that is behind.
LEMMA DecidingEffect ==
    ASSUME IInv, NEW s \in Prompts, Deciding(s)
    PROVE  /\ DropsAtMost
           /\ \A o \in Ops : /\ step[o] # "none" => step'[o] = step[o] /\ runner'[o] = runner[o]
                             /\ \/ step'[o] = step[o]
                                \/ o = s /\ step'[o] = "loop" /\ runner'[o] \in Clients
                             /\ kind'[o] = kind[o] \/ (o = s /\ kind'[o] = "turn")
           /\ \A u \in Prompts \ {s} : call'[u] = call[u]
           /\ \/ call'[s].step = "done" /\ call'[s].cli = Nobody
              \/ /\ call'[s].step \in {"dropping", "inbox", "waiting"}
                 /\ call'[s].self \in Clients /\ call'[s].cli = Nobody
                 /\ call'[s].step = "waiting" => call'[s].seen \in Prompts
                 /\ step'[s] = "none"
<1>t. CliTypes /\ OpTypes /\ CallTypes /\ CallInv
    BY TypeParts DEF IInv
<1>s. call[s].step # "done" /\ step[s] = "none" /\ s \in Ops
    BY <1>t, Names DEF Deciding, CallInv, Knows
<1>1. DropsAtMost
    BY <1>t, Drops DEF Deciding, cliVars, DropsAtMost
<1>2. ASSUME NEW c \in Clients, Launches(s, c)
      PROVE  \A o \in Ops : /\ o # s => step'[o] = step[o] /\ runner'[o] = runner[o] /\ kind'[o] = kind[o]
                            /\ o = s => step'[o] = "loop" /\ runner'[o] = c /\ kind'[o] = "turn"
    BY <1>t, <1>2 DEF Launches, Launch, To, OpTypes
<1>3. Returns(s) \/ WaitsOn(s) => UNCHANGED <<kind, runner, step>>
    BY DEF Returns, WaitsOn, launchVars
<1>4. Return(s) => /\ \A u \in Prompts \ {s} : call'[u] = call[u]
                   /\ call'[s].step = "done" /\ call'[s].cli = Nobody
    BY <1>t DEF Return, NoCall, CallTypes
<1>5. WaitsOn(s) => /\ \A u \in Prompts \ {s} : call'[u] = call[u]
                    /\ call'[s].step \in {"dropping", "inbox", "waiting"}
                    /\ call'[s].self \in Clients /\ call'[s].cli = Nobody
                    /\ call'[s].step = "waiting" => call'[s].seen \in Prompts
    BY <1>t DEF WaitsOn, Await, CallTypes
<1>6. CASE \E c \in Clients : Launches(s, c)
    BY <1>s, <1>1, <1>2, <1>4, <1>6 DEF Launches
<1>7. CASE Returns(s)
    BY <1>1, <1>3, <1>4, <1>7 DEF Returns
<1>8. CASE WaitsOn(s)
    BY <1>s, <1>1, <1>3, <1>5, <1>8
<1> QED
    BY <1>6, <1>7, <1>8 DEF Deciding, Decides

\* Both locks stay with the operation inside the region.
LEMMA LockInvStep == IInv /\ [Next]_vars => LockInv'
<1> SUFFICES ASSUME IInv, [Next]_vars PROVE LockInv'
    OBVIOUS
<1> USE DEF LockInv, OpTypes, LockTypes, Waits, Inside, WithCli, clientVars, cliVars,
           rowVars, opVars, lockVars, bufferVars, idleVars, launchVars
<1>t. LockInv /\ CallInv /\ OpTypes /\ LockTypes
    BY TypeParts DEF IInv
<1>1. ASSUME NEW s \in Prompts, Deciding(s) PROVE LockInv'
    BY <1>1, <1>t, DecidingEffect, Names DEF Deciding
<1>2. ASSUME NEW s \in Prompts, Querying(s) PROVE LockInv'
    BY <1>2, <1>t, Names DEF Querying, Query, Sends, Await, Lands, NoCall
<1>3. ASSUME NEW s \in Prompts, Interrupts(s) PROVE LockInv'
    BY <1>3, <1>t, Names DEF Interrupts, Await
<1>4. ASSUME NEW s \in Prompts, SteerSent(s) PROVE LockInv'
    BY <1>4, <1>t, Names DEF SteerSent, Return, NoCall
<1>5. ASSUME NEW o \in Ops, TakeLoopLock(o) PROVE LockInv'
    BY <1>5, <1>t, Names DEF TakeLoopLock, To
<1>6. ASSUME NEW o \in Ops, Uses(o) PROVE LockInv'
    BY <1>6, <1>t, Names DEF Uses, ClientFor, Disconnect, NoCli, To
<1>7. ASSUME NEW o \in Ops, ClientReady(o) PROVE LockInv'
    BY <1>7, <1>t, Names DEF ClientReady, Connects, To
<1>8. ASSUME NEW o \in Ops, SendPrompt(o) PROVE LockInv'
    BY <1>8, <1>t, Names DEF SendPrompt, Sends, To
<1>9. ASSUME NEW o \in Ops, Ends(o) PROVE LockInv'
    BY <1>9, <1>t, Names DEF Ends, Release, Disconnect, NoCli, To
<1>10. ASSUME NEW c \in Clients, Reads(c) PROVE LockInv'
    BY <1>10, <1>t, Names DEF Reads, To
<1>11. ASSUME NEW c \in Clients, CloseBegin(c) PROVE LockInv'
    BY <1>11, <1>t, Names DEF CloseBegin
<1>12. ASSUME NEW c \in Clients, CloseEnds(c) PROVE LockInv'
    BY <1>12, <1>t, Names DEF CloseEnds, DisconnectIf, Disconnect, NoCli
<1>13. ASSUME NEW c \in Clients, NEW what \in {"warm", "compact"}, UpkeepStart(c, what)
      PROVE  LockInv'
    BY <1>13, <1>t, Names DEF UpkeepStart, To
<1>14. CASE CancelTurn \/ ProgramExits \/ UNCHANGED vars
    BY <1>14, <1>t, Names DEF CancelTurn, ProgramExits, vars
<1> QED
    BY <1>1, <1>2, <1>3, <1>4, <1>5, <1>6, <1>7, <1>8, <1>9, <1>10, <1>11, <1>12, <1>13,
       <1>14, Actions DEF CallStep, OpStep, ClientStep

\* Calls keep what they know, and no CLI is connected twice by one operation.
LEMMA CallInvStep == IInv /\ [Next]_vars => CallInv'
<1> SUFFICES ASSUME IInv, [Next]_vars PROVE CallInv'
    OBVIOUS
<1> USE DEF CallInv, Knows, CliTypes, OpTypes, CallTypes, Inside, WithCli, Started,
           Connected, clientVars, cliVars, rowVars, opVars, lockVars, bufferVars, idleVars,
           launchVars
<1>t. LockInv /\ CallInv /\ CliTypes /\ OpTypes /\ CallTypes
    BY TypeParts DEF IInv
<1>1. ASSUME NEW s \in Prompts, Deciding(s) PROVE CallInv'
  <2>1. \A o \in Ops : step[o] \in Started => step'[o] \in Started
      BY <1>1, DecidingEffect
  <2>2. \A c \in Clients : cli'[c].by # Nobody => cli'[c] = cli[c]
      BY <1>1, DecidingEffect DEF DropsAtMost, NoCli
  <2>3. \A u \in Prompts \ {s} : call'[u] = call[u] /\ step'[u] = step[u]
      BY <1>1, DecidingEffect, Names
  <2>4. \A c \in Clients : cli'[c].by # Nobody => step'[cli'[c].by] \in Started
      BY <1>t, <2>1, <2>2
  <2>5. ASSUME NEW u \in Prompts \ {s} PROVE Knows(u)'
    <3>1. Knows(u) /\ (call[u].cli = Nobody \/ call[u].cli \in Ops)
        BY <1>t DEF CallRecord
    <3> QED
        BY <2>1, <2>3, <3>1
  <2>6. Knows(s)'
      BY <1>1, DecidingEffect
  <2> QED
      BY <2>4, <2>5, <2>6
<1>2. ASSUME NEW s \in Prompts, Querying(s) PROVE CallInv'
    BY <1>2, <1>t, Names DEF Querying, Query, Sends, Await, Lands, NoCall
<1>3. ASSUME NEW s \in Prompts, Interrupts(s) PROVE CallInv'
    BY <1>3, <1>t, Names DEF Interrupts, Await
<1>4. ASSUME NEW s \in Prompts, SteerSent(s) PROVE CallInv'
    BY <1>4, <1>t, Names DEF SteerSent, Return, NoCall
<1>5. ASSUME NEW o \in Ops, TakeLoopLock(o) PROVE CallInv'
    BY <1>5, <1>t, Names DEF TakeLoopLock, To
<1>6. ASSUME NEW o \in Ops, Uses(o) PROVE CallInv'
  <2>1. \A p \in Ops : p # o => step'[p] = step[p]
      BY <1>6, <1>t DEF Uses, ClientFor, To
  <2>2. step[o] \notin Started \cup {"none"}
      BY <1>6 DEF Uses
  <2>3. \A c \in Clients : cli'[c].by # Nobody => cli'[c] = cli[c]
      BY <1>6, <1>t DEF Uses, ClientFor, Disconnect, NoCli
  <2>4. UNCHANGED call
      BY <1>6 DEF Uses
  <2>5. \A c \in Clients : cli'[c].by # Nobody => step'[cli'[c].by] \in Started
      BY <1>t, <2>1, <2>2, <2>3
  <2>6. ASSUME NEW s \in Prompts PROVE Knows(s)'
    <3>1. step[s] = "none" => step'[s] = "none"
        BY <2>1, <2>2, Names
    <3>2. Knows(s) /\ (call[s].cli = Nobody \/ call[s].cli \in Ops)
        BY <1>t DEF CallRecord
    <3> QED
        BY <2>1, <2>2, <2>4, <3>1, <3>2
  <2> QED
      BY <2>5, <2>6
<1>7. ASSUME NEW o \in Ops, ClientReady(o) PROVE CallInv'
    BY <1>7, <1>t, Names DEF ClientReady, Connects, To
<1>8. ASSUME NEW o \in Ops, SendPrompt(o) PROVE CallInv'
    BY <1>8, <1>t, Names DEF SendPrompt, Sends, To
<1>9. ASSUME NEW o \in Ops, Ends(o) PROVE CallInv'
    BY <1>9, <1>t, Names DEF Ends, Release, Disconnect, NoCli, To
<1>10. ASSUME NEW c \in Clients, Reads(c) PROVE CallInv'
    BY <1>10, <1>t, Names DEF Reads, To
<1>11. ASSUME NEW c \in Clients, CloseBegin(c) PROVE CallInv'
    BY <1>11, <1>t, Names DEF CloseBegin
<1>12. ASSUME NEW c \in Clients, CloseEnds(c) PROVE CallInv'
    BY <1>12, <1>t, Names DEF CloseEnds, DisconnectIf, Disconnect, NoCli
<1>13. ASSUME NEW c \in Clients, NEW what \in {"warm", "compact"}, UpkeepStart(c, what)
      PROVE  CallInv'
    BY <1>13, <1>t, Names DEF UpkeepStart, To
<1>14. CASE CancelTurn \/ ProgramExits \/ UNCHANGED vars
    BY <1>14, <1>t, Names DEF CancelTurn, ProgramExits, vars
<1> QED
    BY <1>1, <1>2, <1>3, <1>4, <1>5, <1>6, <1>7, <1>8, <1>9, <1>10, <1>11, <1>12, <1>13,
       <1>14, Actions DEF CallStep, OpStep, ClientStep

\* Whatever ends with a closed client disconnects its CLI.
LEMMA LateInvStep == IInv /\ [Next]_vars => LateInv'
<1> SUFFICES ASSUME IInv, [Next]_vars PROVE LateInv'
    OBVIOUS
<1> USE DEF LateInv, CliTypes, OpTypes, OtherTypes, Inside, WithCli, clientVars, cliVars,
           rowVars, opVars, lockVars, bufferVars, idleVars, launchVars
<1>t. LockInv /\ CallInv /\ LateInv /\ CliTypes /\ OpTypes /\ OtherTypes
    BY TypeParts DEF IInv
<1>1. ASSUME NEW s \in Prompts, Deciding(s) PROVE LateInv'
    BY <1>1, <1>t, DecidingEffect, Names DEF Deciding, DropsAtMost, NoCli
<1>2. ASSUME NEW s \in Prompts, Querying(s) PROVE LateInv'
    BY <1>2, <1>t, Names DEF Querying, Query, Sends, Await, Lands, NoCall
<1>3. ASSUME NEW s \in Prompts, Interrupts(s) PROVE LateInv'
    BY <1>3, <1>t, Names DEF Interrupts, Await
<1>4. ASSUME NEW s \in Prompts, SteerSent(s) PROVE LateInv'
    BY <1>4, <1>t, Names DEF SteerSent, Return, NoCall
<1>5. ASSUME NEW o \in Ops, TakeLoopLock(o) PROVE LateInv'
    BY <1>5, <1>t, Names DEF TakeLoopLock, To
<1>6. ASSUME NEW o \in Ops, Uses(o) PROVE LateInv'
    BY <1>6, <1>t, Names DEF Uses, ClientFor, Disconnect, NoCli, To
<1>7. ASSUME NEW o \in Ops, ClientReady(o) PROVE LateInv'
    BY <1>7, <1>t, Names DEF ClientReady, Connects, To
<1>8. ASSUME NEW o \in Ops, SendPrompt(o) PROVE LateInv'
    BY <1>8, <1>t, Names DEF SendPrompt, Sends, To
<1>9. ASSUME NEW o \in Ops, Ends(o) PROVE LateInv'
    BY <1>9, <1>t, Names DEF Ends, Release, Disconnect, NoCli, To
<1>10. ASSUME NEW c \in Clients, Reads(c) PROVE LateInv'
    BY <1>10, <1>t, Names DEF Reads, To
<1>11. ASSUME NEW c \in Clients, CloseBegin(c) PROVE LateInv'
    BY <1>11, <1>t, Names DEF CloseBegin
<1>12. ASSUME NEW c \in Clients, CloseEnds(c) PROVE LateInv'
    BY <1>12, <1>t, Names DEF CloseEnds, DisconnectIf, Disconnect, NoCli
<1>13. ASSUME NEW c \in Clients, NEW what \in {"warm", "compact"}, UpkeepStart(c, what)
      PROVE  LateInv'
    BY <1>13, <1>t, Names DEF UpkeepStart, To
<1>14. CASE CancelTurn \/ ProgramExits \/ UNCHANGED vars
    BY <1>14, <1>t, Names DEF CancelTurn, ProgramExits, vars
<1> QED
    BY <1>1, <1>2, <1>3, <1>4, <1>5, <1>6, <1>7, <1>8, <1>9, <1>10, <1>11, <1>12, <1>13,
       <1>14, Actions DEF CallStep, OpStep, ClientStep

\* A step that leaves the row alone and lets nothing new into the region keeps LeafInv: CLIs go
\* or stay as they are, and a steer that is still on its way keeps the turn it joins.
Keeps ==
    /\ UNCHANGED <<leaf, forked, crossed, seenLeaf>>
    /\ \A c \in Clients : cli'[c].by # Nobody =>
          cli'[c].by = cli[c].by /\ (c \in current => c \in current')
    /\ \A o \in Ops : step'[o] \in {"read"} \cup WithCli =>
          step'[o] = step[o] /\ runner'[o] = runner[o]
    /\ \A s \in Prompts : call'[s].step = "sent" /\ cli'[call'[s].self].by = call'[s].cli =>
          /\ call'[s] = call[s]
          /\ \A a \in Prompts : step[a] = "running" /\ runner[a] = call[s].self =>
                step'[a] = "running" /\ runner'[a] = runner[a]

LEMMA KeepsLeafInv == IInv /\ Keeps => LeafInv'
<1> SUFFICES ASSUME IInv, Keeps PROVE LeafInv'
    OBVIOUS
<1> USE DEF LeafInv, Connected, OwnsLeaf
<1>i. /\ LeafInv
      /\ \A s \in Prompts : call[s].step = "sent" => call[s].self \in Clients /\ call[s].cli # Nobody
    BY DEF IInv, CallInv, Knows
<1>1. (\A c \in Clients : Connected(c) => leaf # Nobody)' /\ ~forked'
    BY <1>i DEF Keeps
<1>2. ASSUME ~crossed PROVE \A c \in Clients : leaf' = c /\ cli'[c].by # Nobody => c \in current'
    BY <1>i, <1>2 DEF Keeps
<1>3. ASSUME ~crossed, NEW c \in Clients, step'[c] = "read"
      PROVE  /\ cli'[c].by # Nobody /\ seenLeaf'[c] \in {Nobody, c} => c \in current'
             /\ \A d \in Clients : leaf' = d /\ cli'[d].by # Nobody => seenLeaf'[c] = d
  <2>1. step[c] = "read"
      BY <1>3, Names DEF Keeps
  <2> QED
      BY <1>i, <1>3, <2>1 DEF Keeps
<1>4. ASSUME ~crossed, NEW o \in Ops, step'[o] \in WithCli
      PROVE  /\ cli'[runner'[o]].by # Nobody => runner'[o] \in current'
             /\ \A d \in Clients : leaf' = d /\ cli'[d].by # Nobody => runner'[o] = d
  <2>1. step[o] \in WithCli /\ runner'[o] = runner[o] /\ runner[o] \in Clients
      BY <1>4 DEF Keeps, IInv, LockInv, WithCli, Waits
  <2> QED
      BY <1>i, <1>4, <2>1 DEF Keeps
<1>5. ASSUME ~crossed, NEW s \in Prompts, call'[s].step = "sent",
             cli'[call'[s].self].by = call'[s].cli
      PROVE  \E a \in Prompts : step'[a] = "running" /\ runner'[a] = call'[s].self
  <2>1. call'[s] = call[s]
      BY <1>5 DEF Keeps
  <2>2. cli[call[s].self].by = call[s].cli
      BY <1>i, <1>5, <2>1 DEF Keeps
  <2>3. PICK a \in Prompts : step[a] = "running" /\ runner[a] = call[s].self
      BY <1>i, <1>5, <2>1, <2>2
  <2> QED
      BY <1>5, <2>1, <2>3 DEF Keeps
<1> QED
    BY <1>1, <1>2, <1>3, <1>4, <1>5 DEF Keeps

\* Only the operation inside the region sends, and the row names no CLI that is behind.
LEMMA LeafInvStep == IInv /\ [Next]_vars => LeafInv'
<1> SUFFICES ASSUME IInv, [Next]_vars PROVE LeafInv'
    OBVIOUS
<1> USE DEF clientVars, cliVars, rowVars, opVars, lockVars, bufferVars, idleVars, launchVars
<1>t. CliTypes /\ RowTypes /\ OpTypes /\ LockTypes /\ BufferTypes /\ CallTypes /\ OtherTypes
    BY TypeParts DEF IInv
<1>l. LeafInv /\ LockInv /\ CallInv
    BY DEF IInv
\* Whatever else is inside the region is the operation that holds its flock.
<1>f. ASSUME NEW o \in Ops, flock \in {Nobody, o}, NEW p \in Ops, step[p] \in Inside
      PROVE  p = o
    BY <1>f, <1>l, Names DEF LockInv
<1>d. DropsAtMost => \A c \in Clients : cli'[c].by # Nobody =>
                        cli'[c].by = cli[c].by /\ (c \in current => c \in current')
    BY DEF DropsAtMost, NoCli
<1>1. ASSUME NEW s \in Prompts, Deciding(s) PROVE LeafInv'
  <2>1. \A o \in Ops : step'[o] \in {"read"} \cup WithCli => step'[o] = step[o] /\ step[o] # "none"
      BY <1>1, DecidingEffect DEF WithCli
  <2>2. \A u \in Prompts : call'[u].step = "sent" => call'[u] = call[u]
      BY <1>1, DecidingEffect
  <2>3. \A a \in Prompts : step[a] = "running" => step'[a] = step[a] /\ runner'[a] = runner[a]
      BY <1>1, DecidingEffect, Names
  <2> QED
      BY <1>1, <1>d, <2>1, <2>2, <2>3, DecidingEffect, KeepsLeafInv DEF Deciding, Keeps
<1>2. ASSUME NEW s \in Prompts, Querying(s) PROVE LeafInv'
  <2>1. PICK c \in Clients, a \in Prompts : Connected(c) /\ Query(s, c, a)
      BY <1>2 DEF Querying
  <2>2. UNCHANGED <<cli, leaf, seenLeaf, runner, step>>
      BY <1>2 DEF Querying
  <2>3. forked' = (forked \/ (~crossed' /\ c \notin current)) /\ current' = {c}
      BY <2>1 DEF Query, Sends
  <2>4. crossed' = (crossed \/ runner[a] # c \/ step[a] # "running")
      BY <2>1 DEF Query
  <2>5. CASE crossed'
      BY <1>l, <2>2, <2>3, <2>5 DEF LeafInv, Connected
  <2>6. CASE ~crossed'
    <3>1. ~crossed /\ runner[a] = c /\ step[a] = "running" /\ a \in Ops
        BY <2>4, <2>6, Names
    <3>2. c \in current
        BY <1>l, <2>1, <3>1 DEF LeafInv, WithCli
    <3>3. ~forked'
        BY <1>l, <2>3, <3>2 DEF LeafInv
    <3>4. \A d \in Clients : leaf = d /\ Connected(d) => c = d
        BY <1>l, <3>1 DEF LeafInv, WithCli
    <3>5. \A p \in Ops : step[p] \in Inside => p = a
        BY <1>f, <1>l, <3>1 DEF LockInv, Inside, WithCli
    <3>6. \A u \in Prompts : call'[u].step = "sent" => u = s \/ call'[u] = call[u]
        BY <1>t, <2>1 DEF Query, Await, CallTypes
    <3>7. call'[s].self = c
        BY <1>t, <2>1 DEF Query, Await, CallTypes, NoCall
    <3>8. \A u \in Prompts : call'[u].step = "sent" /\ cli'[call'[u].self].by = call'[u].cli =>
              \E b \in Prompts : step'[b] = "running" /\ runner'[b] = call'[u].self
        BY <1>l, <2>2, <3>1, <3>6, <3>7 DEF LeafInv
    <3>9. \A p \in Clients : step'[p] # "read"
        BY <2>2, <3>1, <3>5, Names DEF Inside
    <3>10. \A o \in Ops : step'[o] \in WithCli => runner'[o] = c
        BY <2>2, <3>1, <3>5 DEF Inside
    <3> QED
        BY <1>l, <2>2, <2>3, <3>3, <3>4, <3>8, <3>9, <3>10 DEF LeafInv, Connected
  <2> QED
      BY <2>5, <2>6
<1>3. ASSUME NEW s \in Prompts, Interrupts(s) PROVE LeafInv'
  <2>1. \A u \in Prompts : call'[u].step = "sent" => call'[u] = call[u]
      BY <1>3, <1>t DEF Interrupts, Await, CallTypes, CallRecord
  <2> QED
      BY <1>3, <2>1, KeepsLeafInv DEF Interrupts, Keeps
<1>4. ASSUME NEW s \in Prompts, SteerSent(s) PROVE LeafInv'
  <2> DEFINE x == call[s].self
  <2>1. \A u \in Prompts : call'[u].step = "sent" => call'[u] = call[u]
      BY <1>4, <1>t DEF SteerSent, Return, NoCall, CallTypes
  <2>2. x \in Clients /\ call[s].step = "sent" /\ call[s].cli # Nobody
      BY <1>4, <1>l DEF SteerSent, CallInv, Knows
  <2>3. CASE leaf' = leaf
      BY <1>4, <2>1, <2>3, KeepsLeafInv DEF SteerSent, Keeps
  <2>4. UNCHANGED <<cli, current, seenLeaf, runner, step, forked, crossed>>
      BY <1>4 DEF SteerSent
  <2>5. CASE leaf' = x /\ cli[x].by = Nobody
      BY <1>l, <2>1, <2>2, <2>4, <2>5, Names DEF LeafInv, Connected
  <2>6. CASE leaf' = x /\ cli[x].by = call[s].cli
    <3>1. CASE crossed
        BY <1>l, <2>2, <2>4, <2>6, <3>1, Names DEF LeafInv, Connected
    <3>2. CASE ~crossed
      <4>1. PICK a \in Prompts : step[a] = "running" /\ runner[a] = x
          BY <1>l, <2>2, <2>6, <3>2 DEF LeafInv
      <4>2. a \in Ops /\ x \in current
          BY <1>l, <2>2, <2>6, <3>2, <4>1, Names DEF LeafInv, WithCli, Connected
      <4>3. \A p \in Ops : step[p] \in Inside => p = a
          BY <1>f, <1>l, <4>1, <4>2 DEF LockInv, Inside, WithCli
      <4>4. \A p \in Clients : step[p] # "read"
          BY <4>1, <4>3, Names DEF Inside
      <4>5. \A o \in Ops : step[o] \in WithCli => runner[o] = x
          BY <4>1, <4>3 DEF Inside
      <4> QED
          BY <1>l, <2>1, <2>2, <2>4, <2>6, <3>2, <4>2, <4>4, <4>5, Names DEF LeafInv, Connected
    <3> QED
        BY <3>1, <3>2
  <2> QED
      BY <1>4, <2>3, <2>5, <2>6 DEF SteerSent
<1>5. ASSUME NEW o \in Ops, TakeLoopLock(o) PROVE LeafInv'
  <2>1. \A p \in Ops : step'[p] = step[p] \/ step'[p] = "flock"
      BY <1>5, <1>t DEF TakeLoopLock, To, OpTypes
  <2>2. \A p \in Ops : step'[p] \in {"read"} \cup WithCli => step'[p] = step[p]
      BY <2>1 DEF WithCli
  <2>3. \A a \in Prompts : step[a] = "running" => step'[a] = step[a]
      BY <1>5, <1>t, Names DEF TakeLoopLock, To, OpTypes
  <2> QED
      BY <1>5, <2>2, <2>3, KeepsLeafInv DEF TakeLoopLock, Keeps
<1>6. ASSUME NEW o \in Ops, Uses(o) PROVE LeafInv'
  <2> DEFINE c == runner[o]
             l == IF step[o] = "flock" THEN leaf ELSE seenLeaf[o]
  <2>1. c \in Clients /\ step[o] \in {"flock", "read"}
      BY <1>6, <1>l DEF Uses, LockInv, Waits
  <2>2. \A p \in Ops : step[p] \in Inside => p = o
    <3>1. flock \in {Nobody, o}
        BY <1>6, <1>l DEF Uses, LockInv, Inside
    <3> QED
        BY <1>f, <3>1
  <2>3. ClientFor(o, l) /\ UNCHANGED <<seenLeaf, runner, call, forked, crossed>>
      BY <1>6 DEF Uses
  <2>4. \A a \in Prompts : step[a] # "running"
      BY <2>1, <2>2, Names DEF Inside, WithCli
  <2>5. CASE Disconnect(c) /\ leaf' = leaf /\ To(o, "connecting")
    <3>1. \A p \in Ops : step'[p] = IF p = o THEN "connecting" ELSE step[p]
        BY <1>t, <2>5 DEF To, OpTypes
    <3>2. \A p \in Ops : step'[p] \in {"read"} \cup WithCli => step'[p] = step[p]
        BY <3>1 DEF WithCli
    <3> QED
        BY <1>d, <2>1, <2>3, <2>4, <2>5, <3>2, Drops, KeepsLeafInv DEF Keeps
  <2>6. CASE Connected(c) /\ OwnsLeaf(c, l) /\ UNCHANGED cliVars /\ leaf' \in {leaf, c}
             /\ (To(o, "connected") \/ To(o, "setting"))
             /\ (leaf' = leaf => To(o, "setting") \/ leaf = c)
    <3>1. \A p \in Ops : step'[p] = IF p = o THEN step'[o] ELSE step[p]
        BY <1>t, <2>6 DEF To, OpTypes
    <3>2. step'[o] \in {"connected", "setting"}
        BY <1>t, <2>6 DEF To, OpTypes
    <3>3. /\ ~crossed => c \in current
          /\ ~crossed => \A d \in Clients : leaf = d /\ Connected(d) => c = d
      <4>1. CASE step[o] = "flock"
          BY <1>l, <2>1, <2>6, <4>1 DEF LeafInv, OwnsLeaf
      <4>2. CASE step[o] = "read"
        <5>1. o \in Clients
            BY <1>6, <4>2 DEF Uses
        <5>2. c = o
            BY <1>l, <4>2, <5>1 DEF LockInv, Waits
        <5> QED
            BY <1>l, <2>1, <2>6, <4>2, <5>1, <5>2, Names DEF LeafInv, OwnsLeaf
      <4> QED
          BY <2>1, <4>1, <4>2
    <3>4. \A d \in Clients : leaf' = d /\ Connected(d) /\ ~crossed => c = d
        BY <2>6, <3>3
    <3>5. \A p \in Clients : step'[p] # "read"
        BY <2>2, <3>1, <3>2, Names DEF Inside
    <3>6. \A p \in Ops : step'[p] \in WithCli => p = o
        BY <2>2, <3>1 DEF Inside
    <3>7. leaf' # Nobody \/ \A d \in Clients : ~Connected(d)
        BY <1>l, <2>1, <2>6, Names DEF LeafInv
    <3> QED
        BY <1>l, <2>3, <2>4, <2>6, <3>3, <3>4, <3>5, <3>6, <3>7 DEF LeafInv, Connected
  <2> QED
      BY <2>3, <2>5, <2>6 DEF ClientFor
<1>7. ASSUME NEW o \in Ops, ClientReady(o) PROVE LeafInv'
  <2> DEFINE c == runner[o]
  <2>1. c \in Clients /\ step[o] \in {"connecting", "setting"} /\ leaf' = c
      BY <1>7, <1>l DEF ClientReady, Connects, LockInv, Waits
  <2>2. \A p \in Ops : step[p] \in Inside => p = o
      BY <1>f, <1>l, <2>1 DEF LockInv, Inside, WithCli
  <2>3. \A a \in Prompts : step[a] # "running"
      BY <2>1, <2>2, Names DEF Inside, WithCli
  <2>4. \A p \in Ops : step'[p] = IF p = o THEN "connected" ELSE step[p]
      BY <1>7, <1>t DEF ClientReady, To, OpTypes
  <2>5. \A p \in Clients : step'[p] # "read"
      BY <2>2, <2>4, Names DEF Inside
  <2>6. \A p \in Ops : step'[p] \in WithCli => p = o
      BY <2>2, <2>4 DEF Inside
  <2>7. UNCHANGED <<runner, call, seenLeaf, forked, crossed>>
      BY <1>7 DEF ClientReady
  <2>8. ~crossed /\ cli'[c].by # Nobody => c \in current'
    <3>1. CASE step[o] = "connecting"
        BY <1>7, <3>1 DEF ClientReady, Connects
    <3>2. CASE step[o] = "setting"
        BY <1>7, <1>l, <3>2 DEF ClientReady, LeafInv, WithCli, Connected
    <3> QED
        BY <2>1, <3>1, <3>2
  <2>9. \A s \in Prompts : ~crossed /\ call[s].step = "sent" => cli'[call[s].self].by # call[s].cli
    <3>1. CASE step[o] = "connecting"
      <4>1. \A d \in Clients : cli'[d].by = IF d = c THEN o ELSE cli[d].by
          BY <1>7, <1>t, <2>1, <3>1 DEF ClientReady, Connects, CliTypes
      <4>2. \A s \in Prompts : call[s].step = "sent" => call[s].self \in Clients /\ call[s].cli # o
          BY <1>l, <3>1 DEF CallInv, Knows, Started
      <4> QED
          BY <1>l, <2>3, <4>1, <4>2 DEF LeafInv
    <3>2. CASE step[o] = "setting"
        BY <1>7, <1>l, <2>3, <3>2 DEF ClientReady, LeafInv
    <3> QED
        BY <2>1, <3>1, <3>2
  <2> QED
      BY <1>l, <2>1, <2>5, <2>6, <2>7, <2>8, <2>9, Names DEF LeafInv, Connected
<1>8. ASSUME NEW o \in Ops, SendPrompt(o) PROVE LeafInv'
  <2> DEFINE c == runner[o]
  <2>1. step[o] = "connected" /\ Connected(c) /\ current' = {c} /\ c \in Clients
      BY <1>8, <1>l DEF SendPrompt, Sends, LockInv, Waits
  <2>2. forked' = (forked \/ (~crossed /\ c \notin current))
      BY <1>8 DEF SendPrompt, Sends
  <2>3. \A p \in Ops : step[p] \in Inside => p = o
      BY <1>f, <1>l, <2>1 DEF LockInv, Inside, WithCli
  <2>4. \A p \in Ops : step'[p] = IF p = o THEN "running" ELSE step[p]
      BY <1>8, <1>t DEF SendPrompt, To, OpTypes
  <2>5. \A p \in Clients : step'[p] # "read"
      BY <2>3, <2>4, Names DEF Inside
  <2>6. \A p \in Ops : step'[p] \in WithCli => p = o
      BY <2>3, <2>4 DEF Inside
  <2>7. UNCHANGED <<cli, leaf, runner, call, seenLeaf, crossed>>
      BY <1>8 DEF SendPrompt
  <2>8. ~crossed => c \in current /\ \A d \in Clients : leaf = d /\ Connected(d) => c = d
      BY <1>l, <2>1 DEF LeafInv, WithCli
  <2>9. \A s \in Prompts : ~crossed /\ call[s].step = "sent" => cli[call[s].self].by # call[s].cli
      BY <1>l, <2>1, <2>3, Names DEF LeafInv, Inside, WithCli
  <2>10. ~forked'
      BY <1>l, <2>2, <2>8 DEF LeafInv
  <2> QED
      BY <1>l, <2>1, <2>5, <2>6, <2>7, <2>8, <2>9, <2>10 DEF LeafInv, Connected
<1>9. ASSUME NEW o \in Ops, Ends(o) PROVE LeafInv'
  <2> DEFINE c == runner[o]
  <2>1. c \in Clients
      BY <1>9, <1>l DEF Ends, LockInv, Inside, WithCli, Waits
  <2>2. \A p \in Ops : p # o => step'[p] = step[p] /\ runner'[p] = runner[p]
      BY <1>9, <1>t DEF Ends, Release, To, OpTypes
  <2>3. step'[o] = "done"
      BY <1>9, <1>t DEF Ends, Release, To, OpTypes
  <2>4. \A p \in Ops : step'[p] \in {"read"} \cup WithCli => p # o
      BY <2>3 DEF WithCli
  <2>5. Disconnect(c) => cli'[c].by = Nobody
      BY <1>t, <2>1 DEF Disconnect, NoCli, CliTypes
  <2>6. ASSUME NEW s \in Prompts, call[s].step = "sent", cli'[call[s].self].by = call[s].cli,
               NEW a \in Prompts, step[a] = "running", runner[a] = call[s].self
        PROVE  a # o
      BY <1>9, <1>l, <2>5, <2>6 DEF Ends, CallInv, Knows
  <2>7. UNCHANGED <<call, leaf, forked, crossed, seenLeaf>>
      BY <1>9 DEF Ends
  <2>8. \A d \in Clients : cli'[d].by # Nobody =>
            cli'[d].by = cli[d].by /\ (d \in current => d \in current')
      BY <1>9, <1>d, <2>1, Drops DEF Ends
  <2> QED
      BY <2>2, <2>4, <2>6, <2>7, <2>8, KeepsLeafInv, Names DEF Keeps
<1>10. ASSUME NEW c \in Clients, Reads(c) PROVE LeafInv'
  <2>1. \A p \in Ops : step[p] \notin Inside
      BY <1>10, <1>l, Names DEF Reads, LockInv
  <2>2. \A p \in Ops : step'[p] = IF p = c THEN "read" ELSE step[p]
      BY <1>10, <1>t, Names DEF Reads, To, OpTypes
  <2>3. seenLeaf'[c] = leaf
      BY <1>10, <1>t DEF Reads, OpTypes
  <2>4. \A p \in Clients : step'[p] = "read" => p = c
      BY <2>1, <2>2, Names DEF Inside
  <2>5. \A p \in Ops : step'[p] \notin WithCli
      BY <2>1, <2>2 DEF Inside, WithCli
  <2>6. \A a \in Prompts : step[a] # "running"
      BY <2>1, Names DEF Inside, WithCli
  <2>7. UNCHANGED <<cli, current, leaf, runner, call, forked, crossed>>
      BY <1>10 DEF Reads
  <2> QED
      BY <1>l, <2>3, <2>4, <2>5, <2>6, <2>7 DEF LeafInv, Connected, OwnsLeaf
<1>11. ASSUME NEW c \in Clients, CloseBegin(c) PROVE LeafInv'
    BY <1>11, KeepsLeafInv DEF CloseBegin, Keeps
<1>12. ASSUME NEW c \in Clients, CloseEnds(c) PROVE LeafInv'
  <2>1. UNCHANGED cliVars \/ Disconnect(c)
      BY <1>12 DEF CloseEnds, DisconnectIf
  <2> QED
      BY <1>12, <1>d, <2>1, Drops, KeepsLeafInv DEF CloseEnds, Keeps
<1>13. ASSUME NEW c \in Clients, NEW what \in {"warm", "compact"}, UpkeepStart(c, what)
       PROVE  LeafInv'
  <2>1. \A p \in Ops : step'[p] \in {"read"} \cup WithCli => p # c
      BY <1>13, <1>t, Names DEF UpkeepStart, To, OpTypes, WithCli
  <2>2. \A p \in Ops : p # c => step'[p] = step[p] /\ runner'[p] = runner[p]
      BY <1>13, <1>t, Names DEF UpkeepStart, To, OpTypes
  <2>3. \A a \in Prompts : a \in Ops /\ a # c
      BY Names
  <2>4. UNCHANGED <<leaf, forked, crossed, seenLeaf, cli, current, call>>
      BY <1>13 DEF UpkeepStart
  <2> QED
      BY <2>1, <2>2, <2>3, <2>4, KeepsLeafInv DEF Keeps
<1>14. CASE CancelTurn \/ ProgramExits \/ UNCHANGED vars
    BY <1>14, KeepsLeafInv DEF CancelTurn, ProgramExits, vars, Keeps
<1> QED
    BY <1>1, <1>2, <1>3, <1>4, <1>5, <1>6, <1>7, <1>8, <1>9, <1>10, <1>11, <1>12, <1>13,
       <1>14, Actions
    DEF CallStep, OpStep, ClientStep

-----------------------------------------------------------------------------
(* Theorems.                                                               *)

\* The inductive invariant holds.
THEOREM Invariance == Spec => []IInv
<1>1. IInv /\ [Next]_vars => IInv'
    BY TypeInvStep, LockInvStep, CallInvStep, LateInvStep, LeafInvStep DEF IInv
<1> QED
    BY InitIInv, <1>1, PTL DEF Spec

\* No client's prompt forks the conversation, unless a steer was sent to a CLI that no turn was
\* reading (claude_sdk.py:1456).
THEOREM NoUnexplainedFork == Spec => []ForksAreExplained
<1>1. IInv => ForksAreExplained
    BY DEF IInv, LeafInv, ForksAreExplained
<1> QED
    BY Invariance, <1>1, PTL

\* A CLI connected after its client closed goes with the client's last operation
\* (claude_sdk.py:379).
THEOREM LateClisGo == Spec => []NoCliOutlivesClose
<1>1. ASSUME IInv PROVE NoCliOutlivesClose
  <2> SUFFICES ASSUME NEW c \in closed, cli[c].late PROVE InFlight(c)
      BY DEF NoCliOutlivesClose
  <2>1. c \in Clients
      BY <1>1 DEF IInv, TypeInv, TypeOK
  <2>2. PICK o \in Ops : runner[o] = c /\ step[o] \in {"connected", "running"}
      BY <1>1, <2>1 DEF IInv, LateInv
  <2> QED
      BY <2>2 DEF InFlight, Waits
<1> QED
    BY Invariance, <1>1, PTL

\* Every prompt lands in one place at most (claude_sdk.py:589).
THEOREM PromptsLand == Spec => []PromptsLandOnce
<1>1. IInv => PromptsLandOnce
    BY DEF IInv, TypeInv, PromptsLandOnce
<1> QED
    BY Invariance, <1>1, PTL
=============================================================================
