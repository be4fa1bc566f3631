-------------------------- MODULE CodexGate_proofs --------------------------
(***************************************************************************)
(* TLAPS proof that the gate of CodexTurns tells the truth once nothing is *)
(* under way, for any number of turns, prompts, lost connections and late  *)
(* answers.                                                                *)
(*                                                                         *)
(* While nothing is known to be lost, what the client believes of the      *)
(* newest turn and what is on its way to it add up to what is true at the  *)
(* server.  Honest says how: what an answer under way says is still so     *)
(* (AnswerInv, ReadInv, StartInv), a start is announced before anything    *)
(* else of the turn (FirstInv, OldNotesInv), an answer that overtakes it   *)
(* finds nothing left to merge (LateReadInv, LateAnswerInv), the record    *)
(* names a running turn or will once the merges have run (SeenInv,         *)
(* UnseenInv), and a turn that is over was reported, will be, or has       *)
(* nothing under way that contradicts its end (OverInv).  One lemma per    *)
(* action shows that its step keeps Honest.                                *)
(***************************************************************************)
EXTENDS CodexTurns_proofs

-----------------------------------------------------------------------------
(* What the client has yet to hear.                                        *)

Named == Turns \cup {NoTurn}

\* The notifications on the wire, and the turn each is about.
Notes == {i \in DOMAIN wire : wire[i].kind # "reply"}
TurnOf(m) == IF m.kind \in {"started", "item"} THEN m.what ELSE m.what.turn

\* The notification of the newest turn's start, and what comes with or after it.
Tells(i) == wire[i].kind = "started" /\ wire[i].what = Latest
Announced(i) == \E j \in DOMAIN wire : j <= i /\ Tells(j)

\* Call k was answered: turn t, value v.  The coroutine has the answer, or it is on its way.
Told(k, t, v) ==
    \/ call[k].pc = "ready" /\ call[k].turn = t /\ call[k].val = v
    \/ \E i \in LiveReplies : wire[i].what.call = k /\ wire[i].what.turn = t /\ wire[i].what.val = v
Under(k, op) == call[k].pc # "none" /\ call[k].op = op

\* Of the newest turn: the client has not heard that it started; it runs.
Unseen == Latest # NoTurn /\ tracked[Latest].status = "none"
Runs == Latest # NoTurn /\ srv[Latest] = "running"
Over(n) == srv[n] \in {"completed", "failed", "interrupted"}

-----------------------------------------------------------------------------
(* The inductive invariant, until a call about an older turn is under way. *)

\* Turns start in order and only the newest one runs; nobody speaks of turns to come.
OrderInv ==
    /\ \A t \in Turns : (srv[t] # "none" <=> t <= Latest) /\ (t < Latest => srv[t] # "running")
    /\ \A t \in Turns : tracked[t].status # "none" => t <= Latest
    /\ \A t \in Turns : tracked[t].status = "none" => ~tracked[t].finished /\ tracked[t].asks = {}
    /\ \A t \in missed : t <= Latest
    /\ \A i \in Notes : TurnOf(wire[i]) <= Latest

\* The record names one turn, and scheduled merges the turns the client has heard of.
RecordInv ==
    /\ session.active \in {NoTurn, session.last} /\ session.last <= Latest
    /\ session.last # NoTurn => session.status # "unknown"
    /\ \A j \in DOMAIN merges : merges[j] = OwnSummary \/
          \E t \in Turns, s \in Terminal \cup ActiveStatus :
             tracked[t].status # "none" /\ merges[j] = Patch(t, s)

\* What happens to the notifications of a lost connection.
LossInv ==
    /\ ~connected => Notes = {}
    /\ Latest \in missed => ~connected
    /\ Unseen /\ (\A i \in Notes : ~Tells(i)) => ~connected

\* How the record can name a turn whose start the client has not heard of.
NamedInv ==
    /\ Unseen /\ session.last = Latest => ~connected /\ merges = <<>>
    /\ Unseen => \A k \in {"progress", "cancel"} : call[k].pc # "none" => session.last = Latest
    /\ Unseen /\ Under("submit", "read") =>
          session.last # Latest /\ call["progress"].pc = "none" /\ call["cancel"].pc = "none"

\* Progress reads and cancellations are about the newest turn, and what they were told of it
\* is still so.
AnswerInv ==
    /\ \A k \in {"progress", "cancel"} :
          /\ call[k].pc # "none" => call[k].turn = Latest
          /\ \A t \in Named, v \in Values : Told(k, t, v) => t = Latest
    /\ \A t \in Named, v \in Values : Told("progress", t, v) /\ v # "error" =>
          v \in {"running", Normalized(srv[Latest])} /\ (Runs => v = "running")
    /\ \A t \in Named : Told("cancel", t, "ok") => ~Runs

\* So is what the read of a submission says.
ReadInv ==
    /\ \A r \in requests : r.call = "submit" /\ r.op = "read" => r.turn = NoTurn
    /\ Under("submit", "read") => \A t \in Named, v \in Values : Told("submit", t, v) /\ v # "error" =>
          /\ t <= Latest /\ v # "unknown" /\ (Runs => t = Latest /\ v = "running")
          /\ t = NoTurn => v = "completed"

\* A start that was answered started the newest turn, and no other start is on its way.
StartInv ==
    Under("submit", "start") => \A t \in Named, v \in Values : Told("submit", t, v) =>
        /\ t = NoTurn <=> v = "error"
        /\ t # NoTurn => /\ t = Latest /\ \A r \in requests : r.op # "start"
                         /\ Unseen => session.last # Latest

\* The start of a turn is announced before anything else is said of it, and once it was
\* answered, before anything is said at all.
AnsweredBefore(i) ==
    /\ Under("submit", "start")
    /\ \/ call["submit"].pc = "ready" /\ call["submit"].val # "error"
       \/ \E k \in LiveReplies : k < i /\ wire[k].what.call = "submit"
FirstInv ==
    Unseen => \A i \in Notes : TurnOf(wire[i]) = Latest \/ AnsweredBefore(i) => Announced(i)

\* Starts and questions of older turns come before the newest one's start.
OldNotesInv ==
    \A i \in Notes : wire[i].kind \in {"started", "ask"} /\ TurnOf(wire[i]) # Latest =>
        Unseen /\ ~Announced(i)

\* The read of a submission was answered after the newest turn had started; if the client
\* reads the answer first, the notification was lost.
LateReadInv ==
    Unseen /\ Under("submit", "read") =>
        \A i \in LiveReplies, j \in Notes : wire[i].what.call = "submit" /\ Tells(j) => j < i
LateAnswerInv ==
    Unseen /\ call["submit"].pc = "ready" /\ call["submit"].val # "error" /\ call["submit"].op # "steer" =>
        call["submit"].ahead = Len(merges) /\ (call["submit"].op = "read" => ~connected)

\* The client takes no running turn for one that is over.
RunningInv ==
    \A t \in Turns : srv[t] = "running" =>
        /\ tracked[t].status \in {"none"} \cup ActiveStatus /\ ~tracked[t].finished
        /\ \A i \in Notes : wire[i].kind = "ended" => TurnOf(wire[i]) # t

\* The record names the running turn, or will once the scheduled merges have run.
Names(s) == s.active = Latest /\ s.last = Latest /\ IsActive(s.status)
Sets(patch) == \E s \in ActiveStatus : patch = Patch(Latest, s)
Keeps(patch) == patch = OwnSummary \/ Sets(patch)
Converges ==
    \/ Names(session) /\ \A j \in DOMAIN merges : Keeps(merges[j])
    \/ \E i \in DOMAIN merges : Sets(merges[i]) /\ \A j \in DOMAIN merges : i < j => Keeps(merges[j])
SeenInv == Runs /\ ~Unseen => current = Latest /\ Converges
UnseenInv == Runs /\ Unseen /\ Latest \notin missed => (\E i \in Notes : Tells(i)) \/ Names(session)

\* A turn that is over was reported as such, will be, or its end came from a read that
\* nothing under way can contradict.
Settled(n) ==
    /\ tracked[n].status \in {"none"} \cup Terminal /\ tracked[n].asks = {}
    /\ \A i \in Notes : TurnOf(wire[i]) # n
    /\ n = Latest => \A v \in Values : Told("progress", n, v) => v \in Terminal \cup {"error"}
    /\ tracked[n].status = "none" =>
          /\ session.active # n /\ (session.last = n => ~IsActive(session.status))
          /\ \A v \in Terminal \cup {"ok", "running"} : Told("submit", n, v) =>
                Under("submit", "steer") \/ (Under("submit", "read") /\ v \in Terminal)
OverInv ==
    \A n \in Turns : Over(n) /\ n \notin missed =>
        \/ tracked[n].finished
        \/ \E i \in Notes : wire[i].kind = "ended" /\ TurnOf(wire[i]) = n
        \/ Settled(n)

Honest ==
    /\ OrderInv /\ RecordInv /\ LossInv /\ NamedInv
    /\ AnswerInv /\ ReadInv /\ StartInv
    /\ FirstInv /\ OldNotesInv /\ LateReadInv /\ LateAnswerInv
    /\ RunningInv /\ SeenInv /\ UnseenInv /\ OverInv

-----------------------------------------------------------------------------
(* Lemmas about what was told.                                             *)

LEMMA SameLatest ==
    ASSUME \A t \in Turns : (srv'[t] # "none") <=> (srv[t] # "none")
    PROVE  Latest' = Latest
<1>1. {t \in Turns : srv[t] # "none"}' = {t \in Turns : srv[t] # "none"}
    OBVIOUS
<1> QED
    BY <1>1 DEF Latest

\* The types of the wire and of the calls, as the steps below use them.
LEMMA Shape ==
    ASSUME IInv
    PROVE  /\ Latest \in Named /\ Latest \in Nat /\ NoTurn = 0 /\ Turns \subseteq Nat \ {0}
           /\ Len(wire) \in Nat /\ DOMAIN wire = 1..Len(wire)
           /\ \A i \in Notes : /\ i \in Nat /\ wire[i].kind \in {"started", "item", "ended", "ask"}
                               /\ TurnOf(wire[i]) \in Turns /\ TurnOf(wire[i]) \in Nat
                               /\ wire[i].kind = "started" => TurnOf(wire[i]) = wire[i].what
           /\ \A i \in LiveReplies : /\ i \in DOMAIN wire /\ i \in Nat /\ wire[i].kind = "reply"
                                     /\ wire[i].what.call \in Calls
                                     /\ wire[i].what.turn \in Named /\ wire[i].what.val \in Values
           /\ \A i \in DOMAIN wire : Tells(i) => i \in Notes
           /\ Len(merges) \in Nat /\ DOMAIN merges = 1..Len(merges)
           /\ \A t \in Turns : /\ tracked[t].status \in EntryStatuses
                               /\ tracked[t].finished \in BOOLEAN
                               /\ srv[t] \in ServerStates
           /\ \A k \in Calls : call[k].turn \in Named /\ call[k].val \in Values
<1>1. /\ Len(wire) \in Nat /\ DOMAIN wire = 1..Len(wire)
      /\ \A i \in DOMAIN wire : wire[i] \in Messages
      /\ \A i \in ReplyAt : /\ wire[i].what \in Replies /\ wire[i].what.call \in Calls
                            /\ wire[i].what.turn \in Turns \cup {NoTurn}
    BY WireShape, Parts
<1>2. MaxTurns \in Nat /\ NoTurn = 0 /\ Turns \subseteq Nat \ {0}
    BY TurnsAssumption DEF Turns, NoTurn
<1>3. Latest \in Named
    BY NewestTurns DEF Named
<1>4. ASSUME NEW i \in Notes
      PROVE  /\ i \in Nat /\ wire[i].kind \in {"started", "item", "ended", "ask"}
             /\ TurnOf(wire[i]) \in Turns
             /\ wire[i].kind = "started" => TurnOf(wire[i]) = wire[i].what
  <2>1. i \in DOMAIN wire /\ wire[i].kind # "reply" /\ wire[i] \in Messages
      BY <1>1 DEF Notes
  <2>2. wire[i] \in [kind : {"started", "item"}, what : Turns]
                    \cup [kind : {"ended"}, what : [turn : Turns, failed : BOOLEAN]]
                    \cup [kind : {"ask"}, what : [turn : Turns, ask : Asks]]
      BY <2>1 DEF Messages
  <2> QED
      BY <1>1, <2>1, <2>2 DEF TurnOf
<1>5. \A i \in LiveReplies : /\ i \in DOMAIN wire /\ i \in Nat /\ wire[i].kind = "reply"
                             /\ wire[i].what.call \in Calls
                             /\ wire[i].what.turn \in Named /\ wire[i].what.val \in Values
    BY <1>1 DEF LiveReplies, ReplyAt, Replies, Named
<1>6. \A i \in DOMAIN wire : Tells(i) => i \in Notes
    BY DEF Tells, Notes
<1>7. Len(merges) \in Nat /\ DOMAIN merges = 1..Len(merges)
    BY Parts, LenProperties DEF SessionTypes
<1>8. \A t \in Turns : /\ tracked[t].status \in EntryStatuses /\ tracked[t].finished \in BOOLEAN
                       /\ srv[t] \in ServerStates
    BY EntryFields, Parts DEF ServerTypes
<1>9. \A k \in Calls : call[k].turn \in Named /\ call[k].val \in Values
    BY CallFields, Parts DEF Named
<1>10. \A t \in Named : t \in Nat
    BY <1>2 DEF Named
<1>11. Latest \in Nat /\ \A i \in Notes : TurnOf(wire[i]) \in Nat
    BY <1>2, <1>3, <1>4, <1>10
<1> QED
    BY <1>1, <1>2, <1>3, <1>4, <1>5, <1>6, <1>7, <1>8, <1>9, <1>11

-----------------------------------------------------------------------------
(* Coroutines.                                                             *)

\* The coroutine of call k takes a step: it sends a request or is over.
Moves(k) ==
    /\ UNCHANGED <<srv, wire, connected, merges>>
    /\ \A j \in Calls \ {k} : call'[j] = call[j]
    /\ call'[k].pc # "ready"
    /\ \A i \in LiveReplies' : i \in LiveReplies /\ wire[i].what.call # k
    /\ \A r \in requests' : r \in requests \/ (r.call = k /\ r.op = call'[k].op /\ r.turn = call'[k].turn
                                               /\ call'[k].pc = "wait")

LEMMA SendMoves ==
    ASSUME IInv, IInv', NEW k \in Calls, NEW op, NEW t, NEW n, Request(k, op, t, n),
           UNCHANGED <<srv, wire, connected, merges>>
    PROVE  Moves(k) /\ call'[k].pc = "wait" /\ call'[k].op = op /\ call'[k].turn = t
<1> DEFINE x == [call |-> k, epoch |-> call[k].epoch, op |-> op, turn |-> t, prompt |-> n]
<1>1. call[k] \in CallRecords /\ call \in [Calls -> CallRecords]
    BY Parts DEF CallTypes
<1>2. /\ call'[k] = [call[k] EXCEPT !.pc = "wait", !.op = op, !.turn = t, !.prompt = n]
      /\ \A j \in Calls \ {k} : call'[j] = call[j]
      /\ requests' = requests \cup {x}
    BY <1>1 DEF Request
<1>3. /\ call'[k].pc = "wait" /\ call'[k].op = op /\ call'[k].turn = t
      /\ call'[k].epoch = call[k].epoch
    BY <1>1, <1>2 DEF CallRecords
<1>4. x \in LiveRequests'
    BY <1>2, <1>3 DEF LiveRequests
<1>5. ASSUME NEW i \in LiveReplies' PROVE i \in LiveReplies /\ wire[i].what.call # k
  <2>1. wire'[i].what.call # k
      BY <1>4, Parts DEF IInv, ReplyInv
  <2>2. wire' = wire /\ wire[i].what.call \in Calls
      BY WireShape, Parts DEF LiveReplies, ReplyAt
  <2>3. call'[wire[i].what.call] = call[wire[i].what.call]
      BY <1>2, <2>1, <2>2
  <2> QED
      BY <2>1, <2>2, <2>3 DEF LiveReplies, ReplyAt
<1> QED
    BY <1>2, <1>3, <1>5 DEF Moves

LEMMA EndMoves ==
    ASSUME IInv, IInv', NEW k \in Calls, NEW e,
           call' = [call EXCEPT ![k] = [NoCall EXCEPT !.epoch = e]],
           UNCHANGED <<srv, wire, connected, merges, requests>>
    PROVE  Moves(k) /\ call'[k].pc = "none"
<1>1. call \in [Calls -> CallRecords]
    BY Parts DEF CallTypes
<1>2. /\ call'[k] = [NoCall EXCEPT !.epoch = e] /\ \A j \in Calls \ {k} : call'[j] = call[j]
    BY <1>1
<1>3. call'[k].pc = "none"
    BY <1>2 DEF NoCall
<1>5. ASSUME NEW i \in LiveReplies' PROVE i \in LiveReplies /\ wire[i].what.call # k
  <2>1. call'[wire'[i].what.call].pc = "wait"
      BY DEF IInv, ReplyInv
  <2>2. wire' = wire /\ wire[i].what.call \in Calls
      BY WireShape, Parts DEF LiveReplies, ReplyAt
  <2>3. wire[i].what.call # k
      BY <1>3, <2>1, <2>2
  <2>4. call'[wire[i].what.call] = call[wire[i].what.call]
      BY <1>2, <2>2, <2>3
  <2> QED
      BY <2>2, <2>3, <2>4 DEF LiveReplies, ReplyAt
<1> QED
    BY <1>2, <1>3, <1>5 DEF Moves

\* What a step of a coroutine leaves alone.
LEMMA MoveFrame ==
    ASSUME IInv, IInv', NEW k \in Calls, Moves(k)
    PROVE  /\ Latest' = Latest /\ Notes' = Notes /\ Runs' = Runs
           /\ \A i \in DOMAIN wire : Tells(i)' = Tells(i) /\ Announced(i)' = Announced(i)
           /\ \A j \in Calls, t \in Named, v \in Values : Told(j, t, v)' => Told(j, t, v) /\ j # k
           /\ \A n \in Turns : Over(n)' = Over(n)
           /\ \A j \in Calls \ {k}, op \in Ops : Under(j, op)' = Under(j, op)
<1>1. Latest' = Latest /\ srv' = srv /\ wire' = wire
    BY SameLatest DEF Moves
<1>2. Notes' = Notes /\ Runs' = Runs
    BY <1>1 DEF Notes, Runs
<1>3. \A i \in DOMAIN wire : Tells(i)' = Tells(i)
    BY <1>1 DEF Tells
<1>4. \A i \in DOMAIN wire : Announced(i)' = Announced(i)
    BY <1>1, <1>3 DEF Announced
<1>5. ASSUME NEW j \in Calls, NEW t \in Named, NEW v \in Values, Told(j, t, v)'
      PROVE  Told(j, t, v) /\ j # k
  <2>1. CASE call'[j].pc = "ready" /\ call'[j].turn = t /\ call'[j].val = v
      BY <2>1 DEF Moves, Told
  <2>2. CASE \E i \in LiveReplies' : wire'[i].what.call = j /\ wire'[i].what.turn = t
                                     /\ wire'[i].what.val = v
      BY <1>1, <2>2 DEF Moves, Told
  <2> QED
      BY <1>5, <2>1, <2>2 DEF Told
<1>6. \A n \in Turns : Over(n)' = Over(n)
    BY <1>1 DEF Over
<1>7. \A j \in Calls \ {k}, op \in Ops : Under(j, op)' = Under(j, op)
    BY DEF Moves, Under
<1> QED
    BY <1>1, <1>2, <1>3, <1>4, <1>5, <1>6, <1>7

\* The parts of the invariant about the order of what is on the wire.
LEMMA MoveOrder ==
    ASSUME IInv, IInv', Honest, NEW k \in Calls, Moves(k), Unseen' => Unseen
    PROVE  /\ FirstInv' /\ LateReadInv' /\ LateAnswerInv'
           /\ (Unseen => Unseen') => OldNotesInv'
<1>1. /\ Latest' = Latest /\ Notes' = Notes /\ wire' = wire /\ merges' = merges
      /\ \A i \in DOMAIN wire : Tells(i)' = Tells(i) /\ Announced(i)' = Announced(i)
      /\ connected' = connected
    BY MoveFrame DEF Moves
<1>2. \A i \in Notes : i \in DOMAIN wire
    BY DEF Notes
<1>3. "submit" \in Calls
    BY DEF Calls
<1>4. \A i \in LiveReplies' : i \in LiveReplies /\ wire[i].what.call # k
    BY DEF Moves
<1>5. k # "submit" => call'["submit"] = call["submit"]
    BY <1>3 DEF Moves
<1>6. k = "submit" => call'["submit"].pc # "ready"
    BY DEF Moves
<1>7. FirstInv'
  <2>1. \A i \in Notes : AnsweredBefore(i)' => AnsweredBefore(i)
      BY <1>1, <1>4, <1>5, <1>6 DEF AnsweredBefore, Under
  <2> QED
      BY <1>1, <1>2, <2>1 DEF Honest, FirstInv
<1>8. LateReadInv'
    BY <1>1, <1>2, <1>4, <1>5 DEF Honest, LateReadInv, Under
<1>9. LateAnswerInv'
    BY <1>1, <1>5, <1>6 DEF Honest, LateAnswerInv
<1>10. (Unseen => Unseen') => OldNotesInv'
    BY <1>1, <1>2 DEF Honest, OldNotesInv
<1> QED
    BY <1>7, <1>8, <1>9, <1>10

\* What a step says of the turns that are over when memory and record stay.
LEMMA MoveSettled ==
    ASSUME IInv, IInv', Honest, NEW k \in Calls, Moves(k), UNCHANGED <<tracked, session, missed>>
    PROVE  OverInv'
<1> SUFFICES ASSUME NEW n \in Turns, Over(n)', n \notin missed'
             PROVE  \/ tracked'[n].finished
                    \/ \E i \in Notes' : wire'[i].kind = "ended" /\ TurnOf(wire[i])' = n
                    \/ Settled(n)'
    BY DEF OverInv
<1>1. /\ Latest' = Latest /\ Notes' = Notes /\ wire' = wire /\ Over(n)' = Over(n)
      /\ \A j \in Calls, t \in Named, v \in Values : Told(j, t, v)' => Told(j, t, v) /\ j # k
    BY MoveFrame DEF Moves
<1>2. \A i : TurnOf(wire[i])' = TurnOf(wire[i])
    BY <1>1 DEF TurnOf
<1>3. Terminal \cup {"ok", "running"} \subseteq Values /\ n \in Named /\ {"submit", "progress"} \subseteq Calls
    BY DEF Terminal, Values, Statuses, Named, Calls
<1>4. Settled(n) => Settled(n)'
  <2>1. k # "submit" => call'["submit"] = call["submit"]
      BY <1>3 DEF Moves
  <2>2. ASSUME Settled(n), NEW v \in Terminal \cup {"ok", "running"}, Told("submit", n, v)',
               tracked[n].status = "none"
        PROVE  Under("submit", "steer")' \/ (Under("submit", "read")' /\ v \in Terminal)
    <3>1. Told("submit", n, v) /\ k # "submit"
        BY <1>1, <1>3, <2>2
    <3> QED
        BY <2>1, <2>2, <3>1 DEF Settled, Under
  <2> QED
      BY <1>1, <1>2, <1>3, <2>2 DEF Settled
<1> QED
    BY <1>1, <1>2, <1>4 DEF Honest, OverInv

\* A coroutine that sends a request, or is over without having changed anything.
LEMMA QuietMove ==
    ASSUME IInv, IInv', Honest, NEW k \in Calls, Moves(k),
           UNCHANGED <<tracked, current, session, missed>>,
           call'[k].pc # "none" /\ k # "submit" =>
              call'[k].turn = Latest /\ (Unseen => session.last = Latest),
           Under("submit", "read")' /\ k = "submit" =>
              call'[k].turn = NoTurn /\ (Unseen => session.last # Latest)
    PROVE  Honest'
<1>1. /\ Latest' = Latest /\ Notes' = Notes /\ wire' = wire /\ merges' = merges /\ Runs' = Runs
      /\ connected' = connected /\ srv' = srv
      /\ \A i \in DOMAIN wire : Tells(i)' = Tells(i)
      /\ \A j \in Calls, t \in Named, v \in Values : Told(j, t, v)' => Told(j, t, v) /\ j # k
      /\ \A j \in Calls \ {k}, op \in Ops : Under(j, op)' = Under(j, op)
    BY MoveFrame DEF Moves
<1>2. Unseen' = Unseen
    BY <1>1 DEF Unseen
<1>3. \A i \in Notes : i \in DOMAIN wire /\ TurnOf(wire[i])' = TurnOf(wire[i])
    BY <1>1 DEF Notes, TurnOf
<1>4. /\ {"submit", "progress", "cancel"} = Calls /\ {"read", "start"} \subseteq Ops
      /\ "ok" \in Values /\ Calls' = Calls
    BY DEF Calls, Ops, Values
<1>5. FirstInv' /\ LateReadInv' /\ LateAnswerInv' /\ OldNotesInv'
    BY <1>2, MoveOrder
<1>6. OverInv'
    BY MoveSettled
<1>7. OrderInv'
    BY <1>1, <1>3 DEF Honest, OrderInv
<1>8. RecordInv'
    BY <1>1 DEF Honest, RecordInv
<1>9. LossInv'
    BY <1>1, <1>2, <1>3 DEF Honest, LossInv
<1>10. NamedInv'
  <2>1. \A j \in Calls \ {k} : call'[j] = call[j]
      BY DEF Moves
  <2> QED
      BY <1>1, <1>2, <1>4, <2>1 DEF Honest, NamedInv, Under
<1>11. AnswerInv'
  <2>1. \A j \in Calls \ {k} : call'[j] = call[j]
      BY DEF Moves
  <2> QED
      BY <1>1, <1>4, <2>1 DEF Honest, AnswerInv
<1>12. ReadInv'
  <2>1. \A r \in requests' : r.call = "submit" /\ r.op = "read" => r.turn = NoTurn
      BY DEF Moves, Honest, ReadInv, Under
  <2> QED
      BY <1>1, <1>4, <2>1 DEF Honest, ReadInv
<1>13. StartInv'
  <2>1. ASSUME Under("submit", "start")', NEW t \in Named, NEW v \in Values, Told("submit", t, v)'
        PROVE  /\ t = NoTurn <=> v = "error"
               /\ t # NoTurn => /\ t = Latest /\ (\A r \in requests' : r.op # "start")
                                /\ Unseen => session.last # Latest
    <3>1. Told("submit", t, v) /\ k # "submit" /\ Under("submit", "start")
        BY <1>1, <1>4, <2>1
    <3>2. /\ t = NoTurn <=> v = "error"
          /\ t # NoTurn => /\ t = Latest /\ (\A r \in requests : r.op # "start")
                           /\ Unseen => session.last # Latest
        BY <2>1, <3>1 DEF Honest, StartInv
    <3>3. ASSUME NEW r \in requests', r \notin requests PROVE r.op # "start"
      <4>1. r.call = k /\ r.op \in OpsOf[r.call]
          BY <3>3 DEF Moves, IInv, RequestInv
      <4> QED
          BY <1>4, <3>1, <4>1 DEF OpsOf
    <3> QED
        BY <3>2, <3>3
  <2> QED
      BY <1>1, <1>2, <2>1 DEF StartInv
<1>14. RunningInv'
    BY <1>1, <1>3 DEF Honest, RunningInv
<1>15. SeenInv' /\ UnseenInv'
  <2>1. \A s : Names(s)' = Names(s)
      BY <1>1 DEF Names
  <2>2. \A p : Sets(p)' = Sets(p)
      BY <1>1 DEF Sets
  <2>3. Converges' = Converges
      BY <1>1, <2>1, <2>2 DEF Converges, Keeps
  <2> QED
      BY <1>1, <1>2, <1>3, <2>1, <2>3 DEF Honest, SeenInv, UnseenInv
<1> QED
    BY <1>5, <1>6, <1>7, <1>8, <1>9, <1>10, <1>11, <1>12, <1>13, <1>14, <1>15 DEF Honest

\* A record that names a turn whose start the client has not heard of has a status.
LEMMA UnseenStatus ==
    ASSUME Honest, Unseen, session.last = Latest
    PROVE  SessionStatus(tracked, session) # "unknown"
<1>1. session.active \in {NoTurn, Latest} /\ session.status # "unknown" /\ Latest # NoTurn
      /\ tracked[Latest].status = "none"
    BY DEF Honest, RecordInv, Unseen
<1> QED
    BY <1>1 DEF SessionStatus

LEMMA HonestSubmit ==
    ASSUME IInv, IInv', Honest, Submit PROVE Honest'
<1>1. UNCHANGED <<srv, wire, connected, merges, tracked, current, session, missed>> /\ "submit" \in Calls
    BY DEF Submit, memoryVars, historyVars, Calls
<1>2. CASE SteerTurn(submits + 1)
  <2>1. Moves("submit") /\ call'["submit"].op = "steer"
      BY <1>1, <1>2, SendMoves DEF SteerTurn
  <2> QED
      BY <1>1, <2>1, QuietMove DEF Under
<1>3. CASE StartTurn(submits + 1)
  <2>1. Moves("submit") /\ call'["submit"].op = "start"
      BY <1>1, <1>3, SendMoves DEF StartTurn
  <2> QED
      BY <1>1, <2>1, QuietMove DEF Under
<1>4. CASE SessionStatus(tracked, session) = "unknown" /\ ReadThread("submit", NoTurn, submits + 1)
  <2>1. Moves("submit") /\ call'["submit"].turn = NoTurn
      BY <1>1, <1>4, SendMoves DEF ReadThread
  <2>2. Unseen => session.last # Latest
      BY <1>4, UnseenStatus
  <2> QED
      BY <1>1, <2>1, <2>2, QuietMove
<1> QED
    BY <1>2, <1>3, <1>4 DEF Submit

LEMMA HonestSteerAnswered ==
    ASSUME IInv, IInv', Honest, SteerAnswered PROVE Honest'
<1>1. UNCHANGED <<srv, wire, connected, merges, tracked, current, session, missed>> /\ "submit" \in Calls
    BY DEF SteerAnswered, memoryVars, historyVars, Calls
<1>2. CASE StartTurn(call["submit"].prompt)
  <2>1. Moves("submit") /\ call'["submit"].op = "start"
      BY <1>1, <1>2, SendMoves DEF StartTurn
  <2> QED
      BY <1>1, <2>1, QuietMove DEF Under
<1>3. CASE call' = Return("submit") /\ UNCHANGED requests
  <2>1. Moves("submit") /\ call'["submit"].pc = "none"
      BY <1>1, <1>3, EndMoves DEF Return
  <2> QED
      BY <1>1, <2>1, QuietMove DEF Under
<1> QED
    BY <1>2, <1>3 DEF SteerAnswered

\* The turn a name resolves to is the one the record names last.
LEMMA ResolvedIsLast ==
    ASSUME Honest, ResolvedTurn # NoTurn PROVE ResolvedTurn = session.last
BY DEF Honest, RecordInv, ResolvedTurn

LEMMA HonestAskProgress ==
    ASSUME IInv, IInv', Honest, AskProgress, ~overtaken' PROVE Honest'
<1>1. /\ UNCHANGED <<srv, wire, connected, merges, tracked, current, session, missed>>
      /\ ResolvedTurn # NoTurn /\ ResolvedTurn = Latest /\ "progress" \in Calls
    BY DEF AskProgress, memoryVars, Calls
<1>2. Moves("progress") /\ call'["progress"].turn = Latest
    BY <1>1, SendMoves DEF AskProgress, ReadThread
<1>3. session.last = Latest
    BY <1>1, ResolvedIsLast
<1> QED
    BY <1>1, <1>2, <1>3, QuietMove

LEMMA HonestAskCancel ==
    ASSUME IInv, IInv', Honest, AskCancel, ~overtaken' PROVE Honest'
<1>1. /\ UNCHANGED <<srv, wire, connected, merges, tracked, current, session, missed>>
      /\ ResolvedTurn # NoTurn /\ ResolvedTurn = Latest /\ "cancel" \in Calls
    BY DEF AskCancel, memoryVars, Calls
<1>2. Moves("cancel") /\ call'["cancel"].turn = Latest
    BY <1>1, SendMoves DEF AskCancel
<1>3. session.last = Latest
    BY <1>1, ResolvedIsLast
<1> QED
    BY <1>1, <1>2, <1>3, QuietMove

LEMMA HonestRequestTimesOut ==
    ASSUME IInv, IInv', Honest, NEW k \in Calls, RequestTimesOut(k) PROVE Honest'
<1>1. /\ UNCHANGED <<srv, wire, connected, merges, tracked, current, session, missed, requests>>
      /\ call' = [call EXCEPT ![k] = [NoCall EXCEPT !.epoch = call[k].epoch + 1]]
    BY DEF RequestTimesOut, serverVars, memoryVars, historyVars
<1>2. Moves(k) /\ call'[k].pc = "none"
    BY <1>1, EndMoves
<1> QED
    BY <1>1, <1>2, QuietMove DEF Under

\* What a patch makes of a record.
LEMMA PatchedSession ==
    ASSUME NEW s, NEW t \in Turns, NEW status \in Terminal \cup ActiveStatus, NoTurn \notin Turns
    PROVE  /\ Merged(s, Patch(t, status)).last = t /\ Merged(s, Patch(t, status)).status = status
           /\ Merged(s, Patch(t, status)).active = IF IsActive(status) THEN t ELSE NoTurn
<1>1. status # "none" /\ t # NoTurn
    BY DEF Terminal, ActiveStatus
<1> QED
    BY <1>1 DEF Merged, Patch

\* An answer has somebody who waits for it.
LEMMA ToldUnder ==
    ASSUME IInv, NEW k \in Calls, NEW t, NEW v, Told(k, t, v)
    PROVE  call[k].pc # "none" /\ call[k].op \in OpsOf[k]
<1>1. call[k].pc # "none"
  <2>1. CASE \E i \in LiveReplies : wire[i].what.call = k
      BY <2>1 DEF IInv, ReplyInv
  <2> QED
      BY <2>1 DEF Told
<1> QED
    BY <1>1 DEF IInv, CallInv

\* The read of a thread is answered.
LEMMA HonestRefreshAnswered ==
    ASSUME IInv, IInv', Honest, RefreshAnswered PROVE Honest'
<1> DEFINE c == call["submit"]
<1>1. /\ c.pc = "ready" /\ c.op = "read" /\ c.ahead = 0 /\ session' = Refreshed(c)
      /\ UNCHANGED <<srv, wire, connected, merges, tracked, current, missed>>
      /\ {"submit", "progress", "cancel"} = Calls
    BY DEF RefreshAnswered, Goes, memoryVars, historyVars, Calls
<1>2. Moves("submit") /\ ~Under("submit", "read")' /\ (Under("submit", "start")' => call'["submit"].pc = "wait")
  <2>1. CASE StartTurn(c.prompt)
    <3>1. Moves("submit") /\ call'["submit"].op = "start" /\ call'["submit"].pc = "wait"
        BY <1>1, <2>1, SendMoves DEF StartTurn
    <3> QED
        BY <3>1 DEF Under
  <2>2. CASE call' = Return("submit") /\ UNCHANGED requests
    <3>1. Moves("submit") /\ call'["submit"].pc = "none"
        BY <1>1, <2>2, EndMoves DEF Return
    <3> QED
        BY <3>1 DEF Under
  <2> QED
      BY <2>1, <2>2 DEF RefreshAnswered
<1>3. CASE session' = session
    BY <1>1, <1>2, <1>3, QuietMove
<1>4. CASE session' # session
  <2>1. Known(c) /\ session' = Merged(session, Patch(c.turn, c.val))
      BY <1>1, <1>4 DEF Refreshed
  <2>2. Under("submit", "read") /\ Told("submit", c.turn, c.val) /\ c.val \in Statuses
        /\ c.turn \in Named /\ c.val \in Values /\ c.val \notin {"error", "unknown"}
    <3>1. c.val \in Statuses \cup {"error"}
        BY <1>1, AnswerValues, Parts DEF CallInv, CallParts
    <3>2. c.turn \in Named /\ c.val \in Values
        BY <1>1, Shape
    <3> QED
        BY <1>1, <2>1, <3>1, <3>2 DEF Under, Told, Known
  <2>3. /\ c.turn <= Latest /\ (Runs => c.turn = Latest /\ c.val = "running")
        /\ c.turn = NoTurn => c.val = "completed"
      BY <2>2 DEF Honest, ReadInv
  <2>4. c.val \in Terminal \cup ActiveStatus
      BY <2>2 DEF Statuses, Terminal, ActiveStatus
  <2>5. /\ session'.status = c.val
        /\ session'.last = IF c.turn = NoTurn THEN session.last ELSE c.turn
        /\ session'.active = IF IsActive(c.val) THEN c.turn ELSE NoTurn
    <3>1. CASE c.turn = NoTurn
      <4>1. c.val = "completed" /\ ~IsActive(c.val)
          BY <2>3, <3>1 DEF IsActive, ActiveStatus
      <4> HIDE DEF c
      <4> QED
          BY <2>1, <3>1, <4>1 DEF Merged, Patch
    <3>2. CASE c.turn # NoTurn
      <4>1. c.turn \in Turns /\ NoTurn \notin Turns
          BY <2>2, <3>2, Shape DEF Named
      <4> HIDE DEF c
      <4> QED
          BY <2>1, <2>4, <3>2, <4>1, PatchedSession
    <3> QED
        BY <3>1, <3>2
  <2>6. /\ Latest' = Latest /\ Notes' = Notes /\ Runs' = Runs
        /\ \A i \in DOMAIN wire : Tells(i)' = Tells(i)
        /\ \A j \in Calls, t \in Named, v \in Values : Told(j, t, v)' => Told(j, t, v) /\ j # "submit"
        /\ \A n \in Turns : Over(n)' = Over(n)
      BY <1>1, <1>2, MoveFrame
  <2>7. Unseen' = Unseen /\ NoTurn = 0 /\ Latest \in Nat /\ session.last \in Named
        /\ \A i \in Notes : i \in DOMAIN wire /\ TurnOf(wire[i])' = TurnOf(wire[i])
      BY <1>1, <2>6, Shape, Parts DEF Unseen, Notes, TurnOf, SessionTypes, Sessions, Named
  <2>8. call'["progress"] = call["progress"] /\ call'["cancel"] = call["cancel"]
      BY <1>1, <1>2 DEF Moves
  <2> HIDE DEF c
  <2>9. FirstInv' /\ LateReadInv' /\ LateAnswerInv' /\ OldNotesInv'
      BY <1>1, <1>2, <2>7, MoveOrder
  <2>10. OrderInv'
      BY <1>1, <2>6, <2>7 DEF Honest, OrderInv
  <2>11. RecordInv'
      BY <1>1, <2>2, <2>3, <2>5, <2>6 DEF Honest, RecordInv, IsActive, ActiveStatus
  <2>12. LossInv'
      BY <1>1, <2>6, <2>7 DEF Honest, LossInv
  <2>13. NamedInv'
    <3>1. ASSUME Unseen PROVE ~connected /\ merges = <<>> /\ call["progress"].pc = "none" /\ call["cancel"].pc = "none"
      <4>1. c.ahead = Len(merges) /\ ~connected
          BY <1>1, <2>2, <3>1 DEF Honest, LateAnswerInv, c
      <4>2. merges = <<>>
          BY <1>1, <4>1, EmptySeq, Parts DEF SessionTypes
      <4> QED
          BY <2>2, <3>1, <4>1, <4>2 DEF Honest, NamedInv
    <3> QED
        BY <1>1, <1>2, <2>6, <2>7, <2>8, <3>1 DEF NamedInv
  <2>14. AnswerInv'
    <3>1. {"ok"} \subseteq Values
        BY DEF Values
    <3> QED
        BY <1>1, <2>6, <2>8, <3>1 DEF Honest, AnswerInv
  <2>15. ReadInv'
    <3>1. \A r \in requests' : r.call = "submit" /\ r.op = "read" => r.turn = NoTurn
        BY <1>2 DEF Moves, Honest, ReadInv, Under
    <3> QED
        BY <1>2, <3>1 DEF ReadInv
  <2>16. StartInv'
      BY <1>1, <2>6 DEF StartInv
  <2>17. RunningInv'
      BY <1>1, <2>6, <2>7 DEF Honest, RunningInv
  <2>18. SeenInv' /\ UnseenInv'
    <3>1. Runs => Names(session)'
        BY <2>3, <2>5, <2>6 DEF Names, Runs, IsActive, ActiveStatus
    <3>2. \A p : Keeps(p)' = Keeps(p) /\ Sets(p)' = Sets(p)
        BY <2>6 DEF Keeps, Sets
    <3>3. Converges /\ Runs => Converges'
        BY <1>1, <3>1, <3>2 DEF Converges
    <3> QED
        BY <1>1, <2>6, <2>7, <3>1, <3>3 DEF Honest, SeenInv, UnseenInv
  <2>19. OverInv'
    <3> SUFFICES ASSUME NEW n \in Turns, Over(n)', n \notin missed', Settled(n)
                 PROVE  Settled(n)'
        BY <1>1, <2>6, <2>7 DEF Honest, OverInv
    <3>1. Terminal \cup {"ok", "running"} \subseteq Values /\ n \in Named /\ n # NoTurn
        BY Shape DEF Terminal, Values, Statuses, Named
    <3>2. tracked[n].status = "none" /\ c.turn = n => c.val \in Terminal
      <4>1. Under("submit", "read") /\ ~Under("submit", "steer")
          BY <2>2 DEF Under
      <4>2. c.val \in Terminal \/ c.val = "running"
          BY <2>2 DEF Terminal, Statuses
      <4> QED
          BY <2>2, <4>1, <4>2 DEF Settled
    <3>3. tracked[n].status = "none" =>
             session'.active # n /\ (session'.last = n => ~IsActive(session'.status))
        BY <2>3, <2>5, <3>1, <3>2 DEF Settled, IsActive, Terminal, ActiveStatus
    <3> QED
        BY <1>1, <2>6, <2>7, <3>1, <3>3 DEF Settled
  <2> QED
      BY <2>9, <2>10, <2>11, <2>12, <2>13, <2>14, <2>15, <2>16, <2>17, <2>18, <2>19 DEF Honest
<1> QED
    BY <1>3, <1>4

\* A coroutine is over and has recorded status s of the newest turn.
LEMMA RecordMove ==
    ASSUME IInv, IInv', Honest, NEW k \in Calls, Moves(k), call'[k].pc = "none",
           Latest # NoTurn, NEW s \in Terminal \cup ActiveStatus,
           session' = Merged(session, Patch(Latest, s)),
           \A t \in Turns : t # Latest => tracked'[t] = tracked[t],
           tracked'[Latest].status = "none" => tracked'[Latest] = tracked[Latest],
           Runs => /\ IsActive(s) /\ tracked'[Latest].status \in {"none"} \cup ActiveStatus
                   /\ ~tracked'[Latest].finished
                   /\ tracked'[Latest].status # "none" => current' = Latest,
           Unseen /\ tracked'[Latest].status # "none" =>
              /\ \A i \in Notes : wire[i].kind \in {"started", "ask"} => TurnOf(wire[i]) = Latest
              /\ Runs => merges = <<>>,
           tracked'[Latest].status = "none" => session.last = Latest /\ k # "submit" /\ ~Under("submit", "read"),
           missed' \subseteq missed, \A n \in Turns : n # Latest => (n \in missed' <=> n \in missed),
           Over(Latest) /\ Latest \notin missed' =>
              \/ tracked'[Latest].finished
              \/ \E i \in Notes : wire[i].kind = "ended" /\ TurnOf(wire[i]) = Latest
              \/ Settled(Latest)'
    PROVE  Honest'
<1> USE DEF Honest
<1>1. /\ Latest' = Latest /\ Notes' = Notes /\ wire' = wire /\ merges' = merges /\ Runs' = Runs
      /\ connected' = connected /\ srv' = srv
      /\ \A i \in DOMAIN wire : Tells(i)' = Tells(i)
      /\ \A j \in Calls, t \in Named, v \in Values : Told(j, t, v)' => Told(j, t, v) /\ j # k
      /\ \A j \in Calls \ {k}, op \in Ops : Under(j, op)' = Under(j, op)
      /\ \A n \in Turns : Over(n)' = Over(n)
    BY MoveFrame DEF Moves
<1>2. \A i \in Notes : i \in DOMAIN wire /\ TurnOf(wire[i])' = TurnOf(wire[i])
    BY <1>1 DEF Notes, TurnOf
<1>3. /\ Latest \in Turns /\ NoTurn \notin Turns /\ Turns \subseteq Named /\ Latest \in Nat
      /\ {"submit", "progress", "cancel"} = Calls /\ {"read", "start", "steer"} \subseteq Ops
      /\ Terminal \cup {"ok", "running"} \subseteq Values
    BY Shape DEF Named, Calls, Ops, Values, Statuses, Terminal
<1>4. /\ session'.last = Latest /\ session'.status = s
      /\ session'.active = IF IsActive(s) THEN Latest ELSE NoTurn
    BY <1>3, PatchedSession
<1>5. (Unseen' <=> tracked'[Latest].status = "none") /\ (Unseen' => Unseen)
    BY <1>1 DEF Unseen
<1>6. FirstInv' /\ LateReadInv' /\ LateAnswerInv' /\ ((Unseen => Unseen') => OldNotesInv')
    BY <1>5, MoveOrder
<1>7. OldNotesInv'
    BY <1>1, <1>2, <1>5, <1>6 DEF OldNotesInv
<1>8. OrderInv'
    BY <1>1, <1>2, <1>3 DEF OrderInv
<1>9. RecordInv'
  <2>1. s # "unknown" /\ session'.last <= Latest'
      BY <1>1, <1>3, <1>4 DEF Terminal, ActiveStatus
  <2>2. \A t \in Turns : tracked[t].status # "none" => tracked'[t].status # "none"
      OBVIOUS
  <2>3. \A j \in DOMAIN merges : merges[j] = OwnSummary \/
          \E t \in Turns, x \in Terminal \cup ActiveStatus :
             tracked'[t].status # "none" /\ merges[j] = Patch(t, x)
      BY <2>2 DEF RecordInv
  <2> QED
      BY <1>1, <1>4, <2>1, <2>3 DEF RecordInv
<1>10. LossInv'
    BY <1>1, <1>2, <1>5 DEF LossInv
<1>11. NamedInv'
  <2>1. \A j \in Calls \ {k} : call'[j] = call[j]
      BY DEF Moves
  <2> QED
      BY <1>1, <1>3, <1>4, <1>5, <2>1 DEF NamedInv, Under
<1>12. AnswerInv'
  <2>1. \A j \in Calls \ {k} : call'[j] = call[j]
      BY DEF Moves
  <2> QED
      BY <1>1, <1>3, <2>1 DEF AnswerInv
<1>13. ReadInv'
  <2>1. \A r \in requests' : r.call = "submit" /\ r.op = "read" => r.turn = NoTurn
      BY DEF Moves, ReadInv
  <2> QED
      BY <1>1, <1>3, <2>1 DEF ReadInv
<1>14. StartInv'
  <2>1. ASSUME Under("submit", "start")', NEW t \in Named, NEW v \in Values, Told("submit", t, v)'
        PROVE  /\ t = NoTurn <=> v = "error"
               /\ t # NoTurn => /\ t = Latest /\ (\A r \in requests' : r.op # "start")
                                /\ ~Unseen'
    <3>1. Told("submit", t, v) /\ k # "submit" /\ Under("submit", "start")
        BY <1>1, <1>3, <2>1
    <3>2. /\ t = NoTurn <=> v = "error"
          /\ t # NoTurn => /\ t = Latest /\ (\A r \in requests : r.op # "start")
                           /\ Unseen => session.last # Latest
        BY <2>1, <3>1 DEF StartInv
    <3>3. \A r \in requests' : r \in requests
        BY DEF Moves
    <3> QED
        BY <1>5, <3>2, <3>3
  <2> QED
      BY <1>1, <2>1 DEF StartInv
<1>15. RunningInv'
  <2>1. \A t \in Turns : srv[t] = "running" => t = Latest /\ Runs
    <3>1. \A t \in Turns : t \in Nat
        BY Shape
    <3> QED
        BY <1>3, <3>1 DEF OrderInv, Runs
  <2> QED
      BY <1>1, <1>2, <2>1 DEF RunningInv
<1>16. SeenInv' /\ UnseenInv'
  <2>1. Runs => Names(session)'
      BY <1>1, <1>4 DEF Names
  <2>2. \A p : Keeps(p)' = Keeps(p) /\ Sets(p)' = Sets(p)
      BY <1>1 DEF Keeps, Sets
  <2>3. ASSUME Runs, ~Unseen' PROVE Converges'
    <3>1. CASE Unseen
        BY <1>1, <1>5, <2>1, <2>3, <3>1 DEF Converges
    <3>2. CASE ~Unseen
        BY <1>1, <2>1, <2>2, <2>3, <3>2 DEF Converges, SeenInv
    <3> QED
        BY <3>1, <3>2
  <2> QED
      BY <1>1, <1>5, <2>1, <2>3 DEF SeenInv, UnseenInv
<1>17. OverInv'
  <2>1. ASSUME NEW n \in Turns, Over(n)', n \notin missed', n # Latest, Settled(n) PROVE Settled(n)'
    <3>1. ASSUME NEW v \in Terminal \cup {"ok", "running"}, Told("submit", n, v)', tracked[n].status = "none"
          PROVE  Under("submit", "steer")' \/ (Under("submit", "read")' /\ v \in Terminal)
      <4>1. Told("submit", n, v) /\ k # "submit"
          BY <1>1, <1>3, <3>1
      <4> QED
          BY <1>1, <1>3, <2>1, <3>1, <4>1 DEF Settled
    <3> QED
        BY <1>1, <1>2, <1>3, <1>4, <2>1, <3>1 DEF Settled
  <2> QED
      BY <1>1, <1>2, <2>1 DEF OverInv
<1> QED
    BY <1>6, <1>7, <1>8, <1>9, <1>10, <1>11, <1>12, <1>13, <1>14, <1>15, <1>16, <1>17

\* An entry changes for one turn.
LEMMA EntryOf ==
    ASSUME MemoryTypes, NEW t \in Turns, NEW e, tracked' = [tracked EXCEPT ![t] = e]
    PROVE  tracked'[t] = e /\ \A u \in Turns : u # t => tracked'[u] = tracked[u]
BY DEF MemoryTypes

LEMMA HonestPersistTurnStart ==
    ASSUME IInv, IInv', Honest, PersistTurnStart PROVE Honest'
<1> DEFINE c == call["submit"]
           status == IF tracked[Latest].status \in Terminal THEN tracked[Latest].status
                     ELSE IF tracked[Latest].asks # {} \/ tracked[Latest].status = "waiting" THEN "waiting"
                     ELSE "running"
<1>1. /\ c.pc = "ready" /\ c.op = "start" /\ c.ahead = 0 /\ call' = Return("submit")
      /\ UNCHANGED <<srv, wire, connected, merges, requests, missed>> /\ "submit" \in Calls
    BY DEF PersistTurnStart, Goes, serverVars, historyVars, Calls
<1>2. Moves("submit") /\ call'["submit"].pc = "none"
    BY <1>1, EndMoves DEF Return
<1>3. CASE c.turn = NoTurn
  <2>1. UNCHANGED <<tracked, current, session>>
      BY <1>3 DEF PersistTurnStart
  <2> QED
      BY <1>1, <1>2, <2>1, QuietMove DEF Under
<1>4. CASE c.turn # NoTurn
  <2>1. Under("submit", "start") /\ Told("submit", c.turn, c.val) /\ c.turn \in Named /\ c.val \in Values
        /\ c.val \in {"ok", "error"} /\ ~Under("submit", "steer") /\ ~Under("submit", "read")
      BY <1>1, Shape, AnswerValues, Parts DEF Under, Told, CallInv, CallParts
  <2>2. c.turn = Latest /\ c.val = "ok" /\ Latest \in Turns /\ Latest # NoTurn
      BY <1>4, <2>1 DEF Honest, StartInv, Named
  <2>3. /\ current' = Latest /\ session' = Merged(session, Patch(Latest, status))
        /\ tracked' = [tracked EXCEPT ![Latest] = [Ensured(Latest) EXCEPT !.status = status]]
      BY <1>4, <2>2 DEF PersistTurnStart
  <2>4. status \in Terminal \cup ActiveStatus
      BY DEF ActiveStatus
  <2>5. /\ Ensured(Latest).asks = tracked[Latest].asks /\ Ensured(Latest).finished = tracked[Latest].finished
        /\ Ensured(Latest) \in Entries
    <3>1. MemoryTypes /\ tracked[Latest] \in Entries
        BY <2>2, EntryFields, Parts
    <3> QED
        BY <2>2, <3>1, EnsuredEntry DEF Ensured, Entries
  <2>6. /\ tracked'[Latest].status = status /\ tracked'[Latest].asks = tracked[Latest].asks
        /\ tracked'[Latest].finished = tracked[Latest].finished
        /\ \A t \in Turns : t # Latest => tracked'[t] = tracked[t]
    <3> HIDE DEF status
    <3>1. /\ tracked'[Latest] = [Ensured(Latest) EXCEPT !.status = status]
          /\ \A t \in Turns : t # Latest => tracked'[t] = tracked[t]
        BY <2>2, <2>3, EntryOf, Parts
    <3> QED
        BY <2>5, <3>1 DEF Entries
  <2>7. status # "none"
      BY <2>4 DEF Terminal, ActiveStatus
  <2>8. Runs => IsActive(status) /\ status \in ActiveStatus /\ ~tracked[Latest].finished
    <3>1. Runs => tracked[Latest].status \notin Terminal /\ ~tracked[Latest].finished
        BY <2>2 DEF Runs, Honest, RunningInv, Terminal, ActiveStatus
    <3> QED
        BY <3>1 DEF IsActive, ActiveStatus
  <2>9. ASSUME Unseen
        PROVE  /\ \A i \in Notes : wire[i].kind \in {"started", "ask"} => TurnOf(wire[i]) = Latest
               /\ merges = <<>>
    <3>1. \A i \in Notes : AnsweredBefore(i)
        BY <1>1, <2>1, <2>2 DEF AnsweredBefore
    <3>2. \A i \in Notes : Announced(i)
        BY <2>9, <3>1 DEF Honest, FirstInv
    <3>3. c.ahead = Len(merges)
        BY <1>1, <2>2, <2>9 DEF Honest, LateAnswerInv
    <3> QED
        BY <1>1, <3>2, <3>3, EmptySeq, Parts DEF Honest, OldNotesInv, SessionTypes
  <2>10. ASSUME Over(Latest), Latest \notin missed, Settled(Latest) PROVE Settled(Latest)'
    <3>1. tracked[Latest].status \in Terminal
        BY <2>1, <2>2, <2>10 DEF Settled
    <3>2. status = tracked[Latest].status
        BY <3>1
    <3>3. /\ Latest' = Latest /\ Notes' = Notes /\ wire' = wire
          /\ \A t \in Named, v \in Values : Told("progress", t, v)' => Told("progress", t, v)
        BY <1>1, <1>2, MoveFrame DEF Calls
    <3>4. \A i : TurnOf(wire[i])' = TurnOf(wire[i])
        BY <3>3 DEF TurnOf
    <3> HIDE DEF status
    <3> QED
        BY <2>1, <2>2, <2>6, <2>7, <2>10, <3>1, <3>2, <3>3, <3>4 DEF Settled
  <2> HIDE DEF status
  <2> QED
      BY <1>1, <1>2, <2>1, <2>2, <2>3, <2>4, <2>6, <2>7, <2>8, <2>9, <2>10, RecordMove DEF Honest, OverInv
<1> QED
    BY <1>3, <1>4

LEMMA HonestCancelAnswered ==
    ASSUME IInv, IInv', Honest, CancelAnswered PROVE Honest'
<1> DEFINE c == call["cancel"]
<1>1. /\ c.pc = "ready" /\ c.op = "interrupt" /\ call' = Return("cancel")
      /\ UNCHANGED <<srv, wire, connected, merges, requests, missed, current>> /\ "cancel" \in Calls
    BY DEF CancelAnswered, Goes, serverVars, Calls
<1>2. Moves("cancel") /\ call'["cancel"].pc = "none"
    BY <1>1, EndMoves DEF Return
<1>3. CASE c.val # "ok"
  <2>1. UNCHANGED <<tracked, session>>
      BY <1>3 DEF CancelAnswered
  <2> QED
      BY <1>1, <1>2, <2>1, QuietMove DEF Under
<1>4. CASE c.val = "ok"
  <2>1. Told("cancel", c.turn, "ok") /\ c.turn = Latest /\ Latest # NoTurn /\ Latest \in Turns
    <3>1. c.turn # NoTurn /\ c.turn \in Named
        BY <1>1, Shape DEF IInv, CallInv
    <3>2. c.turn = Latest
        BY <1>1 DEF Honest, AnswerInv
    <3> QED
        BY <1>1, <1>4, <3>1, <3>2 DEF Told, Named
  <2>2. ~Runs
      BY <2>1 DEF Honest, AnswerInv, Named
  <2>3. /\ session' = Merged(session, Patch(Latest, "cancelled"))
        /\ tracked' = [tracked EXCEPT ![Latest] = [Ensured(Latest) EXCEPT !.status = "cancelled", !.finished = TRUE]]
      BY <1>4, <2>1 DEF CancelAnswered
  <2>4. /\ tracked'[Latest].status = "cancelled" /\ tracked'[Latest].finished
        /\ \A t \in Turns : t # Latest => tracked'[t] = tracked[t]
    <3>1. MemoryTypes /\ Ensured(Latest) \in Entries
        BY <2>1, EnsuredEntry, Parts
    <3>2. /\ tracked'[Latest] = [Ensured(Latest) EXCEPT !.status = "cancelled", !.finished = TRUE]
          /\ \A t \in Turns : t # Latest => tracked'[t] = tracked[t]
        BY <2>1, <2>3, <3>1, EntryOf
    <3> QED
        BY <3>1, <3>2 DEF Entries
  <2>5. Unseen => Notes = {}
      BY <1>1 DEF Honest, NamedInv, LossInv
  <2> QED
      BY <1>1, <1>2, <2>1, <2>2, <2>3, <2>4, <2>5, RecordMove DEF Terminal
<1> QED
    BY <1>3, <1>4

LEMMA HonestProgressAnswered ==
    ASSUME IInv, IInv', Honest, ProgressAnswered PROVE Honest'
<1> DEFINE c == call["progress"]
           status == IF \E a \in pendingAsks : a \in tracked[Latest].asks THEN "waiting" ELSE c.val
           finished == tracked[Latest].finished \/ status \in {"completed", "failed"}
<1>1. /\ c.pc = "ready" /\ c.op = "read" /\ call' = Return("progress")
      /\ UNCHANGED <<srv, wire, connected, merges, requests, current>>
      /\ {"submit", "progress", "cancel"} = Calls
    BY DEF ProgressAnswered, Goes, serverVars, Calls
<1>2. Moves("progress") /\ call'["progress"].pc = "none"
    BY <1>1, EndMoves DEF Return
<1>3. CASE c.val = "error"
  <2>1. UNCHANGED <<tracked, session, missed>>
      BY <1>3 DEF ProgressAnswered
  <2> QED
      BY <1>1, <1>2, <2>1, QuietMove DEF Under
<1>4. CASE c.val # "error"
  <2>1. /\ Told("progress", Latest, c.val) /\ c.turn = Latest /\ Latest # NoTurn /\ Latest \in Turns
        /\ c.val \in Values
    <3>1. c.turn # NoTurn /\ c.turn \in Named /\ c.val \in Values
        BY <1>1, Shape DEF IInv, CallInv
    <3>2. c.turn = Latest
        BY <1>1 DEF Honest, AnswerInv
    <3> QED
        BY <1>1, <3>1, <3>2 DEF Told, Named
  <2>2. c.val \in {"running", Normalized(srv[Latest])} /\ (Runs => c.val = "running")
      BY <1>4, <2>1 DEF Honest, AnswerInv, Named
  <2>3. srv[Latest] # "none" /\ srv[Latest] \in ServerStates
      BY <2>1, NewestTurns, Shape
  <2>4. /\ Normalized(srv[Latest]) \in Terminal \cup {"running"}
        /\ Over(Latest) => Normalized(srv[Latest]) \in Terminal
      BY <2>3 DEF Normalized, ServerStates, Terminal, Over
  <2>5. c.val \in Terminal \cup {"running"} /\ c.val # "unknown"
      BY <2>2, <2>4 DEF Terminal
  <2>6. status \in Terminal \cup ActiveStatus /\ status # "unknown" /\ status # "none"
      BY <2>5 DEF Terminal, ActiveStatus
  <2>7. /\ session' = Merged(session, Patch(Latest, status))
        /\ tracked' = IF tracked[Latest].status = "none" THEN tracked
                      ELSE [tracked EXCEPT ![Latest] = [@ EXCEPT !.status = status, !.finished = finished]]
        /\ missed' = IF status = Normalized(srv[Latest]) THEN missed \ {Latest} ELSE missed
      BY <1>4, <2>1, <2>5, <2>6 DEF ProgressAnswered, RecordTurnProgress
  <2> HIDE DEF status
  <2>8. /\ tracked[Latest].status = "none" => tracked' = tracked
        /\ tracked[Latest].status # "none" =>
              /\ tracked'[Latest].status = status /\ tracked'[Latest].asks = tracked[Latest].asks
              /\ tracked'[Latest].finished = finished
        /\ \A t \in Turns : t # Latest => tracked'[t] = tracked[t]
    <3>1. CASE tracked[Latest].status = "none"
        BY <2>7, <3>1
    <3>2. CASE tracked[Latest].status # "none"
      <4> HIDE DEF finished
      <4>1. MemoryTypes /\ tracked[Latest] \in Entries
          BY <2>1, EntryFields, Parts
      <4>2. tracked' = [tracked EXCEPT ![Latest] = [tracked[Latest] EXCEPT !.status = status, !.finished = finished]]
          BY <2>7, <3>2
      <4>3. /\ tracked'[Latest] = [tracked[Latest] EXCEPT !.status = status, !.finished = finished]
            /\ \A t \in Turns : t # Latest => tracked'[t] = tracked[t]
          BY <2>1, <4>1, <4>2, EntryOf
      <4> QED
          BY <3>2, <4>1, <4>3 DEF Entries
    <3> QED
        BY <3>1, <3>2
  <2>9. Unseen <=> tracked[Latest].status = "none"
      BY <2>1 DEF Unseen
  <2>10. Runs => /\ IsActive(status) /\ status \in ActiveStatus /\ ~finished
                 /\ tracked[Latest].status # "none" => current = Latest
    <3>1. Runs => ~tracked[Latest].finished
        BY <2>1 DEF Runs, Honest, RunningInv
    <3>2. Runs => status \in ActiveStatus
        BY <2>2 DEF status, ActiveStatus
    <3>3. Runs /\ tracked[Latest].status # "none" => current = Latest
        BY <2>9 DEF Honest, SeenInv
    <3> QED
        BY <3>1, <3>2, <3>3 DEF IsActive, ActiveStatus
  <2>11. Unseen => session.last = Latest /\ ~Under("submit", "read")
      BY <1>1 DEF Honest, NamedInv
  <2>12. /\ Latest' = Latest /\ Notes' = Notes /\ wire' = wire
         /\ \A j \in Calls, t \in Named, v \in Values : Told(j, t, v)' => Told(j, t, v) /\ j # "progress"
         /\ \A op \in Ops : Under("submit", op)' = Under("submit", op)
    BY <1>1, <1>2, MoveFrame
  <2>13. /\ \A i : TurnOf(wire[i])' = TurnOf(wire[i])
         /\ Terminal \cup {"ok", "running"} \subseteq Values /\ Latest \in Named /\ {"steer", "read"} \subseteq Ops
      BY <2>1, <2>12 DEF TurnOf, Values, Terminal, Statuses, Named, Ops
  <2>14. Unseen /\ status \in Terminal => session'.active # Latest /\ ~IsActive(session'.status)
    <3>1. NoTurn \notin Turns
        BY Shape
    <3> QED
        BY <2>1, <2>6, <2>7, <3>1, PatchedSession DEF IsActive, ActiveStatus, Terminal
  <2>15. ASSUME Over(Latest), Latest \notin missed, Settled(Latest) PROVE Settled(Latest)'
    <3>1. c.val \in Terminal /\ tracked[Latest].asks = {}
        BY <1>4, <2>1, <2>15 DEF Settled
    <3>2. status \in Terminal
        BY <3>1 DEF status
    <3> HIDE DEF finished
    <3>3. CASE Unseen
        BY <1>1, <2>8, <2>9, <2>12, <2>13, <2>14, <2>15, <3>2, <3>3 DEF Settled
    <3>4. CASE ~Unseen
      <4>1. tracked'[Latest].status = status /\ tracked'[Latest].asks = {} /\ status # "none"
          BY <2>6, <2>8, <2>9, <3>1, <3>4
      <4> QED
          BY <1>1, <2>12, <2>13, <2>15, <3>2, <4>1 DEF Settled
    <3> QED
        BY <3>3, <3>4
  <2>16. ASSUME Over(Latest), Latest \in missed, Latest \notin missed' PROVE Settled(Latest)'
    <3>1. status = Normalized(srv[Latest]) /\ status \in Terminal
        BY <2>4, <2>7, <2>16
    <3>2. tracked[Latest].asks = {}
      <4>1. ~\E a \in pendingAsks : a \in tracked[Latest].asks
          BY <3>1 DEF status, Terminal
      <4> QED
          BY <2>1, <4>1 DEF IInv, AskInv
    <3>3. Notes = {}
        BY <2>16 DEF Honest, LossInv
    <3> HIDE DEF finished
    <3>4. \A v \in Values : ~Told("progress", Latest, v)'
        BY <1>1, <2>12, <2>13
    <3>5. CASE Unseen
      <4>1. ASSUME NEW v \in Terminal \cup {"ok", "running"}, Told("submit", Latest, v)'
            PROVE  Under("submit", "steer")'
        <5>1. Told("submit", Latest, v) /\ v \in Values
            BY <1>1, <2>12, <2>13, <4>1
        <5>2. call["submit"].pc # "none" /\ call["submit"].op \in OpsOf["submit"]
            BY <1>1, <5>1, ToldUnder
        <5>3. ~Under("submit", "start")
            BY <2>1, <2>11, <2>13, <3>5, <5>1 DEF Honest, StartInv
        <5>4. call["submit"].op \in {"start", "steer", "read"}
            BY <5>2 DEF OpsOf
        <5> QED
            BY <2>11, <2>12, <2>13, <3>5, <5>2, <5>3, <5>4 DEF Under
      <4>2. tracked' = tracked /\ tracked[Latest].status = "none"
          BY <2>8, <2>9, <3>5
      <4> QED
          BY <2>12, <2>14, <3>1, <3>2, <3>3, <3>4, <3>5, <4>1, <4>2 DEF Settled
    <3>6. CASE ~Unseen
      <4>1. tracked'[Latest].status = status /\ tracked'[Latest].asks = {} /\ status # "none"
          BY <2>6, <2>8, <2>9, <3>2, <3>6
      <4> QED
          BY <2>12, <3>1, <3>3, <3>4, <4>1 DEF Settled
    <3> QED
        BY <3>5, <3>6
  <2>17. Over(Latest) /\ Latest \notin missed' =>
              \/ tracked'[Latest].finished
              \/ \E i \in Notes : wire[i].kind = "ended" /\ TurnOf(wire[i]) = Latest
              \/ Settled(Latest)'
    <3>1. tracked[Latest].finished => tracked'[Latest].finished
        BY <2>8
    <3> QED
        BY <2>1, <2>15, <2>16, <3>1 DEF Honest, OverInv
  <2>18. missed' \subseteq missed /\ \A n \in Turns : n # Latest => (n \in missed' <=> n \in missed)
      BY <2>7
  <2> HIDE DEF finished
  <2>19. /\ tracked'[Latest].status = "none" => tracked'[Latest] = tracked[Latest] /\ Unseen
         /\ Unseen => tracked'[Latest].status = "none"
         /\ Runs => tracked'[Latest].status \in {"none"} \cup ActiveStatus /\ ~tracked'[Latest].finished
    <3>1. Runs => ~tracked[Latest].finished
        BY <2>1 DEF Runs, Honest, RunningInv
    <3> QED
        BY <2>6, <2>8, <2>9, <2>10, <3>1
  <2> QED
      BY <1>1, <1>2, <2>1, <2>6, <2>7, <2>8, <2>9, <2>10, <2>11, <2>17, <2>18, <2>19, RecordMove
<1> QED
    BY <1>3, <1>4

-----------------------------------------------------------------------------
(* Scheduled merges.                                                       *)

LEMMA NoPatch ==
    ASSUME NEW s PROVE /\ Merged(s, OwnSummary).last = s.last /\ Merged(s, OwnSummary).active = s.active
                       /\ Merged(s, OwnSummary).status = s.status
BY DEF Merged, OwnSummary

LEMMA HonestMergeSession ==
    ASSUME IInv, IInv', Honest, MergeSession PROVE Honest'
<1> USE DEF Honest
<1>1. /\ UNCHANGED <<srv, wire, connected, tracked, current, requests, missed>>
      /\ merges # <<>> /\ session' = Merged(session, Head(merges)) /\ merges' = Tail(merges)
      /\ \A k \in Calls : call'[k] = [call[k] EXCEPT !.ahead = IF @ > 0 THEN @ - 1 ELSE 0]
    BY DEF MergeSession, serverVars, memoryVars, historyVars
<1>2. /\ 1 \in DOMAIN merges /\ Head(merges) = merges[1]
      /\ Len(merges) \in Nat /\ Len(merges) >= 1 /\ Len(merges)' = Len(merges) - 1
      /\ DOMAIN merges = 1..Len(merges) /\ DOMAIN merges' = 1..(Len(merges) - 1)
      /\ \A j \in DOMAIN merges' : j + 1 \in DOMAIN merges /\ merges'[j] = merges[j + 1]
  <2>1. merges \in Seq(Patches) /\ merges # <<>>
      BY <1>1, Parts DEF SessionTypes
  <2>2. /\ Len(merges) \in Nat /\ DOMAIN merges = 1..Len(merges) /\ Len(merges) >= 1
      BY <2>1, LenProperties, EmptySeq
  <2>3. Tail(merges) \in Seq(Patches) /\ Len(Tail(merges)) = Len(merges) - 1
      BY <2>1, HeadTailProperties
  <2>4. Head(merges) = merges[1]
      BY <2>1
  <2>5. DOMAIN Tail(merges) = 1..(Len(merges) - 1)
      BY <2>2, <2>3, LenProperties
  <2>6. \A j \in 1..(Len(merges) - 1) : Tail(merges)[j] = merges[j + 1]
      BY <2>1, <2>2
  <2> QED
      BY <1>1, <2>2, <2>3, <2>4, <2>5, <2>6
<1>3. \A k \in Calls : /\ call'[k].pc = call[k].pc /\ call'[k].op = call[k].op
                       /\ call'[k].turn = call[k].turn /\ call'[k].val = call[k].val
                       /\ call'[k].epoch = call[k].epoch
                       /\ call[k].ahead = Len(merges) => call'[k].ahead = Len(merges) - 1
  <2> TAKE k \in Calls
  <2>1. call[k] \in CallRecords
      BY Parts DEF CallTypes
  <2>2. call'[k] = [call[k] EXCEPT !.ahead = IF call[k].ahead > 0 THEN call[k].ahead - 1 ELSE 0]
      BY <1>1
  <2>3. \A x : LET c == [call[k] EXCEPT !.ahead = x] IN
             c.pc = call[k].pc /\ c.op = call[k].op /\ c.turn = call[k].turn /\ c.val = call[k].val
             /\ c.epoch = call[k].epoch /\ c.ahead = x
      BY <2>1 DEF CallRecords
  <2> QED
      BY <1>2, <2>2, <2>3
<1>4. LiveReplies' = LiveReplies /\ Latest' = Latest /\ Notes' = Notes /\ Runs' = Runs /\ Unseen' = Unseen
  <2>1. \A i \in ReplyAt : wire[i].what.call \in Calls
      BY WireShape, Parts
  <2>2. Latest' = Latest
      BY <1>1, SameLatest
  <2>3. ReplyAt' = ReplyAt
      BY <1>1 DEF ReplyAt
  <2> QED
      BY <1>1, <1>3, <2>1, <2>2, <2>3 DEF LiveReplies, Notes, Runs, Unseen
<1>5. /\ \A k \in Calls : \A t, v : Told(k, t, v)' <=> Told(k, t, v)
      /\ \A k \in Calls : \A op : Under(k, op)' <=> Under(k, op)
      /\ \A i : TurnOf(wire[i])' = TurnOf(wire[i]) /\ (Tells(i)' <=> Tells(i)) /\ (Announced(i)' <=> Announced(i))
      /\ \A n \in Turns : Over(n)' <=> Over(n)
    BY <1>1, <1>3, <1>4 DEF Told, Under, TurnOf, Tells, Announced, Over
<1>6. /\ {"submit", "progress", "cancel"} = Calls /\ NoTurn \notin Turns /\ NoTurn = 0 /\ Turns \subseteq Nat
    BY Shape DEF Calls
<1>7. \/ /\ merges[1] = OwnSummary
         /\ session'.last = session.last /\ session'.active = session.active /\ session'.status = session.status
      \/ \E t \in Turns, s \in Terminal \cup ActiveStatus :
            /\ merges[1] = Patch(t, s) /\ tracked[t].status # "none" /\ session'.last = t /\ session'.status = s
            /\ session'.active = IF IsActive(s) THEN t ELSE NoTurn
    BY <1>1, <1>2, <1>6, PatchedSession, NoPatch DEF RecordInv
<1>8. Unseen => session.last # Latest
    BY <1>1 DEF NamedInv
<1>9. Unseen => session'.last # Latest /\ call["progress"].pc = "none" /\ call["cancel"].pc = "none"
    BY <1>7, <1>8 DEF NamedInv, Unseen
<1>10. OrderInv' /\ LossInv' /\ RunningInv'
    BY <1>1, <1>4, <1>5 DEF OrderInv, LossInv, RunningInv
<1>11. RecordInv'
  <2>1. \A j \in DOMAIN merges' : merges'[j] = OwnSummary \/
          \E t \in Turns, s \in Terminal \cup ActiveStatus :
             tracked'[t].status # "none" /\ merges'[j] = Patch(t, s)
      BY <1>1, <1>2 DEF RecordInv
  <2>2. /\ session'.active \in {NoTurn, session'.last} /\ session'.last <= Latest
        /\ session'.last # NoTurn => session'.status # "unknown"
      BY <1>7 DEF RecordInv, OrderInv, Terminal, ActiveStatus
  <2> QED
      BY <1>4, <2>1, <2>2 DEF RecordInv
<1>12. NamedInv'
    BY <1>3, <1>4, <1>5, <1>6, <1>9 DEF NamedInv
<1>13. AnswerInv' /\ ReadInv' /\ StartInv'
  <2>1. AnswerInv'
      BY <1>1, <1>3, <1>4, <1>5, <1>6 DEF AnswerInv
  <2>2. ReadInv'
      BY <1>1, <1>4, <1>5, <1>6 DEF ReadInv
  <2>3. StartInv'
      BY <1>1, <1>4, <1>5, <1>6, <1>9 DEF StartInv
  <2> QED
      BY <2>1, <2>2, <2>3
<1>14. FirstInv' /\ OldNotesInv' /\ LateReadInv' /\ LateAnswerInv'
  <2>1. \A i : AnsweredBefore(i)' <=> AnsweredBefore(i)
      BY <1>1, <1>3, <1>4, <1>5, <1>6 DEF AnsweredBefore
  <2>2. FirstInv'
      BY <1>4, <1>5, <2>1 DEF FirstInv
  <2>3. OldNotesInv'
      BY <1>1, <1>4, <1>5 DEF OldNotesInv
  <2>4. LateReadInv'
      BY <1>1, <1>4, <1>5, <1>6 DEF LateReadInv
  <2>5. LateAnswerInv'
      BY <1>1, <1>2, <1>3, <1>4, <1>6 DEF LateAnswerInv
  <2> QED
      BY <2>2, <2>3, <2>4, <2>5
<1>15. SeenInv' /\ UnseenInv'
  <2>1. \A s : Names(s)' <=> Names(s)
      BY <1>4 DEF Names
  <2>2. \A p : (Sets(p)' <=> Sets(p)) /\ (Keeps(p)' <=> Keeps(p))
      BY <1>4 DEF Sets, Keeps
  <2>3. Sets(merges[1]) /\ Latest \in Turns => Names(session')
    <3> SUFFICES ASSUME NEW s \in ActiveStatus, merges[1] = Patch(Latest, s), Latest \in Turns
                 PROVE  Names(session')
        BY DEF Sets
    <3> QED
        BY <1>1, <1>2, <1>6, PatchedSession DEF Names, IsActive
  <2>4. merges[1] = OwnSummary /\ Names(session) => Names(session')
      BY <1>1, <1>2, NoPatch DEF Names
  <2>5. ASSUME Converges, Latest \in Turns PROVE Converges'
    <3>1. CASE Names(session) /\ \A j \in DOMAIN merges : Keeps(merges[j])
      <4>1. Names(session')
          BY <1>2, <2>3, <2>4, <2>5, <3>1 DEF Keeps
      <4>2. \A j \in DOMAIN merges' : Keeps(merges'[j])
          BY <1>2, <3>1
      <4> QED
          BY <2>1, <2>2, <4>1, <4>2 DEF Converges
    <3>2. ASSUME NEW i \in DOMAIN merges, Sets(merges[i]), \A j \in DOMAIN merges : i < j => Keeps(merges[j])
          PROVE  Converges'
      <4>1. CASE i = 1
        <5>1. \A j \in DOMAIN merges' : Keeps(merges'[j])
            BY <1>2, <3>2, <4>1
        <5> QED
            BY <2>1, <2>2, <2>3, <2>5, <3>2, <4>1, <5>1 DEF Converges
      <4>2. CASE i # 1
        <5>1. i - 1 \in DOMAIN merges' /\ merges'[i - 1] = merges[i]
            BY <1>2, <4>2
        <5>2. \A j \in DOMAIN merges' : i - 1 < j => Keeps(merges'[j])
            BY <1>2, <3>2
        <5> QED
            BY <2>2, <3>2, <5>1, <5>2 DEF Converges
      <4> QED
          BY <4>1, <4>2
    <3> QED
        BY <2>5, <3>1, <3>2 DEF Converges
  <2>6. Runs => Latest \in Turns
      BY Shape DEF Runs, Named
  <2>7. SeenInv'
      BY <1>1, <1>4, <2>5, <2>6 DEF SeenInv
  <2>8. UnseenInv'
      BY <1>1, <1>4, <1>5, <1>8 DEF UnseenInv, Names
  <2> QED
      BY <2>7, <2>8
<1>16. OverInv'
  <2>1. ASSUME NEW n \in Turns, Settled(n) PROVE Settled(n)'
    <3>1. tracked[n].status = "none" =>
             session'.active # n /\ (session'.last = n => ~IsActive(session'.status))
        BY <1>6, <1>7, <2>1 DEF Settled
    <3> QED
        BY <1>1, <1>4, <1>5, <1>6, <2>1, <3>1 DEF Settled
  <2> QED
      BY <1>1, <1>4, <1>5, <2>1 DEF OverInv
<1> QED
    BY <1>10, <1>11, <1>12, <1>13, <1>14, <1>15, <1>16

-----------------------------------------------------------------------------
(* The reader.                                                             *)

\* The first message leaves the wire.
LEMMA TailFrame ==
    ASSUME IInv, IInv', wire # <<>>, wire' = Tail(wire), srv' = srv,
           \A k \in Calls : call'[k].epoch = call[k].epoch
    PROVE  /\ Latest' = Latest /\ 1 \in DOMAIN wire /\ Head(wire) = wire[1] /\ DOMAIN wire \subseteq Nat
           /\ \A i \in DOMAIN wire' : i + 1 \in DOMAIN wire /\ wire'[i] = wire[i + 1] /\ i \in Nat /\ i >= 1
           /\ \A i \in Notes' : i \in DOMAIN wire' /\ i + 1 \in Notes /\ TurnOf(wire'[i]) = TurnOf(wire[i + 1])
           /\ \A i \in Notes : i # 1 => i - 1 \in Notes' /\ wire'[i - 1] = wire[i]
           /\ \A i \in LiveReplies' : i \in DOMAIN wire' /\ i + 1 \in LiveReplies
           /\ \A i \in DOMAIN wire' : /\ Tells(i)' <=> Tells(i + 1)
                                      /\ Announced(i + 1) <=> Announced(i)' \/ Tells(1)
<1>1. WireTypes /\ WireTypes'
    BY DEF IInv, Types
<1>2. /\ 1 \in DOMAIN wire /\ Head(wire) = wire[1]
      /\ \A i \in DOMAIN wire' : i + 1 \in DOMAIN wire /\ wire'[i] = wire[i + 1]
    BY <1>1, WireReceived
<1>3. /\ Len(wire) \in Nat /\ DOMAIN wire = 1..Len(wire) /\ Len(wire)' = Len(wire) - 1
      /\ DOMAIN wire' = 1..(Len(wire) - 1)
  <2>1. Tail(wire) \in Seq(Messages) /\ Len(Tail(wire)) = Len(wire) - 1
      BY <1>1, HeadTailProperties DEF WireTypes
  <2>2. Len(wire) \in Nat /\ DOMAIN wire = 1..Len(wire)
      BY <1>1, LenProperties DEF WireTypes
  <2>3. DOMAIN Tail(wire) = 1..(Len(wire) - 1)
      BY <2>1, LenProperties
  <2> QED
      BY <2>1, <2>2, <2>3
<1>4. Latest' = Latest
    BY SameLatest
<1>5. \A i \in DOMAIN wire : i # 1 => i - 1 \in DOMAIN wire' /\ wire'[i - 1] = wire[i]
    BY <1>2, <1>3
<1>6. \A i \in Notes' : i \in DOMAIN wire' /\ i + 1 \in Notes /\ TurnOf(wire'[i]) = TurnOf(wire[i + 1])
    BY <1>2 DEF Notes, TurnOf
<1>7. \A i \in Notes : i # 1 => i - 1 \in Notes' /\ wire'[i - 1] = wire[i]
    BY <1>5 DEF Notes
<1>8. \A i \in LiveReplies' : i \in DOMAIN wire' /\ i + 1 \in LiveReplies
  <2> TAKE i \in LiveReplies'
  <2>1. i \in DOMAIN wire' /\ wire'[i].kind = "reply" /\ wire'[i].what.epoch = call'[wire'[i].what.call].epoch
      BY DEF LiveReplies, ReplyAt
  <2>2. i + 1 \in ReplyAt /\ wire'[i] = wire[i + 1]
      BY <1>2, <2>1 DEF ReplyAt
  <2>3. wire[i + 1].what.call \in Calls
      BY <1>1, <2>2, WireShape
  <2> QED
      BY <2>1, <2>2, <2>3 DEF LiveReplies
<1>9. \A i \in DOMAIN wire' : Tells(i)' <=> Tells(i + 1)
    BY <1>2, <1>4 DEF Tells
<1>10. ASSUME NEW i \in DOMAIN wire' PROVE Announced(i + 1) <=> Announced(i)' \/ Tells(1)
  <2>1. i \in Nat /\ i >= 1 /\ i + 1 \in DOMAIN wire
      BY <1>2, <1>3
  <2>2. ASSUME Announced(i)' PROVE Announced(i + 1)
    <3>1. PICK j \in DOMAIN wire' : j <= i /\ Tells(j)'
        BY <2>2 DEF Announced
    <3>2. j + 1 \in DOMAIN wire /\ j + 1 <= i + 1 /\ Tells(j + 1)
        BY <1>2, <1>3, <1>9, <2>1, <3>1
    <3> QED
        BY <3>2 DEF Announced
  <2>3. ASSUME Announced(i + 1), ~Tells(1) PROVE Announced(i)'
    <3>1. PICK j \in DOMAIN wire : j <= i + 1 /\ Tells(j)
        BY <2>3 DEF Announced
    <3>2. j # 1
        BY <2>3, <3>1
    <3>3. j - 1 \in DOMAIN wire' /\ j - 1 + 1 = j /\ j - 1 <= i
        BY <1>3, <1>5, <2>1, <3>1, <3>2
    <3>4. Tells(j - 1)'
        BY <1>9, <3>1, <3>3
    <3> QED
        BY <3>3, <3>4 DEF Announced
  <2>4. Tells(1) => Announced(i + 1)
    <3>1. 1 <= i + 1
        BY <2>1
    <3> QED
        BY <1>2, <3>1 DEF Announced
  <2> QED
      BY <2>2, <2>3, <2>4
<1>11. DOMAIN wire \subseteq Nat /\ \A i \in DOMAIN wire' : i \in Nat /\ i >= 1
    BY <1>3
<1> QED
    BY <1>2, <1>4, <1>6, <1>7, <1>8, <1>9, <1>10, <1>11

LEMMA HonestReceiveReply ==
    ASSUME IInv, IInv', Honest, ReceiveReply PROVE Honest'
<1> USE DEF Honest
<1> DEFINE x == wire[1].what
           Accepted == call[x.call].pc = "wait" /\ call[x.call].epoch = x.epoch
<1>1. /\ UNCHANGED <<srv, connected, tracked, current, merges, session, requests, missed>>
      /\ wire # <<>> /\ wire' = Tail(wire)
    BY DEF ReceiveReply, Got, serverVars, memoryVars, historyVars
<1>2. 1 \in ReplyAt /\ Head(wire) = wire[1] /\ x.call \in Calls /\ Accepted \in BOOLEAN
  <2>1. Head(wire) = wire[1] /\ 1 \in DOMAIN wire
      BY <1>1, WireReceived, Parts
  <2>2. 1 \in ReplyAt
      BY <2>1 DEF ReceiveReply, Got, ReplyAt
  <2> QED
      BY <2>1, <2>2, WireShape, Parts
<1>3. call' = IF Accepted
              THEN [call EXCEPT ![x.call] = [@ EXCEPT !.pc = "ready", !.turn = x.turn, !.val = x.val, !.ahead = Len(merges)]]
              ELSE call
    BY <1>2 DEF ReceiveReply, What
<1>4. /\ ~Accepted => call' = call
      /\ \A k \in Calls : k # x.call => call'[k] = call[k]
      /\ Accepted => LET c == call'[x.call] IN
            /\ c.pc = "ready" /\ c.turn = x.turn /\ c.val = x.val /\ c.ahead = Len(merges)
            /\ c.op = call[x.call].op /\ c.epoch = call[x.call].epoch
  <2>1. call \in [Calls -> CallRecords] /\ call[x.call] \in CallRecords
      BY <1>2, Parts DEF CallTypes
  <2>2. CASE Accepted
    <3>1. call'[x.call] = [call[x.call] EXCEPT !.pc = "ready", !.turn = x.turn, !.val = x.val, !.ahead = Len(merges)]
        BY <1>2, <1>3, <2>1, <2>2
    <3> QED
        BY <1>2, <1>3, <2>1, <2>2, <3>1 DEF CallRecords
  <2>3. CASE ~Accepted
      BY <1>3, <2>3
  <2> QED
      BY <2>2, <2>3
<1>5. \A k \in Calls : /\ call'[k].epoch = call[k].epoch /\ call'[k].op = call[k].op
                       /\ (call'[k].pc = "none" <=> call[k].pc = "none")
    BY <1>2, <1>4
<1>6. /\ Latest' = Latest /\ 1 \in DOMAIN wire
      /\ \A i \in DOMAIN wire' : i + 1 \in DOMAIN wire /\ wire'[i] = wire[i + 1] /\ i \in Nat /\ i >= 1
      /\ \A i \in Notes' : i \in DOMAIN wire' /\ i + 1 \in Notes /\ TurnOf(wire'[i]) = TurnOf(wire[i + 1])
      /\ \A i \in Notes : i # 1 => i - 1 \in Notes' /\ wire'[i - 1] = wire[i]
      /\ \A i \in LiveReplies' : i \in DOMAIN wire' /\ i + 1 \in LiveReplies
      /\ \A i \in DOMAIN wire' : /\ Tells(i)' <=> Tells(i + 1)
                                 /\ Announced(i + 1) <=> Announced(i)' \/ Tells(1)
    BY <1>1, <1>5, TailFrame
<1>7. /\ 1 \notin Notes /\ ~Tells(1) /\ (Accepted => 1 \in LiveReplies)
    BY <1>2 DEF ReplyAt, Notes, Tells, LiveReplies
<1>8. \A i \in Notes : i - 1 \in Notes' /\ wire'[i - 1] = wire[i] /\ TurnOf(wire'[i - 1]) = TurnOf(wire[i])
                       /\ i - 1 \in DOMAIN wire' /\ i - 1 + 1 = i
  <2>1. \A i \in Notes : i \in Nat
      BY Shape
  <2> QED
      BY <1>6, <1>7, <2>1 DEF TurnOf
<1>9. \A k \in Calls : \A t, v : Told(k, t, v)' => Told(k, t, v)
  <2> SUFFICES ASSUME NEW k \in Calls, NEW t, NEW v, Told(k, t, v)' PROVE Told(k, t, v)
      OBVIOUS
  <2>1. CASE \E i \in LiveReplies' : wire'[i].what.call = k /\ wire'[i].what.turn = t /\ wire'[i].what.val = v
      BY <1>6, <2>1 DEF Told
  <2>2. CASE call'[k].pc = "ready" /\ call'[k].turn = t /\ call'[k].val = v
      BY <1>4, <1>7, <2>2 DEF Told
  <2> QED
      BY <2>1, <2>2 DEF Told
<1>10. \A k \in Calls : \A op : Under(k, op)' <=> Under(k, op)
    BY <1>5 DEF Under
<1>11. Runs' = Runs /\ Unseen' = Unseen /\ (\A n \in Turns : Over(n)' <=> Over(n))
    BY <1>1, <1>6 DEF Runs, Unseen, Over
<1>12. {"submit", "progress", "cancel"} = Calls /\ "ok" \in Values
    BY DEF Calls, Values
<1> HIDE DEF Accepted
<1>13. OrderInv' /\ RecordInv'
    BY <1>1, <1>6 DEF OrderInv, RecordInv
<1>14. LossInv'
  <2>1. Notes = {} => Notes' = {}
      BY <1>6
  <2>2. (\A i \in Notes' : ~Tells(i)') => \A i \in Notes : ~Tells(i)
      BY <1>6, <1>8
  <2> QED
      BY <1>1, <1>6, <1>11, <2>1, <2>2 DEF LossInv
<1>15. NamedInv'
    BY <1>1, <1>5, <1>6, <1>10, <1>11, <1>12 DEF NamedInv
<1>16. AnswerInv'
  <2>1. \A k \in {"progress", "cancel"} : call'[k].pc # "none" => call'[k].turn = Latest
    <3> TAKE k \in {"progress", "cancel"}
    <3>1. CASE Accepted /\ k = x.call
      <4>1. Told(k, x.turn, x.val) /\ x.turn \in Named /\ x.val \in Values
        <5>1. 1 \in LiveReplies
            BY <1>7, <3>1
        <5> QED
            BY <3>1, <5>1, Shape DEF Told
      <4>2. x.turn = Latest
          BY <4>1 DEF AnswerInv
      <4> QED
          BY <1>4, <3>1, <4>2
    <3>2. CASE ~(Accepted /\ k = x.call)
      <4>1. call'[k] = call[k]
          BY <1>4, <1>12, <3>2
      <4> QED
          BY <4>1 DEF AnswerInv
    <3> QED
        BY <3>1, <3>2
  <2> QED
      BY <1>1, <1>6, <1>9, <1>11, <1>12, <2>1 DEF AnswerInv
<1>17. ReadInv' /\ StartInv'
  <2>1. ReadInv'
      BY <1>1, <1>6, <1>9, <1>10, <1>11, <1>12 DEF ReadInv
  <2>2. StartInv'
      BY <1>1, <1>6, <1>9, <1>10, <1>11, <1>12 DEF StartInv
  <2> QED
      BY <2>1, <2>2
<1>18. FirstInv'
  <2>1. ASSUME NEW i \in Notes', AnsweredBefore(i)' PROVE AnsweredBefore(i + 1)
    <3>1. Under("submit", "start") /\ i \in Nat /\ i >= 1
        BY <1>6, <1>10, <1>12, <2>1 DEF AnsweredBefore
    <3>2. CASE call'["submit"].pc = "ready" /\ call'["submit"].val # "error"
      <4>1. CASE Accepted /\ x.call = "submit"
        <5>1. 1 \in LiveReplies /\ 1 < i + 1
            BY <1>7, <3>1, <4>1
        <5> QED
            BY <3>1, <4>1, <5>1 DEF AnsweredBefore
      <4>2. CASE ~(Accepted /\ x.call = "submit")
        <5>1. call'["submit"] = call["submit"]
            BY <1>4, <1>12, <4>2
        <5> QED
            BY <3>1, <3>2, <5>1 DEF AnsweredBefore
      <4> QED
          BY <4>1, <4>2
    <3>3. ASSUME NEW k \in LiveReplies', k < i, wire'[k].what.call = "submit" PROVE AnsweredBefore(i + 1)
      <4>1. k + 1 \in LiveReplies /\ wire'[k] = wire[k + 1] /\ k + 1 < i + 1
          BY <1>6, <3>1, <3>3
      <4> QED
          BY <3>1, <3>3, <4>1 DEF AnsweredBefore
    <3> QED
        BY <2>1, <3>2, <3>3 DEF AnsweredBefore
  <2>2. \A i \in Notes' : Announced(i)' <=> Announced(i + 1)
      BY <1>6, <1>7
  <2> QED
      BY <1>6, <1>11, <2>1, <2>2 DEF FirstInv
<1>19. OldNotesInv'
    BY <1>6, <1>7, <1>11 DEF OldNotesInv
<1>20. LateReadInv'
  <2> SUFFICES ASSUME Unseen, Under("submit", "read"), NEW i \in LiveReplies', NEW j \in Notes',
                      wire'[i].what.call = "submit", Tells(j)'
               PROVE  j < i
      BY <1>10, <1>11, <1>12 DEF LateReadInv
  <2>1. i + 1 \in LiveReplies /\ wire'[i] = wire[i + 1] /\ j + 1 \in Notes /\ Tells(j + 1) /\ i \in Nat /\ j \in Nat
      BY <1>6
  <2>2. j + 1 < i + 1
      BY <2>1 DEF LateReadInv
  <2> QED
      BY <2>1, <2>2
<1>21. LateAnswerInv'
  <2> SUFFICES ASSUME Unseen, call'["submit"].pc = "ready", call'["submit"].val # "error", call'["submit"].op # "steer"
               PROVE  call'["submit"].ahead = Len(merges) /\ (call'["submit"].op = "read" => ~connected)
      BY <1>1, <1>11 DEF LateAnswerInv
  <2>1. CASE Accepted /\ x.call = "submit"
    <3>1. call'["submit"].ahead = Len(merges)
        BY <1>4, <2>1
    <3>2. ASSUME call'["submit"].op = "read" PROVE ~connected
      <4>1. Under("submit", "read") /\ 1 \in LiveReplies
          BY <1>5, <1>7, <1>12, <2>1, <3>2 DEF Under, Accepted
      <4>2. \A j \in Notes : Tells(j) => j < 1
          BY <2>1, <4>1 DEF LateReadInv
      <4>3. \A j \in Notes : j \in Nat /\ j >= 1
          BY <1>8, <1>6, Shape
      <4>4. \A j \in Notes : ~Tells(j)
          BY <4>2, <4>3
      <4> QED
          BY <4>4 DEF LossInv
    <3> QED
        BY <3>1, <3>2
  <2>2. CASE ~(Accepted /\ x.call = "submit")
    <3>1. call'["submit"] = call["submit"]
        BY <1>4, <1>12, <2>2
    <3> QED
        BY <3>1 DEF LateAnswerInv
  <2> QED
      BY <2>1, <2>2
<1>22. RunningInv'
    BY <1>1, <1>6 DEF RunningInv
<1>23. SeenInv' /\ UnseenInv'
  <2>1. \A s : Names(s)' <=> Names(s)
      BY <1>6 DEF Names
  <2>2. \A p : (Sets(p)' <=> Sets(p)) /\ (Keeps(p)' <=> Keeps(p))
      BY <1>6 DEF Sets, Keeps
  <2>3. Converges' <=> Converges
      BY <1>1, <2>1, <2>2 DEF Converges
  <2>4. SeenInv'
      BY <1>1, <1>6, <1>11, <2>3 DEF SeenInv
  <2>5. (\E i \in Notes : Tells(i)) => \E i \in Notes' : Tells(i)'
      BY <1>6, <1>8
  <2> QED
      BY <1>1, <1>6, <1>11, <2>1, <2>4, <2>5 DEF UnseenInv
<1>24. OverInv'
  <2>1. ASSUME NEW n \in Turns, Settled(n) PROVE Settled(n)'
    <3>1. n \in Named /\ Terminal \cup {"ok", "running"} \subseteq Values
        BY DEF Named, Values, Terminal, Statuses
    <3> QED
        BY <1>1, <1>6, <1>9, <1>10, <1>12, <2>1 DEF Settled
  <2>2. ASSUME NEW n \in Turns, NEW i \in Notes, wire[i].kind = "ended", TurnOf(wire[i]) = n
        PROVE  \E j \in Notes' : wire'[j].kind = "ended" /\ TurnOf(wire'[j]) = n
      BY <1>8, <2>2
  <2> QED
      BY <1>1, <1>11, <2>1, <2>2 DEF OverInv
<1> QED
    BY <1>13, <1>14, <1>15, <1>16, <1>17, <1>18, <1>19, <1>20, <1>21, <1>22, <1>23, <1>24

\* A notification about turn t is received: the turn's entry becomes e, and patch p is scheduled.
LEMMA HonestNotified ==
    ASSUME IInv, IInv', Honest, wire # <<>>, wire' = Tail(wire),
           UNCHANGED <<srv, requests, connected, call, session, missed>>,
           Head(wire).kind # "reply", NEW t, t = TurnOf(Head(wire)),
           NEW e, tracked' = [tracked EXCEPT ![t] = e], NEW p \in Patches, merges' = Append(merges, p),
           e.status \in Terminal \cup ActiveStatus,
           srv[t] = "running" => e.status \in ActiveStatus /\ ~e.finished,
           tracked[t].finished \/ Head(wire).kind = "ended" => e.finished,
           current' \in {current, t}, Head(wire).kind # "started" => current' = current,
           Head(wire).kind = "started" /\ e.status \in ActiveStatus => current' = t,
           p \in {OwnSummary, Patch(t, e.status)},
           current' \in {NoTurn, t} => p = Patch(t, e.status),
           Head(wire).kind # "ask" /\ current' \notin {NoTurn, t} => p = OwnSummary
    PROVE  Honest'
<1> USE DEF Honest
<1>1. /\ Latest' = Latest /\ 1 \in DOMAIN wire /\ Head(wire) = wire[1]
      /\ \A i \in DOMAIN wire' : i + 1 \in DOMAIN wire /\ wire'[i] = wire[i + 1] /\ i \in Nat /\ i >= 1
      /\ \A i \in Notes' : i \in DOMAIN wire' /\ i + 1 \in Notes /\ TurnOf(wire'[i]) = TurnOf(wire[i + 1])
      /\ \A i \in Notes : i # 1 => i - 1 \in Notes' /\ wire'[i - 1] = wire[i]
      /\ \A i \in LiveReplies' : i \in DOMAIN wire' /\ i + 1 \in LiveReplies
      /\ \A i \in DOMAIN wire' : /\ Tells(i)' <=> Tells(i + 1)
                                 /\ Announced(i + 1) <=> Announced(i)' \/ Tells(1)
    BY TailFrame
<1>2. 1 \in Notes /\ t \in Turns /\ connected
  <2>1. 1 \in Notes
      BY <1>1 DEF Notes
  <2>2. t \in Turns
      BY <1>1, <2>1, Shape
  <2> QED
      BY <2>1, <2>2 DEF LossInv
<1>3. tracked'[t] = e /\ \A u \in Turns : u # t => tracked'[u] = tracked[u]
    BY <1>2, EntryOf, Parts
<1>4. e.status # "none"
    BY DEF Terminal, ActiveStatus
<1>5. /\ Len(merges) \in Nat /\ DOMAIN merges = 1..Len(merges) /\ DOMAIN merges' = 1..(Len(merges) + 1)
      /\ \A j \in DOMAIN merges : merges'[j] = merges[j]
      /\ merges'[Len(merges) + 1] = p
  <2>1. merges \in Seq(Patches)
      BY Parts DEF SessionTypes
  <2>2. Len(merges) \in Nat /\ DOMAIN merges = 1..Len(merges)
      BY Shape
  <2>3. /\ merges' \in Seq(Patches) /\ Len(merges') = Len(merges) + 1
        /\ \A j \in 1..Len(merges) : merges'[j] = merges[j]
        /\ merges'[Len(merges) + 1] = p
      BY <2>1, AppendProperties
  <2> QED
      BY <2>2, <2>3, LenProperties
<1>6. Unseen' => Unseen /\ t # Latest
    BY <1>1, <1>3, <1>4 DEF Unseen
<1>7. Tells(1) => t = Latest /\ wire[1].kind = "started"
    BY <1>1 DEF Tells, TurnOf
<1>8. Unseen /\ (t = Latest \/ AnsweredBefore(1)) => Tells(1)
  <2>1. Unseen /\ (t = Latest \/ AnsweredBefore(1)) => Announced(1)
      BY <1>1, <1>2 DEF FirstInv
  <2>2. Announced(1) => Tells(1)
    <3>1. \A j \in DOMAIN wire : j <= 1 => j = 1
        BY Shape
    <3> QED
        BY <3>1 DEF Announced
  <2> QED
      BY <2>1, <2>2
<1>9. Unseen => session.last # Latest /\ call["progress"].pc = "none" /\ call["cancel"].pc = "none"
    BY <1>2 DEF NamedInv
<1>10. Runs' = Runs /\ (\A n \in Turns : Over(n)' <=> Over(n)) /\ (Unseen /\ t # Latest => Unseen')
       /\ (\A k, op : Under(k, op)' <=> Under(k, op))
    BY <1>1, <1>2, <1>3, Shape DEF Runs, Over, Unseen, Under, Named
<1>11. \A k \in Calls : \A u, v : Told(k, u, v)' => Told(k, u, v)
    BY <1>1 DEF Told
<1>12. {"submit", "progress", "cancel"} = Calls /\ "ok" \in Values /\ t \in Nat
       /\ (\A u \in Turns : u \in Nat) /\ Latest \in Nat
    BY <1>2, Shape DEF Calls, Values
<1>13. OrderInv'
    BY <1>1, <1>2, <1>3, <1>4 DEF OrderInv
<1>14. RecordInv'
  <2>1. \A j \in DOMAIN merges' : merges'[j] = OwnSummary \/
          \E u \in Turns, s \in Terminal \cup ActiveStatus :
             tracked'[u].status # "none" /\ merges'[j] = Patch(u, s)
    <3> TAKE j \in DOMAIN merges'
    <3>1. CASE j = Len(merges) + 1
        BY <1>2, <1>3, <1>4, <1>5, <3>1
    <3>2. CASE j \in DOMAIN merges
      <4>1. \A u \in Turns : tracked[u].status # "none" => tracked'[u].status # "none"
          BY <1>3, <1>4
      <4> QED
          BY <1>5, <3>2, <4>1 DEF RecordInv
    <3> QED
        BY <1>5, <3>1, <3>2
  <2> QED
      BY <1>1, <2>1 DEF RecordInv
<1>15. LossInv'
  <2>1. ASSUME Unseen', \A i \in Notes' : ~Tells(i)' PROVE FALSE
    <3>1. Unseen /\ ~Tells(1)
        BY <1>6, <1>7, <2>1
    <3>2. PICK i \in Notes : Tells(i)
        BY <1>2, <3>1 DEF LossInv
    <3>3. i - 1 \in Notes' /\ i - 1 + 1 = i /\ i - 1 \in DOMAIN wire'
        BY <1>1, <3>1, <3>2, Shape
    <3> QED
        BY <1>1, <2>1, <3>2, <3>3
  <2> QED
      BY <1>1, <1>2, <2>1 DEF LossInv
<1>16. NamedInv'
    BY <1>1, <1>6, <1>9, <1>10 DEF NamedInv
<1>17. AnswerInv' /\ ReadInv' /\ StartInv'
  <2>1. AnswerInv'
      BY <1>1, <1>10, <1>11, <1>12 DEF AnswerInv
  <2>2. ReadInv'
      BY <1>1, <1>10, <1>11, <1>12 DEF ReadInv
  <2>3. StartInv'
      BY <1>1, <1>6, <1>10, <1>11, <1>12 DEF StartInv
  <2> QED
      BY <2>1, <2>2, <2>3
<1>18. FirstInv'
  <2> SUFFICES ASSUME Unseen', NEW i \in Notes', TurnOf(wire'[i]) = Latest \/ AnsweredBefore(i)' PROVE Announced(i)'
      BY <1>1 DEF FirstInv
  <2>1. AnsweredBefore(i)' => AnsweredBefore(i + 1)
    <3>1. \A k \in LiveReplies' : k < i => k + 1 \in LiveReplies /\ wire'[k] = wire[k + 1] /\ k + 1 < i + 1
        BY <1>1
    <3> QED
        BY <1>10, <3>1 DEF AnsweredBefore
  <2>2. Announced(i + 1) /\ ~Tells(1)
      BY <1>1, <1>6, <1>7, <2>1 DEF FirstInv
  <2> QED
      BY <1>1, <2>2
<1>19. OldNotesInv'
    BY <1>1, <1>8, <1>10 DEF OldNotesInv
<1>20. LateReadInv'
  <2> SUFFICES ASSUME Unseen, Under("submit", "read"), NEW i \in LiveReplies', NEW j \in Notes',
                      wire'[i].what.call = "submit", Tells(j)'
               PROVE  j < i
      BY <1>6, <1>10 DEF LateReadInv
  <2>1. i + 1 \in LiveReplies /\ wire'[i] = wire[i + 1] /\ j + 1 \in Notes /\ Tells(j + 1) /\ i \in Nat /\ j \in Nat
      BY <1>1
  <2>2. j + 1 < i + 1
      BY <2>1 DEF LateReadInv
  <2> QED
      BY <2>1, <2>2
<1>21. LateAnswerInv'
  <2> SUFFICES ASSUME Unseen, t # Latest, call["submit"].pc = "ready", call["submit"].val # "error",
                      call["submit"].op # "steer"
               PROVE  FALSE
      BY <1>6 DEF LateAnswerInv
  <2>1. call["submit"].op \in {"start", "read"}
      BY <1>12 DEF IInv, CallInv, OpsOf
  <2>2. call["submit"].op # "read"
      BY <1>2 DEF LateAnswerInv
  <2>3. AnsweredBefore(1)
      BY <2>1, <2>2 DEF AnsweredBefore, Under
  <2> QED
      BY <1>7, <1>8, <2>3
<1>22. RunningInv'
    BY <1>1, <1>3 DEF RunningInv
<1>23. SeenInv'
  <2> SUFFICES ASSUME Runs, ~Unseen' PROVE current' = Latest /\ Converges'
      BY <1>1, <1>10 DEF SeenInv
  <2>1. \A s : Names(s)' <=> Names(s)
      BY <1>1 DEF Names
  <2>2. \A q : (Sets(q)' <=> Sets(q)) /\ (Keeps(q)' <=> Keeps(q))
      BY <1>1 DEF Sets, Keeps
  <2>3. t = Latest => e.status \in ActiveStatus
      BY DEF Runs
  <2>4. CASE ~Unseen
    <3>1. current = Latest /\ Converges /\ Latest # NoTurn
        BY <2>4 DEF SeenInv, Runs
    <3>2. wire[1].kind \in {"started", "ask"} => t = Latest
        BY <1>1, <1>2, <2>4 DEF OldNotesInv
    <3>3. current' = Latest
        BY <1>1, <3>1, <3>2
    <3>4. Keeps(p)
        BY <1>1, <2>3, <3>1, <3>2, <3>3 DEF Keeps, Sets
    <3>5. CASE Names(session) /\ \A j \in DOMAIN merges : Keeps(merges[j])
      <4>1. \A j \in DOMAIN merges' : Keeps(merges'[j])
          BY <1>5, <3>4, <3>5
      <4> QED
          BY <2>1, <2>2, <3>3, <3>5, <4>1 DEF Converges
    <3>6. ASSUME NEW i \in DOMAIN merges, Sets(merges[i]), \A j \in DOMAIN merges : i < j => Keeps(merges[j])
          PROVE  Converges'
      <4>1. i \in DOMAIN merges' /\ Sets(merges'[i])
          BY <1>5, <3>6
      <4>2. \A j \in DOMAIN merges' : i < j => Keeps(merges'[j])
          BY <1>5, <3>4, <3>6
      <4> QED
          BY <2>2, <4>1, <4>2 DEF Converges
    <3> QED
        BY <3>1, <3>3, <3>5, <3>6 DEF Converges
  <2>5. CASE Unseen
    <3>1. t = Latest /\ wire[1].kind = "started"
        BY <1>7, <1>8, <1>10, <2>5
    <3>2. current' = Latest /\ Sets(p)
        BY <1>1, <2>3, <3>1 DEF Sets
    <3>3. Len(merges) + 1 \in DOMAIN merges' /\ \A j \in DOMAIN merges' : ~(Len(merges) + 1 < j)
        BY <1>5
    <3> QED
        BY <1>5, <2>2, <3>2, <3>3 DEF Converges
  <2> QED
      BY <2>4, <2>5
<1>24. UnseenInv'
  <2> SUFFICES ASSUME Runs, Unseen', Latest \notin missed PROVE \E i \in Notes' : Tells(i)'
      BY <1>1, <1>10 DEF UnseenInv
  <2>1. Unseen /\ ~Tells(1)
      BY <1>6, <1>7
  <2>2. PICK i \in Notes : Tells(i)
      BY <1>9, <2>1 DEF UnseenInv, Names
  <2>3. i - 1 \in Notes' /\ i - 1 + 1 = i /\ i - 1 \in DOMAIN wire'
      BY <1>1, <2>1, <2>2, Shape
  <2> QED
      BY <1>1, <2>2, <2>3
<1>25. OverInv'
  <2>1. ASSUME NEW n \in Turns, Settled(n) PROVE Settled(n)'
    <3>1. n \in Named /\ Terminal \cup {"ok", "running"} \subseteq Values
        BY DEF Named, Values, Terminal, Statuses
    <3>2. n # t
        BY <1>1, <1>2, <2>1 DEF Settled
    <3> QED
        BY <1>1, <1>3, <1>10, <1>11, <1>12, <2>1, <3>1, <3>2 DEF Settled
  <2>2. ASSUME NEW n \in Turns, NEW i \in Notes, wire[i].kind = "ended", TurnOf(wire[i]) = n
        PROVE  \/ tracked'[n].finished
               \/ \E j \in Notes' : wire'[j].kind = "ended" /\ TurnOf(wire'[j]) = n
    <3>1. CASE i = 1
        BY <1>1, <1>3, <2>2, <3>1
    <3>2. CASE i # 1
      <4>1. TurnOf(wire'[i - 1]) = n
          BY <1>1, <2>2, <3>2 DEF TurnOf
      <4> QED
          BY <1>1, <2>2, <3>2, <4>1
    <3> QED
        BY <3>1, <3>2
  <2>3. \A n \in Turns : tracked[n].finished => tracked'[n].finished
      BY <1>3
  <2> QED
      BY <1>1, <1>10, <2>1, <2>2, <2>3 DEF OverInv
<1> QED
    BY <1>13, <1>14, <1>15, <1>16, <1>17, <1>18, <1>19, <1>20, <1>21, <1>22, <1>23, <1>24, <1>25

\* What ensure_turn makes of a turn.
LEMMA EnsuredRuns ==
    ASSUME IInv, Honest, NEW t \in Turns
    PROVE  /\ Ensured(t) \in Entries /\ Ensured(t).status \in Terminal \cup ActiveStatus
           /\ Ensured(t).finished = tracked[t].finished
           /\ srv[t] = "running" => Ensured(t).status \in ActiveStatus /\ ~Ensured(t).finished
<1>1. MemoryTypes /\ tracked[t] \in Entries
    BY EntryFields, Parts
<1>2. /\ Ensured(t) \in Entries /\ Ensured(t).status \in Terminal \cup ActiveStatus
    BY <1>1, EnsuredEntry
<1>3. /\ Ensured(t).finished = tracked[t].finished
      /\ Ensured(t).status = IF tracked[t].status = "none" THEN "running" ELSE tracked[t].status
    BY <1>1 DEF Ensured, Entries
<1> QED
    BY <1>2, <1>3 DEF Honest, RunningInv, ActiveStatus

\* The patch that handle_notification schedules.
LEMMA NotifiedPatch ==
    ASSUME NEW t \in Turns, NEW e, e.status \in Terminal \cup ActiveStatus, NEW now,
           Notified(t, e, now)
    PROVE  \E p \in Patches : /\ merges' = Append(merges, p) /\ p \in {OwnSummary, Patch(t, e.status)}
                              /\ now \in {NoTurn, t} => p = Patch(t, e.status)
                              /\ now \notin {NoTurn, t} => p = OwnSummary
<1>1. OwnSummary \in Patches /\ Patch(t, e.status) \in Patches
    BY OwnSummaryType, PatchTypes DEF RecordStatuses
<1> QED
    BY <1>1 DEF Notified, ScheduleMerge

\* The note at the head of the wire.
LEMMA HeadNote ==
    ASSUME IInv, wire # <<>>, Head(wire).kind # "reply"
    PROVE  /\ 1 \in Notes /\ Head(wire) = wire[1] /\ TurnOf(Head(wire)) \in Turns
           /\ Head(wire).kind \in {"started", "item"} => TurnOf(Head(wire)) = Head(wire).what
           /\ Head(wire).kind \in {"ended", "ask"} => TurnOf(Head(wire)) = Head(wire).what.turn
<1>1. 1 \in DOMAIN wire /\ Head(wire) = wire[1]
    BY Shape, EmptySeq, Parts DEF WireTypes
<1>2. 1 \in Notes
    BY <1>1 DEF Notes
<1> QED
    BY <1>1, <1>2, Shape DEF TurnOf

LEMMA HonestReceiveStarted ==
    ASSUME IInv, IInv', Honest, ReceiveStarted PROVE Honest'
<1> DEFINE t == What
           now == IF Ensured(t).status \in Terminal THEN current ELSE t
<1>1. /\ wire # <<>> /\ wire' = Tail(wire) /\ Head(wire).kind = "started" /\ Notified(t, Ensured(t), now)
      /\ UNCHANGED <<srv, requests, connected, call, session, missed>>
    BY DEF ReceiveStarted, Got, serverVars, historyVars
<1>2. t \in Turns /\ t = TurnOf(Head(wire))
    BY <1>1, HeadNote DEF What
<1>3. /\ Ensured(t).status \in Terminal \cup ActiveStatus
      /\ Ensured(t).finished = tracked[t].finished
      /\ srv[t] = "running" => Ensured(t).status \in ActiveStatus /\ ~Ensured(t).finished
    BY <1>2, EnsuredRuns
<1>4. Ensured(t).status \in ActiveStatus => now = t
    BY DEF ActiveStatus, Terminal
<1> HIDE DEF now
<1>5. PICK p \in Patches : /\ merges' = Append(merges, p) /\ p \in {OwnSummary, Patch(t, Ensured(t).status)}
                           /\ now \in {NoTurn, t} => p = Patch(t, Ensured(t).status)
                           /\ now \notin {NoTurn, t} => p = OwnSummary
    BY <1>1, <1>2, <1>3, NotifiedPatch
<1>6. tracked' = [tracked EXCEPT ![t] = Ensured(t)] /\ current' = now /\ now \in {current, t}
    BY <1>1 DEF Notified, now
<1> HIDE DEF t
<1> QED
    BY <1>1, <1>2, <1>3, <1>4, <1>5, <1>6, HonestNotified

LEMMA HonestReceiveItem ==
    ASSUME IInv, IInv', Honest, ReceiveItem PROVE Honest'
<1> DEFINE t == What
<1>1. /\ wire # <<>> /\ wire' = Tail(wire) /\ Head(wire).kind = "item" /\ Notified(t, Ensured(t), current)
      /\ UNCHANGED <<srv, requests, connected, call, session, missed>>
    BY DEF ReceiveItem, Got, serverVars, historyVars
<1>2. t \in Turns /\ t = TurnOf(Head(wire))
    BY <1>1, HeadNote DEF What
<1>3. /\ Ensured(t).status \in Terminal \cup ActiveStatus
      /\ Ensured(t).finished = tracked[t].finished
      /\ srv[t] = "running" => Ensured(t).status \in ActiveStatus /\ ~Ensured(t).finished
    BY <1>2, EnsuredRuns
<1>5. PICK p \in Patches : /\ merges' = Append(merges, p) /\ p \in {OwnSummary, Patch(t, Ensured(t).status)}
                           /\ current \in {NoTurn, t} => p = Patch(t, Ensured(t).status)
                           /\ current \notin {NoTurn, t} => p = OwnSummary
    BY <1>1, <1>2, <1>3, NotifiedPatch
<1>6. tracked' = [tracked EXCEPT ![t] = Ensured(t)] /\ current' = current
    BY <1>1 DEF Notified
<1> HIDE DEF t
<1> QED
    BY <1>1, <1>2, <1>3, <1>5, <1>6, HonestNotified

LEMMA HonestReceiveEnded ==
    ASSUME IInv, IInv', Honest, ReceiveEnded PROVE Honest'
<1> DEFINE t == What.turn
           status == IF What.failed THEN "failed"
                     ELSE IF Ensured(t).status = "cancelled" THEN "cancelled" ELSE "completed"
           e == [Ensured(t) EXCEPT !.status = status, !.finished = TRUE]
<1>1. /\ wire # <<>> /\ wire' = Tail(wire) /\ Head(wire).kind = "ended" /\ Notified(t, e, current)
      /\ UNCHANGED <<srv, requests, connected, call, session, missed>>
    BY DEF ReceiveEnded, Got, serverVars, historyVars
<1>2. t \in Turns /\ t = TurnOf(Head(wire)) /\ 1 \in Notes /\ wire[1] = Head(wire)
    BY <1>1, HeadNote DEF What
<1>3. status \in Terminal
    BY DEF Terminal
<1>4. e.status = status /\ e.finished = TRUE
  <2>1. Ensured(t) \in Entries
      BY <1>2, EnsuredRuns
  <2> HIDE DEF status
  <2> QED
      BY <2>1 DEF Entries
<1>5. srv[t] # "running"
    BY <1>1, <1>2 DEF Honest, RunningInv
<1> HIDE DEF e, status
<1>6. PICK p \in Patches : /\ merges' = Append(merges, p) /\ p \in {OwnSummary, Patch(t, e.status)}
                           /\ current \in {NoTurn, t} => p = Patch(t, e.status)
                           /\ current \notin {NoTurn, t} => p = OwnSummary
    BY <1>1, <1>2, <1>3, <1>4, NotifiedPatch
<1>7. tracked' = [tracked EXCEPT ![t] = e] /\ current' = current
    BY <1>1 DEF Notified
<1> HIDE DEF t
<1> QED
    BY <1>1, <1>2, <1>3, <1>4, <1>5, <1>6, <1>7, HonestNotified

LEMMA HonestReceiveAsk ==
    ASSUME IInv, IInv', Honest, ReceiveAsk PROVE Honest'
<1> DEFINE t == What.turn
           e == [Ensured(t) EXCEPT !.status = "waiting", !.asks = @ \cup {What.ask}]
<1>1. /\ wire # <<>> /\ wire' = Tail(wire) /\ Head(wire).kind = "ask"
      /\ tracked' = [tracked EXCEPT ![t] = e] /\ merges' = Append(merges, Patch(t, "waiting"))
      /\ UNCHANGED <<srv, requests, connected, call, session, missed, current>>
    BY DEF ReceiveAsk, Got, serverVars, historyVars, ScheduleMerge
<1>2. t \in Turns /\ t = TurnOf(Head(wire))
    BY <1>1, HeadNote DEF What
<1>3. e.status = "waiting" /\ e.finished = Ensured(t).finished
  <2>1. Ensured(t) \in Entries
      BY <1>2, EnsuredRuns
  <2> QED
      BY <2>1 DEF Entries
<1>4. /\ Ensured(t).finished = tracked[t].finished
      /\ srv[t] = "running" => ~Ensured(t).finished
    BY <1>2, EnsuredRuns
<1>5. Patch(t, "waiting") \in Patches /\ "waiting" \in ActiveStatus
    BY <1>2, PatchTypes DEF RecordStatuses, ActiveStatus
<1> HIDE DEF e, t
<1> QED
    BY <1>1, <1>2, <1>3, <1>4, <1>5, HonestNotified

-----------------------------------------------------------------------------
(* Approvals.                                                              *)

\* A turn waits for less.
LEMMA HonestFrame ==
    ASSUME IInv, IInv', Honest,
           UNCHANGED <<srv, requests, wire, connected, call, current, merges, session, missed>>,
           \A t \in Turns : /\ tracked'[t].status = tracked[t].status
                               \/ (tracked[t].status = "waiting" /\ tracked'[t].status = "running")
                            /\ tracked'[t].finished = tracked[t].finished
                            /\ tracked'[t].asks \subseteq tracked[t].asks
    PROVE  Honest'
<1> USE DEF Honest
<1>1. Latest' = Latest /\ Notes' = Notes /\ Runs' = Runs /\ LiveReplies' = LiveReplies
  <2>1. Latest' = Latest
      BY SameLatest
  <2> QED
      BY <2>1 DEF Notes, Runs, LiveReplies, ReplyAt
<1>2. \A t \in Turns : tracked'[t].status = "none" <=> tracked[t].status = "none"
    OBVIOUS
<1>3. Unseen' = Unseen
    BY <1>1, <1>2, Shape DEF Unseen, Named
<1>4. /\ \A k, t, v : Told(k, t, v)' <=> Told(k, t, v)
      /\ \A k, op : Under(k, op)' <=> Under(k, op)
      /\ \A i : TurnOf(wire[i])' = TurnOf(wire[i]) /\ (Tells(i)' <=> Tells(i)) /\ (Announced(i)' <=> Announced(i))
      /\ \A n \in Turns : Over(n)' <=> Over(n)
    BY <1>1 DEF Told, Under, TurnOf, Tells, Announced, Over
<1>5. \A i : AnsweredBefore(i)' <=> AnsweredBefore(i)
    BY <1>1, <1>4 DEF AnsweredBefore
<1>6. OrderInv'
    BY <1>1, <1>2, <1>4 DEF OrderInv
<1>7. RecordInv'
    BY <1>1, <1>2 DEF RecordInv
<1>8. LossInv' /\ NamedInv'
    BY <1>1, <1>3, <1>4 DEF LossInv, NamedInv
<1>9. AnswerInv' /\ ReadInv' /\ StartInv'
    BY <1>1, <1>3, <1>4 DEF AnswerInv, ReadInv, StartInv
<1>10. FirstInv' /\ OldNotesInv' /\ LateReadInv' /\ LateAnswerInv'
    BY <1>1, <1>3, <1>4, <1>5 DEF FirstInv, OldNotesInv, LateReadInv, LateAnswerInv
<1>11. RunningInv'
    BY <1>1, <1>4 DEF RunningInv, ActiveStatus
<1>12. SeenInv' /\ UnseenInv'
  <2>1. Converges' <=> Converges
      BY <1>1 DEF Converges, Names, Keeps, Sets
  <2> QED
      BY <1>1, <1>3, <1>4, <2>1 DEF SeenInv, UnseenInv, Names
<1>13. OverInv'
  <2>1. ASSUME NEW n \in Turns, Settled(n) PROVE Settled(n)'
    <3>1. tracked[n].status \in {"none"} \cup Terminal /\ tracked[n].asks = {}
        BY <2>1 DEF Settled
    <3>2. tracked'[n].status = tracked[n].status /\ tracked'[n].asks = {}
        BY <3>1 DEF Terminal
    <3> QED
        BY <1>1, <1>4, <2>1, <3>2 DEF Settled
  <2> QED
      BY <1>1, <1>4, <2>1 DEF OverInv
<1> QED
    BY <1>6, <1>7, <1>8, <1>9, <1>10, <1>11, <1>12, <1>13

LEMMA HonestAnswerSent ==
    ASSUME IInv, IInv', Honest, NEW x \in Answerers, AnswerSent(x) PROVE Honest'
<1>1. UNCHANGED <<srv, requests, wire, connected, call, current, merges, session, missed>>
    BY DEF AnswerSent, serverVars, historyVars
<1>2. ASSUME NEW t \in Turns
      PROVE  /\ tracked'[t].status = tracked[t].status
                \/ (tracked[t].status = "waiting" /\ tracked'[t].status = "running")
             /\ tracked'[t].finished = tracked[t].finished
             /\ tracked'[t].asks \subseteq tracked[t].asks
  <2>1. tracked[t] \in Entries
      BY EntryFields, Parts
  <2>2. CASE tracked' = tracked
      BY <2>2
  <2>3. CASE tracked'[t] = WithoutAsk(tracked[t], answering[x])
    <3> DEFINE asks == tracked[t].asks \ {answering[x]}
               status == IF asks = {} /\ tracked[t].status = "waiting" THEN "running" ELSE tracked[t].status
    <3>1. tracked'[t] = [tracked[t] EXCEPT !.asks = asks, !.status = status]
        BY <2>3 DEF WithoutAsk
    <3>2. status = tracked[t].status \/ (tracked[t].status = "waiting" /\ status = "running")
        OBVIOUS
    <3>3. asks \subseteq tracked[t].asks
        OBVIOUS
    <3> HIDE DEF asks, status
    <3>4. tracked'[t].status = status /\ tracked'[t].asks = asks /\ tracked'[t].finished = tracked[t].finished
        BY <2>1, <3>1 DEF Entries
    <3> QED
        BY <3>2, <3>3, <3>4
  <2> QED
      BY <2>2, <2>3 DEF AnswerSent
<1> QED
    BY <1>1, <1>2, HonestFrame

LEMMA HonestAnswerSend ==
    ASSUME IInv, IInv', Honest, NEW x, NEW a, AnswerSend(x, a) PROVE Honest'
BY HonestFrame DEF AnswerSend, serverVars, memoryVars, historyVars

-----------------------------------------------------------------------------
(* The server.                                                             *)

\* An answer joins the wire.
LEMMA ReplyFrame ==
    ASSUME IInv, IInv', NEW r \in requests, NEW t, NEW v, wire' = Append(wire, Reply(r, t, v)),
           call' = call, Latest' = Latest
    PROVE  /\ Notes' = Notes
           /\ \A i \in Notes : /\ wire'[i] = wire[i] /\ TurnOf(wire'[i]) = TurnOf(wire[i])
                               /\ Tells(i)' <=> Tells(i)
                               /\ Announced(i)' <=> Announced(i)
                               /\ AnsweredBefore(i)' <=> AnsweredBefore(i)
           /\ \A i \in LiveReplies' : (i \in LiveReplies /\ wire'[i] = wire[i])
                                      \/ (r \in LiveRequests /\ wire'[i].what.call = r.call /\ \A j \in Notes : j < i)
           /\ \A k, u, w : Told(k, u, w)' =>
                 Told(k, u, w) \/ (k = r.call /\ u = t /\ w = v /\ r \in LiveRequests)
           /\ \A k, op : Under(k, op)' <=> Under(k, op)
<1> DEFINE m == Reply(r, t, v)
           n == Len(wire) + 1
<1>1. /\ Len(wire) \in Nat /\ DOMAIN wire = 1..Len(wire) /\ DOMAIN wire' = 1..n
      /\ \A i \in DOMAIN wire : wire'[i] = wire[i]
      /\ wire'[n] = m
  <2>1. wire \in Seq(Messages) /\ wire' \in Seq(Messages)
      BY DEF IInv, Types, WireTypes
  <2>2. Len(wire) \in Nat /\ DOMAIN wire = 1..Len(wire)
      BY <2>1, LenProperties
  <2>3. m \in Seq(Messages) \cup Messages \cup {m} /\ wire \in Seq(Messages \cup {m})
      BY <2>1, <2>2, IsASeq
  <2>4. /\ Len(wire') = Len(wire) + 1
        /\ \A i \in 1..Len(wire) : wire'[i] = wire[i]
        /\ wire'[Len(wire) + 1] = m
    <3> HIDE DEF m
    <3> QED
        BY <2>3, AppendProperties DEF m
  <2> QED
      BY <2>1, <2>2, <2>4, LenProperties
<1>2. /\ m.kind = "reply" /\ m.what.call = r.call /\ m.what.epoch = r.epoch /\ m.what.turn = t /\ m.what.val = v
    BY DEF Reply, Message
<1>3. Notes' = Notes
    BY <1>1, <1>2 DEF Notes
<1>4. \A i \in Notes : i \in DOMAIN wire /\ wire'[i] = wire[i] /\ TurnOf(wire'[i]) = TurnOf(wire[i])
    BY <1>1 DEF Notes
<1>5. \A i \in DOMAIN wire : Tells(i)' <=> Tells(i)
    BY <1>1 DEF Tells
<1>6. \A i \in DOMAIN wire : Announced(i)' <=> Announced(i)
  <2> TAKE i \in DOMAIN wire
  <2>1. \A j \in DOMAIN wire' : j <= i => j \in DOMAIN wire
      BY <1>1
  <2>2. \A j \in DOMAIN wire : j \in DOMAIN wire'
      BY <1>1
  <2> QED
      BY <1>5, <2>1, <2>2 DEF Announced
<1>7. \A i \in LiveReplies' : \/ i \in LiveReplies /\ wire'[i] = wire[i]
                              \/ i = n /\ r \in LiveRequests
  <2> TAKE i \in LiveReplies'
  <2>1. i \in DOMAIN wire' /\ wire'[i].kind = "reply" /\ wire'[i].what.epoch = call[wire'[i].what.call].epoch
      BY DEF LiveReplies, ReplyAt
  <2>2. CASE i = n
      BY <1>1, <1>2, <2>1, <2>2 DEF LiveRequests
  <2>3. CASE i \in DOMAIN wire
      BY <1>1, <2>1, <2>3 DEF LiveReplies, ReplyAt
  <2> QED
      BY <1>1, <2>1, <2>2, <2>3
<1>8. \A i \in LiveReplies : i \in LiveReplies' /\ wire'[i] = wire[i]
    BY <1>1 DEF LiveReplies, ReplyAt
<1>9. \A j \in Notes : j < n /\ j \in Nat
    BY <1>1, <1>4
<1>10. \A k, op : Under(k, op)' <=> Under(k, op)
    BY DEF Under
<1>11. ASSUME NEW i \in Notes PROVE AnsweredBefore(i)' <=> AnsweredBefore(i)
  <2>1. \A k \in LiveReplies' : k < i => k \in LiveReplies /\ wire'[k] = wire[k]
    <3> TAKE k \in LiveReplies'
    <3>1. i < n /\ i \in Nat /\ n \in Nat
        BY <1>1, <1>9
    <3>2. k = n => ~(k < i)
        BY <3>1
    <3> QED
        BY <1>7, <3>2
  <2> QED
      BY <1>8, <1>10, <2>1 DEF AnsweredBefore
<1>12. ASSUME NEW k, NEW u, NEW w, Told(k, u, w)'
       PROVE  Told(k, u, w) \/ (k = r.call /\ u = t /\ w = v /\ r \in LiveRequests)
  <2>1. ASSUME NEW i \in LiveReplies', wire'[i].what.call = k, wire'[i].what.turn = u, wire'[i].what.val = w
        PROVE  Told(k, u, w) \/ (k = r.call /\ u = t /\ w = v /\ r \in LiveRequests)
      BY <1>1, <1>2, <1>7, <2>1 DEF Told
  <2> QED
      BY <1>12, <2>1 DEF Told
<1> QED
    BY <1>1, <1>2, <1>3, <1>4, <1>5, <1>6, <1>7, <1>9, <1>10, <1>11, <1>12

\* The server answers a request that is not a start; an interrupted turn stops running.
LEMMA HonestReply ==
    ASSUME IInv, IInv', Honest, NEW r \in requests, NEW t, NEW v, wire' = Append(wire, Reply(r, t, v)),
           UNCHANGED <<call, connected, tracked, current, merges, session, missed>>,
           requests' = requests \ {r}, r.op # "start",
           \A u \in Turns : srv'[u] = srv[u] \/ (srv[u] = "running" /\ srv'[u] = "stopping"),
           r \in LiveRequests /\ r.call = "progress" => t = Latest /\ v = Normalized(srv[Latest]),
           r \in LiveRequests /\ r.call = "cancel" => t = Latest /\ ~Runs',
           r \in LiveRequests /\ r.op = "read" /\ r.call = "submit" =>
              /\ t <= Latest /\ v # "unknown" /\ (Runs' => t = Latest /\ v = "running")
              /\ t = NoTurn => v = "completed"
              /\ t # NoTurn => v = Normalized(srv[t])
    PROVE  Honest'
<1> USE DEF Honest
<1>1. Latest' = Latest
  <2>1. \A u \in Turns : (srv'[u] # "none") <=> (srv[u] # "none")
      OBVIOUS
  <2> QED
      BY <2>1, SameLatest
<1>2. /\ Notes' = Notes
      /\ \A i \in Notes : /\ wire'[i] = wire[i] /\ TurnOf(wire'[i]) = TurnOf(wire[i])
                          /\ Tells(i)' <=> Tells(i)
                          /\ Announced(i)' <=> Announced(i)
                          /\ AnsweredBefore(i)' <=> AnsweredBefore(i)
      /\ \A i \in LiveReplies' : (i \in LiveReplies /\ wire'[i] = wire[i])
                                 \/ (r \in LiveRequests /\ wire'[i].what.call = r.call /\ \A j \in Notes : j < i)
      /\ \A k, u, w : Told(k, u, w)' =>
            Told(k, u, w) \/ (k = r.call /\ u = t /\ w = v /\ r \in LiveRequests)
      /\ \A k, op : Under(k, op)' <=> Under(k, op)
    BY <1>1, ReplyFrame
<1>3. Latest = NoTurn \/ Latest \in Turns
    BY Shape DEF Named
<1>4. Unseen' = Unseen /\ (Runs' => Runs) /\ (\A n \in Turns : Over(n)' <=> Over(n))
      /\ (Latest # NoTurn => Normalized(srv'[Latest]) = Normalized(srv[Latest]))
  <2>1. \A n \in Turns : Over(n)' <=> Over(n)
      BY DEF Over
  <2>2. Runs' => Runs
      BY <1>1, <1>3 DEF Runs
  <2>3. Latest # NoTurn => Normalized(srv'[Latest]) = Normalized(srv[Latest])
      BY <1>3 DEF Normalized
  <2> QED
      BY <1>1, <2>1, <2>2, <2>3 DEF Unseen
<1>5. {"submit", "progress", "cancel"} = Calls /\ "ok" \in Values /\ requests' \subseteq requests
    BY DEF Calls, Values
<1>6. r \in LiveRequests => Under(r.call, r.op)
    BY DEF IInv, RequestInv, Under
<1>7. OrderInv' /\ RecordInv' /\ RunningInv'
  <2>1. \A u \in Turns : /\ (srv'[u] # "none" <=> srv[u] # "none") /\ (srv'[u] = "running" => srv[u] = "running")
      OBVIOUS
  <2>2. OrderInv'
      BY <1>1, <1>2, <2>1 DEF OrderInv
  <2>3. RecordInv'
      BY <1>1 DEF RecordInv
  <2>4. RunningInv'
    <3> SUFFICES ASSUME NEW u \in Turns, srv'[u] = "running"
                 PROVE  /\ tracked[u].status \in {"none"} \cup ActiveStatus /\ ~tracked[u].finished
                        /\ \A i \in Notes' : wire'[i].kind = "ended" => TurnOf(wire'[i]) # u
        BY DEF RunningInv
    <3>1. srv[u] = "running"
        BY <2>1
    <3> QED
        BY <1>2, <3>1 DEF RunningInv
  <2> QED
      BY <2>2, <2>3, <2>4
<1>8. LossInv' /\ NamedInv'
    BY <1>1, <1>2, <1>4 DEF LossInv, NamedInv
<1>9. AnswerInv'
  <2>1. \A k \in {"progress", "cancel"} : call'[k].pc # "none" => call'[k].turn = Latest
      BY DEF AnswerInv
  <2>2. \A k \in {"progress", "cancel"}, u \in Named, w \in Values : Told(k, u, w)' => u = Latest
      BY <1>2 DEF AnswerInv
  <2>3. ASSUME NEW u \in Named, NEW w \in Values, Told("progress", u, w)', w # "error"
        PROVE  w \in {"running", Normalized(srv'[Latest])} /\ (Runs' => w = "running")
    <3>0. call["progress"].pc # "none" => call["progress"].turn # NoTurn
        BY <1>5 DEF IInv, CallInv
    <3>1. CASE Told("progress", u, w)
      <4>1. w \in {"running", Normalized(srv[Latest])} /\ (Runs => w = "running")
          BY <2>3, <3>1 DEF AnswerInv
      <4>2. Latest # NoTurn
          BY <1>5, <3>0, <3>1, ToldUnder DEF AnswerInv
      <4> QED
          BY <1>4, <4>1, <4>2
    <3>2. CASE r.call = "progress" /\ w = v /\ r \in LiveRequests
      <4>1. w = Normalized(srv[Latest])
          BY <3>2
      <4>2. Latest # NoTurn
          BY <1>6, <3>0, <3>2 DEF Under, AnswerInv
      <4>3. Runs' => Normalized(srv[Latest]) = "running"
          BY <1>4 DEF Runs, Normalized
      <4> QED
          BY <1>4, <4>1, <4>2, <4>3
    <3> QED
        BY <1>2, <2>3, <3>1, <3>2
  <2>4. \A u \in Named : Told("cancel", u, "ok")' => ~Runs'
      BY <1>2, <1>4 DEF AnswerInv
  <2> QED
      BY <1>1, <2>1, <2>2, <2>3, <2>4 DEF AnswerInv
<1>10. ReadInv'
  <2>1. ASSUME Under("submit", "read"), NEW u \in Named, NEW w \in Values, Told("submit", u, w)', w # "error"
        PROVE  /\ u <= Latest /\ w # "unknown" /\ (Runs' => u = Latest /\ w = "running")
               /\ u = NoTurn => w = "completed"
    <3>1. CASE Told("submit", u, w)
        BY <1>4, <2>1, <3>1 DEF ReadInv
    <3>2. CASE r.call = "submit" /\ u = t /\ w = v /\ r \in LiveRequests
      <4>1. r.op = "read"
          BY <1>6, <2>1, <3>2 DEF Under
      <4> QED
          BY <3>2, <4>1
    <3> QED
        BY <1>2, <2>1, <3>1, <3>2
  <2> QED
      BY <1>1, <1>2, <1>5, <2>1 DEF ReadInv
<1>11. StartInv'
  <2>1. ASSUME Under("submit", "start"), NEW u \in Named, NEW w \in Values, Told("submit", u, w)'
        PROVE  Told("submit", u, w)
      BY <1>2, <1>6, <2>1 DEF Under
  <2> QED
      BY <1>1, <1>2, <1>4, <1>5, <2>1 DEF StartInv
<1>12. FirstInv' /\ OldNotesInv'
    BY <1>1, <1>2, <1>4 DEF FirstInv, OldNotesInv
<1>13. LateReadInv'
    BY <1>2, <1>4 DEF LateReadInv
<1>14. LateAnswerInv'
    BY <1>4 DEF LateAnswerInv
<1>15. SeenInv' /\ UnseenInv'
  <2>1. Converges' <=> Converges
      BY <1>1 DEF Converges, Names, Keeps, Sets
  <2> QED
      BY <1>1, <1>2, <1>4, <2>1 DEF SeenInv, UnseenInv, Names
<1>16. OverInv'
  <2>1. ASSUME NEW n \in Turns, Settled(n), Over(n) PROVE Settled(n)'
    <3>1. Normalized(srv[n]) \in Terminal
        BY <2>1 DEF Over, Normalized, Terminal
    <3>2. ASSUME n = Latest, NEW w \in Values, Told("progress", n, w)' PROVE w \in Terminal \cup {"error"}
        BY <1>2, <2>1, <3>1, <3>2 DEF Settled
    <3>3. ASSUME tracked[n].status = "none", NEW w \in Terminal \cup {"ok", "running"}, Told("submit", n, w)'
          PROVE  Under("submit", "steer") \/ (Under("submit", "read") /\ w \in Terminal)
      <4>1. CASE Told("submit", n, w)
          BY <2>1, <3>3, <4>1 DEF Settled
      <4>2. CASE r.call = "submit" /\ n = t /\ w = v /\ r \in LiveRequests
        <5>1. r.op \in {"steer", "read"}
            BY <4>2 DEF IInv, RequestInv, OpsOf
        <5>2. n # NoTurn
            BY Shape
        <5> QED
            BY <1>6, <3>1, <4>2, <5>1, <5>2
      <4> QED
          BY <1>2, <3>3, <4>1, <4>2
    <3> QED
        BY <1>1, <1>2, <2>1, <3>2, <3>3 DEF Settled
  <2> QED
      BY <1>2, <1>4, <2>1 DEF OverInv
<1> QED
    BY <1>7, <1>8, <1>9, <1>10, <1>11, <1>12, <1>13, <1>14, <1>15, <1>16

LEMMA HonestServerSteers ==
    ASSUME IInv, IInv', Honest, NEW r \in requests, ServerSteers(r) PROVE Honest'
<1> DEFINE v == IF srv[r.turn] = "running" THEN "ok" ELSE "no turn"
<1>1. /\ wire' = Append(wire, Reply(r, r.turn, v)) /\ requests' = requests \ {r} /\ r.op = "steer"
      /\ UNCHANGED <<srv, call, connected, tracked, current, merges, session, missed>>
    BY DEF ServerSteers, Answered, memoryVars
<1>2. r.call = "submit"
  <2>1. r.call \in {"submit", "progress", "cancel"}
      BY RequestFields, Parts DEF Calls
  <2>2. "steer" \in OpsOf[r.call]
      BY <1>1 DEF IInv, RequestInv
  <2> HIDE DEF v
  <2> QED
      BY <2>1, <2>2 DEF OpsOf
<1> HIDE DEF v
<1> QED
    BY <1>1, <1>2, HonestReply

\* What a read of the whole thread is about: the newest turn, while that runs.
LEMMA NewestRead ==
    ASSUME IInv, Honest
    PROVE  /\ NewestRunning \in Named /\ NewestRunning <= Latest
           /\ Runs => NewestRunning = Latest
<1>1. /\ Latest \in Named /\ NewestRunning \in Named /\ Latest \in Nat /\ NewestRunning \in Nat
      /\ NewestRunning # NoTurn => NewestRunning \in Turns /\ Normalized(srv[NewestRunning]) = "running"
      /\ \A t \in Turns : /\ srv[t] # "none" => t <= Latest
                          /\ Normalized(srv[t]) = "running" => t <= NewestRunning
    BY Shape, NewestTurns DEF Named
<1>2. NewestRunning <= Latest
  <2>1. CASE NewestRunning = NoTurn
      BY <1>1, <2>1, Shape
  <2>2. CASE NewestRunning # NoTurn
    <3>1. srv[NewestRunning] # "none"
        BY <1>1, <2>2 DEF Normalized
    <3> QED
        BY <1>1, <2>2, <3>1
  <2> QED
      BY <2>1, <2>2
<1>3. Runs => Latest <= NewestRunning
  <2>1. Runs => Latest \in Turns /\ Normalized(srv[Latest]) = "running"
      BY <1>1 DEF Runs, Normalized, Named
  <2> QED
      BY <1>1, <2>1
<1> QED
    BY <1>1, <1>2, <1>3

LEMMA HonestServerReads ==
    ASSUME IInv, IInv', Honest, NEW r \in requests, ServerReads(r) PROVE Honest'
<1> DEFINE t == IF r.turn # NoTurn THEN r.turn ELSE IF NewestRunning # NoTurn THEN NewestRunning ELSE Latest
           v == IF t = NoTurn THEN "completed" ELSE Normalized(srv[t])
<1>1. /\ wire' = Append(wire, Reply(r, t, v)) /\ requests' = requests \ {r} /\ r.op = "read"
      /\ UNCHANGED <<srv, call, connected, tracked, current, merges, session, missed>>
    BY DEF ServerReads, Answered, memoryVars, historyVars
<1>2. r.call \in {"submit", "progress"}
    BY <1>1, RequestFields, Parts DEF IInv, RequestInv, OpsOf, Calls
<1>3. r \in LiveRequests => call[r.call].pc = "wait" /\ call[r.call].turn = r.turn
    BY DEF IInv, RequestInv
<1>4. r \in LiveRequests /\ r.call = "progress" => t = Latest /\ v = Normalized(srv[Latest])
  <2>1. r \in LiveRequests /\ r.call = "progress" => r.turn # NoTurn /\ r.turn = Latest
      BY <1>3 DEF IInv, CallInv, Calls, Honest, AnswerInv
  <2> QED
      BY <2>1
<1>5. r.call = "submit" => /\ t <= Latest /\ v # "unknown" /\ (Runs => t = Latest /\ v = "running")
                           /\ t = NoTurn => v = "completed"
                           /\ t # NoTurn => v = Normalized(srv[t])
  <2> SUFFICES ASSUME r.call = "submit"
               PROVE  /\ t <= Latest /\ v # "unknown" /\ (Runs => t = Latest /\ v = "running")
                      /\ t = NoTurn => v = "completed"
                      /\ t # NoTurn => v = Normalized(srv[t])
      OBVIOUS
  <2>1. r.turn = NoTurn
      BY <1>1 DEF Honest, ReadInv
  <2>2. /\ Latest \in Nat /\ NewestRunning \in Named /\ NewestRunning <= Latest
        /\ Runs => NewestRunning = Latest /\ Latest # NoTurn /\ Normalized(srv[Latest]) = "running"
      BY NewestRead, Shape DEF Runs, Normalized
  <2>3. t <= Latest /\ (Runs => t = Latest)
      BY <2>1, <2>2
  <2>4. t # NoTurn => srv[t] # "none" /\ srv[t] \in ServerStates
    <3>1. /\ NewestRunning # NoTurn => Normalized(srv[NewestRunning]) = "running"
          /\ Latest # NoTurn => srv[Latest] # "none"
        BY NewestTurns
    <3>2. NewestRunning # NoTurn => srv[NewestRunning] # "none"
        BY <3>1 DEF Normalized
    <3>3. t \in Named
        BY <2>1, <2>2, Shape
    <3> QED
        BY <2>1, <3>1, <3>2, <3>3, Shape DEF Named
  <2>5. t # NoTurn => Normalized(srv[t]) # "unknown"
      BY <2>4 DEF Normalized, ServerStates
  <2> QED
      BY <2>2, <2>3, <2>5
<1>6. Runs' => Runs
  <2>1. Latest' = Latest
      BY <1>1, SameLatest
  <2> QED
      BY <1>1, <2>1 DEF Runs
<1> HIDE DEF t, v
<1> QED
    BY <1>1, <1>2, <1>4, <1>5, <1>6, HonestReply

LEMMA HonestServerInterrupts ==
    ASSUME IInv, IInv', Honest, NEW r \in requests, ServerInterrupts(r) PROVE Honest'
<1>1. /\ wire' = Append(wire, Reply(r, r.turn, "ok")) /\ requests' = requests \ {r} /\ r.op = "interrupt"
      /\ srv' = IF srv[r.turn] = "running" THEN [srv EXCEPT ![r.turn] = "stopping"] ELSE srv
      /\ UNCHANGED <<call, connected, tracked, current, merges, session, missed>>
    BY DEF ServerInterrupts, Answered, memoryVars, historyVars
<1>2. r.call = "cancel" /\ r.turn \in Turns
  <2>1. r.call \in Calls /\ r.turn \in Named
      BY RequestFields, Parts DEF Named
  <2> QED
      BY <1>1, <2>1 DEF IInv, RequestInv, OpsOf, Calls, Named
<1>3. srv \in [Turns -> ServerStates]
    BY Parts DEF ServerTypes
<1>4. \A u \in Turns : srv'[u] = srv[u] \/ (srv[u] = "running" /\ srv'[u] = "stopping")
    BY <1>1, <1>2, <1>3
<1>5. srv'[r.turn] # "running"
    BY <1>1, <1>2, <1>3
<1>6. r \in LiveRequests => r.turn = Latest
    BY <1>2 DEF IInv, RequestInv, Honest, AnswerInv
<1>7. Latest' = Latest
  <2>1. \A u \in Turns : (srv'[u] # "none") <=> (srv[u] # "none")
      BY <1>4
  <2> QED
      BY <2>1, SameLatest
<1> QED
    BY <1>1, <1>2, <1>4, <1>5, <1>6, <1>7, HonestReply DEF Runs

\* The server tells of a turn; the turn is over when it says so.
LEMMA HonestTells ==
    ASSUME IInv, IInv', Honest, NEW m \in Messages, m.kind \in {"item", "ended", "ask"}, Tell(<<m>>),
           NEW t \in Turns, t = TurnOf(m), srv[t] \in {"running", "stopping"},
           m.kind = "ask" => srv[t] = "running",
           UNCHANGED <<requests, connected, call, tracked, current, merges, session>>,
           \A u \in Turns : u # t => srv'[u] = srv[u],
           m.kind = "ended" => Over(t)' /\ (t \in missed' <=> ~connected \/ t \in missed),
           m.kind # "ended" => srv'[t] = srv[t] /\ missed' = missed,
           missed' \subseteq missed \cup {t}, missed \subseteq missed'
    PROVE  Honest'
<1> USE DEF Honest
<1> DEFINE n == Len(wire) + 1
<1>1. Latest' = Latest
  <2>1. \A u \in Turns : (srv'[u] # "none") <=> (srv[u] # "none")
      BY DEF Over
  <2> QED
      BY <2>1, SameLatest
<1>2. /\ connected => DOMAIN wire' = DOMAIN wire \cup {n} /\ wire'[n] = m
      /\ ~connected => wire' = wire
      /\ \A i \in DOMAIN wire : i \in DOMAIN wire' /\ wire'[i] = wire[i] /\ i < n /\ i \in Nat
      /\ n \in Nat
  <2>1. Len(wire) \in Nat /\ DOMAIN wire = 1..Len(wire) /\ wire \in Seq(Messages)
      BY Shape, Parts DEF WireTypes
  <2>2. CASE connected
    <3>1. wire' = wire \o <<m>>
        BY <2>2 DEF Tell
    <3>2. /\ wire' \in Seq(Messages) /\ Len(wire') = Len(wire) + 1
          /\ \A i \in 1..Len(wire) : wire'[i] = wire[i]
          /\ wire'[n] = m
      <4>1. <<m>> \in Seq(Messages) /\ Len(<<m>>) = 1 /\ <<m>>[1] = m
          OBVIOUS
      <4>2. \A i \in 1..Len(wire) + 1 : wire'[i] = IF i <= Len(wire) THEN wire[i] ELSE <<m>>[i - Len(wire)]
          BY <2>1, <3>1, <4>1, ConcatProperties
      <4>3. n - Len(wire) = 1 /\ n \in 1..Len(wire) + 1 /\ ~(n <= Len(wire))
          BY <2>1
      <4>4. wire'[n] = m
          BY <4>1, <4>2, <4>3
      <4> QED
          BY <2>1, <3>1, <4>1, <4>2, <4>4, ConcatProperties
    <3>3. DOMAIN wire' = 1..(Len(wire) + 1)
        BY <3>2, LenProperties
    <3> QED
        BY <2>1, <2>2, <3>2, <3>3
  <2>3. CASE ~connected
    <3>1. wire' = wire
        BY <2>3 DEF Tell
    <3> QED
        BY <2>1, <2>3, <3>1
  <2> QED
      BY <2>2, <2>3
<1> HIDE DEF n
<1>3. /\ \A i \in Notes : i \in Notes' /\ wire'[i] = wire[i] /\ TurnOf(wire'[i]) = TurnOf(wire[i])
      /\ \A i \in Notes' : i \in Notes \/ (connected /\ i = n)
      /\ connected => wire'[n] = m /\ TurnOf(wire'[n]) = t /\ n \in Notes' /\ n \notin Notes
    BY <1>2 DEF Notes, TurnOf
<1>4. /\ \A i \in DOMAIN wire : Tells(i)' <=> Tells(i)
      /\ \A i \in Notes' : Tells(i)' => i \in Notes /\ Tells(i)
    BY <1>1, <1>2, <1>3 DEF Tells, Notes
<1>5. \A i \in DOMAIN wire : Announced(i)' <=> Announced(i)
  <2> TAKE i \in DOMAIN wire
  <2>1. \A j \in DOMAIN wire' : j <= i => j \in DOMAIN wire
      BY <1>2
  <2> QED
      BY <1>2, <1>4, <2>1 DEF Announced
<1>6. LiveReplies' = LiveReplies /\ \A i \in LiveReplies : wire'[i] = wire[i] /\ i \in DOMAIN wire
    BY <1>2 DEF LiveReplies, ReplyAt
<1>7. /\ \A k, u, w : Told(k, u, w)' <=> Told(k, u, w)
      /\ \A k, op : Under(k, op)' <=> Under(k, op)
    BY <1>6 DEF Told, Under
<1>8. \A i : AnsweredBefore(i)' <=> AnsweredBefore(i)
    BY <1>6, <1>7 DEF AnsweredBefore
<1>9. Unseen' = Unseen /\ (Runs' => Runs) /\ (\A u \in Turns : srv'[u] = "running" => srv[u] = "running")
      /\ (\A u \in Turns : Over(u)' /\ (u # t \/ m.kind # "ended") => Over(u) /\ u # t)
      /\ \A u \in Turns : u \in Nat
  <2>1. \A u \in Turns : srv'[u] = "running" => srv[u] = "running"
      BY DEF Over
  <2>2. Runs' => Runs
      BY <1>1, <2>1, Shape DEF Runs, Named
  <2> QED
      BY <1>1, <2>1, <2>2, Shape DEF Unseen, Over
<1>10. OrderInv'
  <2>1. t <= Latest
      BY DEF OrderInv
  <2>2. \A u \in Turns : (srv'[u] # "none") <=> (srv[u] # "none")
      BY DEF Over
  <2>3. \A i \in Notes' : TurnOf(wire'[i]) <= Latest
      BY <1>3, <2>1 DEF OrderInv
  <2> QED
      BY <1>1, <1>9, <2>1, <2>2, <2>3 DEF OrderInv
<1>11. RecordInv' /\ NamedInv' /\ LateAnswerInv'
    BY <1>1, <1>7, <1>9 DEF RecordInv, NamedInv, LateAnswerInv
<1>12. LossInv'
  <2>1. ~connected => Notes' = {}
      BY <1>3 DEF LossInv
  <2>2. Latest \in missed' => ~connected
      BY <1>1 DEF LossInv
  <2>3. (\A i \in Notes' : ~Tells(i)') => \A i \in Notes : ~Tells(i)
      BY <1>3, <1>4 DEF Notes
  <2> QED
      BY <1>1, <1>9, <2>1, <2>2, <2>3 DEF LossInv
<1>13. AnswerInv'
  <2>1. ASSUME NEW u \in Named, NEW w \in Values, Told("progress", u, w), w # "error"
        PROVE  w \in {"running", Normalized(srv'[Latest])}
    <3>1. w \in {"running", Normalized(srv[Latest])}
        BY <2>1 DEF AnswerInv
    <3>2. CASE Latest = t
        BY <3>1, <3>2 DEF Normalized
    <3>3. CASE Latest # t
      <4>1. Latest \in Turns
        <5>1. call["progress"].pc # "none" => call["progress"].turn # NoTurn /\ call["progress"].turn = Latest
            BY DEF IInv, CallInv, Calls, AnswerInv
        <5>2. Latest # NoTurn
            BY <2>1, <5>1, ToldUnder DEF Calls
        <5> QED
            BY <5>2, Shape DEF Named
      <4> QED
          BY <3>1, <3>3, <4>1
    <3> QED
        BY <3>2, <3>3
  <2> QED
      BY <1>1, <1>7, <1>9, <2>1 DEF AnswerInv
<1>14. ReadInv' /\ StartInv'
    BY <1>1, <1>7, <1>9 DEF ReadInv, StartInv
<1>15. FirstInv'
  <2> SUFFICES ASSUME Unseen, NEW i \in Notes', TurnOf(wire'[i]) = Latest \/ AnsweredBefore(i)
               PROVE  Announced(i)'
      BY <1>1, <1>8, <1>9 DEF FirstInv
  <2>1. CASE i \in Notes
      BY <1>3, <1>5, <2>1 DEF FirstInv, Notes
  <2>2. CASE connected /\ i = n
    <3>1. PICK j \in Notes : Tells(j)
        BY <2>2 DEF LossInv
    <3>2. j \in DOMAIN wire /\ j \in DOMAIN wire' /\ j <= n /\ Tells(j)'
        BY <1>2, <1>4, <3>1 DEF Notes
    <3> QED
        BY <2>2, <3>2 DEF Announced
  <2> QED
      BY <1>3, <2>1, <2>2
<1>16. OldNotesInv'
  <2>1. m.kind = "ask" => t = Latest
      BY <1>9, Shape DEF OrderInv
  <2> QED
      BY <1>1, <1>3, <1>5, <1>9, <2>1 DEF OldNotesInv, Notes
<1>17. LateReadInv'
    BY <1>4, <1>6, <1>7, <1>9 DEF LateReadInv
<1>18. RunningInv'
  <2> SUFFICES ASSUME NEW u \in Turns, srv'[u] = "running"
               PROVE  /\ tracked[u].status \in {"none"} \cup ActiveStatus /\ ~tracked[u].finished
                      /\ \A i \in Notes' : wire'[i].kind = "ended" => TurnOf(wire'[i]) # u
      BY DEF RunningInv
  <2>1. srv[u] = "running" /\ (m.kind = "ended" => u # t)
      BY <1>9 DEF Over
  <2> QED
      BY <1>3, <2>1 DEF RunningInv
<1>19. SeenInv' /\ UnseenInv'
  <2>1. Converges' <=> Converges
      BY <1>1 DEF Converges, Names, Keeps, Sets
  <2> QED
      BY <1>1, <1>3, <1>4, <1>9, <2>1 DEF SeenInv, UnseenInv, Names, Notes
<1>20. OverInv'
  <2> SUFFICES ASSUME NEW u \in Turns, Over(u)', u \notin missed'
               PROVE  \/ tracked[u].finished
                      \/ \E i \in Notes' : wire'[i].kind = "ended" /\ TurnOf(wire'[i]) = u
                      \/ Settled(u)'
      BY DEF OverInv
  <2>1. CASE u = t /\ m.kind = "ended"
      BY <1>3, <2>1
  <2>2. CASE ~(u = t /\ m.kind = "ended")
    <3>1. Over(u) /\ u # t /\ u \notin missed
        BY <1>9, <2>2
    <3>2. Settled(u) => Settled(u)'
      <4>1. \A i \in Notes' : TurnOf(wire'[i]) # u \/ i \in Notes
          BY <1>3, <3>1
      <4> QED
          BY <1>1, <1>3, <1>7, <4>1 DEF Settled
    <3> QED
        BY <1>3, <3>1, <3>2 DEF OverInv
  <2> QED
      BY <2>1, <2>2
<1> QED
    BY <1>10, <1>11, <1>12, <1>13, <1>14, <1>15, <1>16, <1>17, <1>18, <1>19, <1>20

LEMMA HonestServerWorks ==
    ASSUME IInv, IInv', Honest, NEW t \in Turns, ServerWorks(t) PROVE Honest'
<1> DEFINE m == Message("item", t)
<1>1. m \in Messages /\ m.kind = "item" /\ TurnOf(m) = t
    BY DEF Message, Messages, TurnOf
<1>2. /\ Tell(<<m>>) /\ srv[t] \in {"running", "stopping"}
      /\ UNCHANGED <<srv, requests, connected, call, tracked, current, merges, session, missed>>
    BY DEF ServerWorks, serverVars, memoryVars, historyVars
<1> HIDE DEF m
<1> QED
    BY <1>1, <1>2, HonestTells

LEMMA HonestServerAsks ==
    ASSUME IInv, IInv', Honest, NEW t \in Turns, ServerAsks(t) PROVE Honest'
<1> DEFINE m == Message("ask", [turn |-> t, ask |-> twists + 1])
<1>1. twists + 1 \in Asks
    BY TurnsAssumption, Parts DEF ServerAsks, HistoryTypes, Asks
<1>2. m \in Messages /\ m.kind = "ask" /\ TurnOf(m) = t
    BY <1>1 DEF Message, Messages, TurnOf
<1>3. /\ Tell(<<m>>) /\ srv[t] = "running"
      /\ UNCHANGED <<srv, requests, connected, call, tracked, current, merges, session, missed>>
    BY DEF ServerAsks, serverVars, memoryVars, historyVars
<1> HIDE DEF m
<1> QED
    BY <1>2, <1>3, HonestTells

LEMMA HonestServerEnds ==
    ASSUME IInv, IInv', Honest, NEW t \in Turns, ServerEnds(t) PROVE Honest'
<1>1. PICK state \in {"interrupted", "completed", "failed"} :
         /\ srv' = [srv EXCEPT ![t] = state]
         /\ Tell(<<Message("ended", [turn |-> t, failed |-> state = "failed"])>>)
    BY DEF ServerEnds
<1> DEFINE m == Message("ended", [turn |-> t, failed |-> state = "failed"])
<1>2. m \in Messages /\ m.kind = "ended" /\ TurnOf(m) = t
    BY DEF Message, Messages, TurnOf
<1>3. /\ Tell(<<m>>) /\ srv[t] \in {"running", "stopping"}
      /\ missed' = IF connected THEN missed ELSE missed \cup {t}
      /\ UNCHANGED <<requests, connected, call, tracked, current, merges, session>>
    BY <1>1 DEF ServerEnds, LoseTrackOf, memoryVars
<1>4. srv'[t] = state /\ \A u \in Turns : u # t => srv'[u] = srv[u]
    BY <1>1, Parts DEF ServerTypes
<1>5. Over(t)' /\ (t \in missed' <=> ~connected \/ t \in missed)
    BY <1>3, <1>4 DEF Over
<1> HIDE DEF m
<1> QED
    BY <1>2, <1>3, <1>4, <1>5, HonestTells

\* A turn starts: it is the newest one.
LEMMA LatestIs ==
    ASSUME NEW t \in Turns, srv'[t] # "none", \A u \in Turns : srv'[u] # "none" => u <= t
    PROVE  Latest' = t
<1> DEFINE S == {NoTurn} \cup {u \in Turns : srv'[u] # "none"}
<1>1. MaxTurns \in Nat /\ S \in SUBSET (0..MaxTurns) /\ S # {} /\ t \in S /\ NoTurn \in S
      /\ t \in Nat /\ NoTurn = 0 /\ \A u \in Turns : u \in Nat
    BY TurnsAssumption DEF Turns, NoTurn
<1>2. \A u \in S : u \in Nat /\ u <= t
    BY <1>1
<1> HIDE DEF S
<1>3. Max(S) \in S /\ \A y \in S : Max(S) >= y
    BY <1>1, Greatest
<1>4. PICK n \in S : n = Max(S) /\ \A y \in S : n >= y
    BY <1>3
<1>5. n = t
  <2>1. n \in Nat /\ n <= t /\ n >= t
      BY <1>1, <1>2, <1>4
  <2> QED
      BY <1>1, <2>1
<1> QED
    BY <1>4, <1>5 DEF S, Latest

\* The answer to the start and its notification join the wire, in either order.
LEMMA PairFrame ==
    ASSUME IInv, IInv', NEW r \in requests, NEW t \in Turns,
           NEW order \in {<<Reply(r, t, "ok"), Message("started", t)>>,
                          <<Message("started", t), Reply(r, t, "ok")>>},
           wire' = wire \o order, call' = call
    PROVE  \E a, b \in Nat :
             /\ a # b /\ DOMAIN wire' = DOMAIN wire \cup {a, b}
             /\ wire'[a] = Reply(r, t, "ok") /\ wire'[b] = Message("started", t)
             /\ \A i \in DOMAIN wire : i \in Nat /\ i < a /\ i < b /\ wire'[i] = wire[i]
<1> DEFINE x == Reply(r, t, "ok")
           y == Message("started", t)
<1>1. Len(wire) \in Nat /\ DOMAIN wire = 1..Len(wire) /\ wire \in Seq(Messages \cup {x, y})
  <2>1. wire \in Seq(Messages)
      BY Parts DEF WireTypes
  <2> HIDE DEF x, y
  <2>2. wire \in Seq(Messages \cup {x, y})
      BY <2>1, SeqMonotonic
  <2> QED
      BY <2>1, <2>2, LenProperties
<1>2. order \in Seq(Messages \cup {x, y}) /\ Len(order) = 2 /\ {order[1], order[2]} = {x, y}
      /\ ((order[1] = x /\ order[2] = y) \/ (order[1] = y /\ order[2] = x))
  <2> HIDE DEF x, y
  <2>1. order \in {<<x, y>>, <<y, x>>}
      BY DEF x, y
  <2> QED
      BY <2>1
<1> HIDE DEF x, y
<1>3. /\ wire' \in Seq(Messages \cup {x, y}) /\ Len(wire') = Len(wire) + 2
      /\ \A i \in 1..Len(wire) : wire'[i] = wire[i]
      /\ wire'[Len(wire) + 1] = order[1] /\ wire'[Len(wire) + 2] = order[2]
    BY <1>1, <1>2, TwoMore
<1>4. DOMAIN wire' = 1..(Len(wire) + 2)
    BY <1>1, <1>3, LenProperties
<1>5. DOMAIN wire' = DOMAIN wire \cup {Len(wire) + 1, Len(wire) + 2}
    BY <1>1, <1>4
<1>6. CASE order[1] = x /\ order[2] = y
  <2> WITNESS Len(wire) + 1 \in Nat, Len(wire) + 2 \in Nat
  <2> QED
      BY <1>1, <1>3, <1>5, <1>6 DEF x, y
<1>7. CASE order[1] = y /\ order[2] = x
  <2> WITNESS Len(wire) + 2 \in Nat, Len(wire) + 1 \in Nat
  <2> QED
      BY <1>1, <1>3, <1>5, <1>7 DEF x, y
<1> QED
    BY <1>2, <1>6, <1>7

LEMMA HonestServerStarts ==
    ASSUME IInv, IInv', Honest, NEW r \in requests, ServerStarts(r), ~overtaken' PROVE Honest'
<1> USE DEF Honest
<1> DEFINE t == Latest + 1
<1>1. /\ r.op = "start" /\ Latest < MaxTurns /\ requests' = requests \ {r} /\ connected' = TRUE
      /\ \A q \in requests : q.op = "start" => q.epoch >= r.epoch
      /\ srv' = [u \in Turns |-> IF u = t THEN "running"
                                 ELSE IF srv[u] = "running" THEN "stopping" ELSE srv[u]]
      /\ UNCHANGED <<call, tracked, current, merges, session, missed>>
      /\ \A k \in Calls : call[k].op \notin {"read", "interrupt"}
    BY DEF ServerStarts, Answered, memoryVars
<1>2. PICK order \in {<<Reply(r, t, "ok"), Message("started", t)>>,
                      <<Message("started", t), Reply(r, t, "ok")>>} : wire' = wire \o order
    BY DEF ServerStarts
<1>3. t \in Turns /\ t # NoTurn /\ t \in Nat /\ Latest \in Nat /\ Latest < t /\ MaxTurns \in Nat
      /\ (\A u \in Turns : u \in Nat /\ u # NoTurn /\ (u < t <=> u <= Latest)) /\ NoTurn = 0
      /\ \A u \in Named : u \in Nat /\ (u < t <=> u <= Latest)
    BY <1>1, Shape, TurnsAssumption DEF Turns, Named
<1>4. PICK a, b \in Nat :
             /\ a # b /\ DOMAIN wire' = DOMAIN wire \cup {a, b}
             /\ wire'[a] = Reply(r, t, "ok") /\ wire'[b] = Message("started", t)
             /\ \A i \in DOMAIN wire : i \in Nat /\ i < a /\ i < b /\ wire'[i] = wire[i]
    BY <1>1, <1>2, <1>3, PairFrame
<1> HIDE DEF t
<1>5. /\ srv'[t] = "running"
      /\ \A u \in Turns : u # t => srv'[u] = IF srv[u] = "running" THEN "stopping" ELSE srv[u]
      /\ srv[t] = "none" /\ tracked[t].status = "none" /\ ~tracked[t].finished /\ t \notin missed
      /\ session.last # t /\ session.last <= t
  <2>1. session.last \in Named /\ session.last <= Latest
      BY Parts DEF SessionTypes, Sessions, Named, RecordInv
  <2>2. ~(t <= Latest)
      BY <1>3
  <2> QED
      BY <1>1, <1>3, <2>1, <2>2 DEF OrderInv
<1>6. Latest' = t
  <2>1. \A u \in Turns : srv'[u] # "none" => u <= t
      BY <1>3, <1>5 DEF OrderInv
  <2> QED
      BY <1>3, <1>5, <2>1, LatestIs
<1>7. Unseen' /\ Runs'
    BY <1>1, <1>3, <1>5, <1>6 DEF Unseen, Runs
<1>8. /\ wire'[a].kind = "reply" /\ wire'[a].what.call = r.call /\ wire'[a].what.epoch = r.epoch
      /\ wire'[a].what.turn = t /\ wire'[a].what.val = "ok"
      /\ wire'[b].kind = "started" /\ wire'[b].what = t /\ TurnOf(wire'[b]) = t
    BY <1>4 DEF Reply, Message, TurnOf
<1>9. /\ b \in Notes' /\ b \notin Notes /\ Tells(b)'
      /\ \A i \in Notes' : i = b \/ i \in Notes
      /\ \A i \in Notes : /\ i \in Notes' /\ wire'[i] = wire[i] /\ TurnOf(wire'[i]) = TurnOf(wire[i])
                          /\ i < b /\ i < a /\ i \in Nat /\ TurnOf(wire[i]) <= Latest /\ TurnOf(wire[i]) # t
  <2>1. b \in Notes' /\ b \notin Notes /\ Tells(b)'
      BY <1>4, <1>6, <1>8 DEF Notes, Tells
  <2>2. \A i \in Notes' : i = b \/ i \in Notes
      BY <1>4, <1>8 DEF Notes
  <2>3. \A i \in Notes : /\ i \in Notes' /\ wire'[i] = wire[i] /\ TurnOf(wire'[i]) = TurnOf(wire[i])
                         /\ i < b /\ i < a /\ i \in Nat
      BY <1>4 DEF Notes, TurnOf
  <2>4. \A i \in Notes : TurnOf(wire[i]) <= Latest /\ TurnOf(wire[i]) # t
      BY <1>3, Shape DEF OrderInv
  <2> QED
      BY <2>1, <2>2, <2>3, <2>4
<1>10. \A i \in DOMAIN wire' : Tells(i)' => i = b
  <2> TAKE i \in DOMAIN wire'
  <2>1. CASE i = a
      BY <1>8, <2>1 DEF Tells
  <2>2. CASE i \in DOMAIN wire
    <3>1. ASSUME Tells(i)' PROVE FALSE
      <4>1. wire[i].kind = "started" /\ wire[i].what = t
          BY <1>4, <1>6, <2>2, <3>1 DEF Tells
      <4>2. i \in Notes /\ TurnOf(wire[i]) = t
          BY <2>2, <4>1 DEF Notes, TurnOf
      <4> QED
          BY <1>9, <4>2
    <3> QED
        BY <3>1
  <2> QED
      BY <1>4, <2>1, <2>2
<1>11. Announced(b)' /\ \A i \in Notes : ~Announced(i)'
  <2>1. b \in DOMAIN wire' /\ b <= b
      BY <1>4
  <2>2. \A i \in Notes : ~(b <= i)
      BY <1>9
  <2> QED
      BY <1>9, <1>10, <2>1, <2>2 DEF Announced
<1>12. \A i \in LiveReplies' : \/ i \in LiveReplies /\ wire'[i] = wire[i] /\ i \in DOMAIN wire
                               \/ i = a /\ r \in LiveRequests
  <2> TAKE i \in LiveReplies'
  <2>1. i \in DOMAIN wire' /\ wire'[i].kind = "reply" /\ wire'[i].what.epoch = call[wire'[i].what.call].epoch
      BY <1>1 DEF LiveReplies, ReplyAt
  <2>2. CASE i = a
      BY <1>8, <2>1, <2>2 DEF LiveRequests
  <2>3. CASE i \in DOMAIN wire
      BY <1>4, <2>1, <2>3 DEF LiveReplies, ReplyAt
  <2> QED
      BY <1>4, <1>8, <2>1, <2>2, <2>3
<1>13. /\ \A k, u, w : Told(k, u, w)' =>
             Told(k, u, w) \/ (k = r.call /\ u = t /\ w = "ok" /\ r \in LiveRequests)
       /\ \A k, op : Under(k, op)' <=> Under(k, op)
  <2>1. ASSUME NEW k, NEW u, NEW w, Told(k, u, w)'
        PROVE  Told(k, u, w) \/ (k = r.call /\ u = t /\ w = "ok" /\ r \in LiveRequests)
    <3>1. ASSUME NEW i \in LiveReplies', wire'[i].what.call = k, wire'[i].what.turn = u, wire'[i].what.val = w
          PROVE  Told(k, u, w) \/ (k = r.call /\ u = t /\ w = "ok" /\ r \in LiveRequests)
        BY <1>8, <1>12, <3>1 DEF Told
    <3> QED
        BY <1>1, <2>1, <3>1 DEF Told
  <2> QED
      BY <1>1, <2>1 DEF Under
<1>14. /\ {"submit", "progress", "cancel"} = Calls /\ call["progress"].pc = "none" /\ call["cancel"].pc = "none"
       /\ \A op \in {"read", "interrupt"} : ~Under("submit", op)
       /\ \A q \in requests : q.op = "start" => q.call = "submit"
  <2>1. {"submit", "progress", "cancel"} = Calls
      BY DEF Calls
  <2>2. call["progress"].pc = "none" /\ call["cancel"].pc = "none"
      BY <1>1, <2>1 DEF IInv, CallInv, OpsOf
  <2>3. \A q \in requests : q.call \in Calls /\ q.op \in OpsOf[q.call]
      BY RequestFields, Parts DEF IInv, RequestInv
  <2>4. \A q \in requests : q.op = "start" => q.call = "submit"
      BY <2>1, <2>3 DEF OpsOf
  <2> QED
      BY <1>1, <2>1, <2>2, <2>4 DEF Under
\* Nobody was told of a start while one was on its way.
<1>15. \A u \in Named, w \in Values : Under("submit", "start") /\ Told("submit", u, w) => u = NoTurn /\ w = "error"
    BY <1>1 DEF StartInv
<1>16. \A q \in requests : q.op = "start" /\ r \in LiveRequests => q = r
  <2> SUFFICES ASSUME NEW q \in requests, q.op = "start", r \in LiveRequests PROVE q = r
      OBVIOUS
  <2>1. q.call = "submit" /\ r.call = "submit" /\ q.epoch \in Nat /\ r.epoch \in Nat /\ call["submit"].epoch \in Nat
      BY <1>1, <1>14, RequestFields, CallFields, Parts
  <2>2. q.epoch >= r.epoch /\ r.epoch = call["submit"].epoch /\ q.epoch <= call["submit"].epoch
      BY <1>1, <2>1 DEF LiveRequests, IInv, RequestInv
  <2>3. q.epoch = r.epoch /\ q \in LiveRequests
      BY <2>1, <2>2 DEF LiveRequests
  <2>4. q.turn = r.turn /\ q.prompt = r.prompt
      BY <2>1, <2>3 DEF IInv, RequestInv
  <2>5. /\ q = [call |-> q.call, epoch |-> q.epoch, op |-> q.op, turn |-> q.turn, prompt |-> q.prompt]
        /\ r = [call |-> r.call, epoch |-> r.epoch, op |-> r.op, turn |-> r.turn, prompt |-> r.prompt]
      BY RequestFields, Parts
  <2> QED
      BY <1>1, <2>1, <2>3, <2>4, <2>5
<1>17. OrderInv' /\ RecordInv'
  <2>1. \A u \in Turns : /\ srv'[u] # "none" <=> u <= t
                         /\ u < t => srv'[u] # "running"
    <3> TAKE u \in Turns
    <3>1. u = t \/ (u <= t <=> u <= Latest)
        BY <1>3
    <3> QED
        BY <1>3, <1>5, <3>1 DEF OrderInv
  <2>2. \A u \in Turns : u <= Latest => u <= t
      BY <1>3
  <2>3. \A i \in Notes' : TurnOf(wire'[i]) <= t
      BY <1>3, <1>8, <1>9, Shape
  <2>4. \A u \in missed : u <= t
      BY <2>2, Parts DEF OrderInv, HistoryTypes
  <2>5. OrderInv'
      BY <1>1, <1>6, <2>1, <2>2, <2>3, <2>4 DEF OrderInv
  <2>6. RecordInv'
      BY <1>1, <1>5, <1>6 DEF RecordInv
  <2> QED
      BY <2>5, <2>6
<1>18. LossInv' /\ NamedInv'
    BY <1>1, <1>5, <1>6, <1>9, <1>13, <1>14 DEF LossInv, NamedInv
<1>19. AnswerInv' /\ ReadInv'
  <2>1. \A k \in {"progress", "cancel"} : call'[k].pc = "none"
      BY <1>1, <1>14
  <2>2. \A k \in {"progress", "cancel"} : \A u, w : ~Told(k, u, w)'
    <3> SUFFICES ASSUME NEW k \in {"progress", "cancel"}, NEW u, NEW w, Told(k, u, w)' PROVE FALSE
        OBVIOUS
    <3>1. PICK i \in LiveReplies' : wire'[i].what.call = k
        BY <2>1 DEF Told
    <3>2. call'[wire'[i].what.call].pc = "wait"
        BY DEF IInv, ReplyInv
    <3> QED
        BY <2>1, <3>1, <3>2
  <2> QED
      BY <1>1, <1>13, <1>14, <2>1, <2>2 DEF AnswerInv, ReadInv
<1>20. StartInv'
  <2> SUFFICES ASSUME Under("submit", "start"), NEW u \in Named, NEW w \in Values, Told("submit", u, w)'
               PROVE  /\ u = NoTurn <=> w = "error"
                      /\ u # NoTurn => u = t /\ \A q \in requests' : q.op # "start"
      BY <1>1, <1>5, <1>6, <1>13 DEF StartInv
  <2>1. CASE Told("submit", u, w)
      BY <1>15, <2>1
  <2>2. CASE u = t /\ w = "ok" /\ r \in LiveRequests
      BY <1>1, <1>3, <1>16, <2>2
  <2> QED
      BY <1>13, <2>1, <2>2
<1>21. \A i \in LiveReplies : Under("submit", "start") => wire[i].what.call # "submit"
  <2> SUFFICES ASSUME NEW i \in LiveReplies, Under("submit", "start"), wire[i].what.call = "submit" PROVE FALSE
      OBVIOUS
  <2>1. wire[i].what.val \in {"ok"}
      BY AnswerValues DEF IInv, ReplyInv, Under
  <2>2. wire[i].what.turn \in Named /\ wire[i].what.val \in Values
      BY Shape
  <2>3. Told("submit", wire[i].what.turn, wire[i].what.val)
      BY DEF Told
  <2> QED
      BY <1>15, <2>1, <2>2, <2>3
<1>22. call["submit"].pc = "ready" /\ call["submit"].op = "start" => call["submit"].val = "error"
  <2>1. call["submit"].turn \in Named /\ call["submit"].val \in Values
      BY <1>14, Shape
  <2> QED
      BY <1>15, <2>1 DEF Told, Under
<1>23. FirstInv' /\ OldNotesInv'
  <2>1. ASSUME NEW i \in Notes', TurnOf(wire'[i]) = t \/ AnsweredBefore(i)' PROVE Announced(i)'
    <3>1. CASE i = b
        BY <1>11, <3>1
    <3>2. CASE i \in Notes
      <4>1. AnsweredBefore(i)'
          BY <1>9, <2>1, <3>2
      <4>2. Under("submit", "start") /\ call["submit"].pc # "none" /\ call["submit"].op = "start"
          BY <1>13, <4>1 DEF AnsweredBefore, Under
      <4>3. PICK k \in LiveReplies' : k < i /\ wire'[k].what.call = "submit"
          BY <1>1, <1>22, <4>1, <4>2 DEF AnsweredBefore
      <4>4. k # a
          BY <1>9, <3>2, <4>3
      <4> QED
          BY <1>12, <1>21, <4>2, <4>3, <4>4
    <3> QED
        BY <1>9, <3>1, <3>2
  <2>2. OldNotesInv'
      BY <1>6, <1>7, <1>8, <1>9, <1>11 DEF OldNotesInv
  <2> QED
      BY <1>6, <2>1, <2>2 DEF FirstInv
<1>24. LateReadInv' /\ LateAnswerInv'
  <2>1. LateReadInv'
      BY <1>13, <1>14 DEF LateReadInv
  <2>2. call["submit"].pc = "ready" => call["submit"].op \in {"start", "steer"}
      BY <1>1, <1>14 DEF IInv, CallInv, OpsOf
  <2> QED
      BY <1>1, <1>22, <2>1, <2>2 DEF LateAnswerInv
<1>25. RunningInv'
  <2>1. \A u \in Turns : srv'[u] = "running" => u = t
      BY <1>5
  <2>2. \A i \in Notes' : wire'[i].kind = "ended" => TurnOf(wire'[i]) # t
      BY <1>8, <1>9
  <2> QED
      BY <1>1, <1>5, <2>1, <2>2 DEF RunningInv
<1>26. SeenInv' /\ UnseenInv'
    BY <1>7, <1>9 DEF SeenInv, UnseenInv
<1>27. OverInv'
  <2> SUFFICES ASSUME NEW u \in Turns, Over(u)', u \notin missed
               PROVE  \/ tracked[u].finished
                      \/ \E i \in Notes' : wire'[i].kind = "ended" /\ TurnOf(wire'[i]) = u
                      \/ Settled(u)'
      BY <1>1 DEF OverInv
  <2>1. u # t /\ Over(u)
      BY <1>5 DEF Over
  <2>2. Settled(u) => Settled(u)'
    <3>1. \A i \in Notes' : (\A j \in Notes : TurnOf(wire[j]) # u) => TurnOf(wire'[i]) # u
        BY <1>8, <1>9, <2>1
    <3>2. \A w : Told("submit", u, w)' => Told("submit", u, w)
        BY <1>13, <2>1
    <3> QED
        BY <1>1, <1>6, <1>13, <2>1, <3>1, <3>2 DEF Settled
  <2> QED
      BY <1>9, <2>1, <2>2 DEF OverInv
<1> QED
    BY <1>17, <1>18, <1>19, <1>20, <1>23, <1>24, <1>25, <1>26, <1>27

LEMMA HonestConnectionLost ==
    ASSUME IInv, IInv', Honest, ConnectionLost PROVE Honest'
<1> USE DEF Honest
<1>1. /\ connected /\ connected' = FALSE /\ wire' = <<>> /\ requests' = {}
      /\ missed' = missed \cup {t \in Turns : \E n \in DOMAIN wire :
                                  wire[n].kind \in {"started", "ended"} /\
                                  t = IF wire[n].kind = "started" THEN wire[n].what ELSE wire[n].what.turn}
                          \cup {t \in Turns : srv[t] = "running" /\ tracked[t].status = "none"}
      /\ UNCHANGED <<srv, tracked, current, merges, session>>
    BY DEF ConnectionLost, memoryVars
<1>2. ASSUME NEW k \in Calls
      PROVE  /\ call[k].pc # "wait" => call'[k] = call[k]
             /\ call[k].pc = "wait" => /\ call'[k].pc = "ready" /\ call'[k].val = "error"
                                       /\ call'[k].turn = IF call[k].op = "start" THEN NoTurn ELSE call[k].turn
                                       /\ call'[k].op = call[k].op
  <2>1. call[k] \in CallRecords
      BY Parts DEF CallTypes
  <2>2. call'[k] = IF call[k].pc = "wait"
                   THEN [call[k] EXCEPT !.pc = "ready", !.turn = IF call[k].op = "start" THEN NoTurn ELSE call[k].turn,
                                        !.val = "error", !.ahead = Len(merges)]
                   ELSE call[k]
      BY DEF ConnectionLost
  <2> QED
      BY <2>1, <2>2 DEF CallRecords
<1>3. Notes' = {} /\ LiveReplies' = {}
  <2>1. DOMAIN wire' = {}
      BY <1>1
  <2> QED
      BY <2>1 DEF Notes, LiveReplies, ReplyAt
<1>4. Latest' = Latest /\ Runs' = Runs /\ Unseen' = Unseen /\ (\A n \in Turns : Over(n)' <=> Over(n))
  <2>1. Latest' = Latest
      BY <1>1, SameLatest
  <2> QED
      BY <1>1, <2>1 DEF Runs, Unseen, Over
<1>5. {"submit", "progress", "cancel"} = Calls
    BY DEF Calls
<1>6. \A k \in Calls : \A op : Under(k, op)' <=> Under(k, op)
    BY <1>2 DEF Under
<1>7. \A k \in Calls : \A u, w : Told(k, u, w)' =>
         \/ Told(k, u, w)
         \/ w = "error" /\ call[k].pc = "wait"
            /\ u = IF call[k].op = "start" THEN NoTurn ELSE call[k].turn
    BY <1>2, <1>3 DEF Told
<1>8. missed \subseteq missed' /\ \A t \in missed' : t <= Latest
  <2> SUFFICES ASSUME NEW t \in missed' PROVE t <= Latest
      BY <1>1
  <2>1. CASE t \in missed
      BY <2>1 DEF OrderInv
  <2>2. ASSUME NEW n \in DOMAIN wire, wire[n].kind \in {"started", "ended"},
               t = IF wire[n].kind = "started" THEN wire[n].what ELSE wire[n].what.turn
        PROVE  t <= Latest
    <3>1. n \in Notes /\ TurnOf(wire[n]) = t
        BY <2>2 DEF Notes, TurnOf
    <3> QED
        BY <3>1 DEF OrderInv
  <2>3. CASE t \in Turns /\ srv[t] = "running"
      BY <2>3 DEF OrderInv
  <2> QED
      BY <1>1, <2>1, <2>2, <2>3
<1>9. Unseen => session.last # Latest
    BY <1>1 DEF NamedInv
<1>10. OrderInv' /\ RecordInv' /\ LossInv'
    BY <1>1, <1>3, <1>4, <1>8 DEF OrderInv, RecordInv, LossInv
<1>11. NamedInv'
  <2>1. \A k \in Calls : call'[k].pc # "none" => call[k].pc # "none"
      BY <1>2
  <2>2. \A k \in Calls : call'[k].pc = "none" <=> call[k].pc = "none"
      BY <1>2
  <2> QED
      BY <1>1, <1>4, <1>5, <1>6, <1>9, <2>1, <2>2 DEF NamedInv
<1>12. AnswerInv'
  <2>1. \A k \in {"progress", "cancel"} : call[k].pc # "none" => call[k].op # "start" /\ call[k].turn = Latest
      BY <1>5 DEF AnswerInv, IInv, CallInv, OpsOf
  <2>2. \A k \in {"progress", "cancel"} : call'[k].pc # "none" => call'[k].turn = Latest
      BY <1>2, <1>5, <2>1
  <2>3. \A k \in {"progress", "cancel"}, u \in Named, w \in Values : Told(k, u, w)' => u = Latest
      BY <1>5, <1>7, <2>1 DEF AnswerInv
  <2>4. \A u \in Named, w \in Values : Told("progress", u, w)' /\ w # "error" => Told("progress", u, w)
      BY <1>5, <1>7
  <2>5. \A u \in Named : Told("cancel", u, "ok")' => Told("cancel", u, "ok")
      BY <1>5, <1>7
  <2> QED
      BY <1>1, <1>4, <2>2, <2>3, <2>4, <2>5 DEF AnswerInv
<1>13. ReadInv'
  <2>1. \A u \in Named, w \in Values : Told("submit", u, w)' /\ w # "error" => Told("submit", u, w)
      BY <1>5, <1>7
  <2> QED
      BY <1>1, <1>4, <1>5, <1>6, <2>1 DEF ReadInv
<1>14. StartInv'
  <2>1. \A u \in Named, w \in Values : Under("submit", "start") /\ Told("submit", u, w)' =>
           Told("submit", u, w) \/ (u = NoTurn /\ w = "error")
      BY <1>5, <1>7 DEF Under
  <2> QED
      BY <1>1, <1>4, <1>5, <1>6, <2>1 DEF StartInv
<1>15. FirstInv' /\ OldNotesInv' /\ LateReadInv'
    BY <1>3 DEF FirstInv, OldNotesInv, LateReadInv
<1>16. LateAnswerInv'
    BY <1>1, <1>2, <1>4, <1>5 DEF LateAnswerInv
<1>17. RunningInv'
    BY <1>1, <1>3 DEF RunningInv
<1>18. SeenInv' /\ UnseenInv'
  <2>1. Converges' <=> Converges
      BY <1>1, <1>4 DEF Converges, Names, Keeps, Sets
  <2>2. Runs /\ Unseen => Latest \in missed'
    <3>1. Runs => Latest \in Turns /\ srv[Latest] = "running"
        BY Shape DEF Runs, Named
    <3> QED
        BY <1>1, <3>1 DEF Unseen
  <2> QED
      BY <1>1, <1>4, <2>1, <2>2 DEF SeenInv, UnseenInv
<1>19. OverInv'
  <2> SUFFICES ASSUME NEW n \in Turns, Over(n), n \notin missed' PROVE tracked[n].finished \/ Settled(n)'
      BY <1>1, <1>4 DEF OverInv
  <2>1. ~ \E i \in Notes : wire[i].kind = "ended" /\ TurnOf(wire[i]) = n
    <3> SUFFICES ASSUME NEW i \in Notes, wire[i].kind = "ended", TurnOf(wire[i]) = n PROVE FALSE
        OBVIOUS
    <3>1. i \in DOMAIN wire /\ n = wire[i].what.turn
        BY DEF Notes, TurnOf
    <3> QED
        BY <1>1, <3>1
  <2>2. Settled(n) => Settled(n)'
    <3>1. \A w : Told("progress", n, w)' => Told("progress", n, w) \/ w = "error"
        BY <1>5, <1>7
    <3>2. \A w : Told("submit", n, w)' => Told("submit", n, w) \/ w = "error"
        BY <1>5, <1>7
    <3>3. "error" \notin Terminal \cup {"ok", "running"}
        BY DEF Terminal
    <3> QED
        BY <1>1, <1>3, <1>4, <1>5, <1>6, <3>1, <3>2, <3>3 DEF Settled
  <2> QED
      BY <1>8, <2>1, <2>2 DEF OverInv
<1> QED
    BY <1>10, <1>11, <1>12, <1>13, <1>14, <1>15, <1>16, <1>17, <1>18, <1>19

-----------------------------------------------------------------------------
(* The invariant, and what it means when nothing is under way.             *)

HonestInv == overtaken \/ Honest

LEMMA HonestInitial == Init => HonestInv
<1> SUFFICES ASSUME Init PROVE Honest
    BY DEF HonestInv
<1>1. /\ \A t \in Turns : srv[t] = "none" /\ tracked[t] = Untracked
      /\ wire = <<>> /\ DOMAIN wire = {} /\ merges = <<>> /\ DOMAIN merges = {} /\ requests = {} /\ missed = {}
      /\ \A k \in Calls : call[k] = NoCall
      /\ connected /\ session.active = NoTurn /\ session.last = NoTurn /\ NoTurn = 0
    BY DEF Init, NoTurn
<1>2. \A t \in Turns : tracked[t].status = "none" /\ ~tracked[t].finished /\ tracked[t].asks = {}
    BY <1>1 DEF Untracked
<1>3. Latest = NoTurn
    BY <1>1, NewestTurns
<1>4. \A t \in Turns : t \in Nat /\ ~(t <= 0)
    BY TurnsAssumption DEF Turns
<1>5. Notes = {} /\ LiveReplies = {} /\ ~Unseen /\ ~Runs
    BY <1>1, <1>3 DEF Notes, LiveReplies, ReplyAt, Unseen, Runs
<1>6. {"submit", "progress", "cancel"} = Calls /\ \A k \in Calls : call[k].pc = "none"
    BY <1>1 DEF Calls, NoCall
<1>7. \A k \in Calls : \A t, v : ~Told(k, t, v) /\ ~Under(k, v)
    BY <1>5, <1>6 DEF Told, Under
<1>8. OrderInv /\ RecordInv /\ LossInv
    BY <1>1, <1>2, <1>3, <1>4, <1>5 DEF OrderInv, RecordInv, LossInv
<1>9. NamedInv /\ AnswerInv /\ ReadInv /\ StartInv
    BY <1>1, <1>5, <1>6, <1>7 DEF NamedInv, AnswerInv, ReadInv, StartInv
<1>10. FirstInv /\ OldNotesInv /\ LateReadInv /\ LateAnswerInv
    BY <1>5 DEF FirstInv, OldNotesInv, LateReadInv, LateAnswerInv
<1>11. RunningInv /\ SeenInv /\ UnseenInv /\ OverInv
    BY <1>1, <1>5 DEF RunningInv, SeenInv, UnseenInv, OverInv, Over
<1> QED
    BY <1>8, <1>9, <1>10, <1>11 DEF Honest

LEMMA HonestInductive == IInv /\ HonestInv /\ [Next]_vars => HonestInv'
<1> SUFFICES ASSUME IInv, HonestInv, [Next]_vars, ~overtaken' PROVE Honest'
    BY DEF HonestInv
<1>1. IInv'
    BY Inductive
<1>2. overtaken => overtaken'
  <2>1. CASE UNCHANGED vars
      BY <2>1 DEF vars, historyVars
  <2>2. CASE Client
      BY <2>2 DEF Client, Submit, SteerAnswered, RefreshAnswered, PersistTurnStart, AskProgress, ProgressAnswered,
         AskCancel, CancelAnswered, MergeSession, ReceiveReply, ReceiveStarted, ReceiveItem, ReceiveEnded,
         ReceiveAsk, AnswerSent, AnswerSend, historyVars
  <2>3. CASE Server
      BY <2>3 DEF Server, ServerStarts, ServerSteers, ServerReads, ServerInterrupts, ServerWorks, ServerEnds,
         ServerAsks, historyVars
  <2>4. CASE Trouble
      BY <2>4 DEF Trouble, ConnectionLost, RequestTimesOut, historyVars
  <2> QED
      BY <2>1, <2>2, <2>3, <2>4 DEF Next
<1>3. Honest
    BY <1>2 DEF HonestInv
<1>4. CASE UNCHANGED vars
    BY <1>1, <1>3, <1>4, HonestFrame DEF vars, serverVars, memoryVars, historyVars
<1>5. CASE Client
  <2>1. CASE Submit \/ SteerAnswered \/ RefreshAnswered \/ PersistTurnStart
      BY <1>1, <1>3, <2>1, HonestSubmit, HonestSteerAnswered, HonestRefreshAnswered, HonestPersistTurnStart
  <2>2. CASE AskProgress \/ ProgressAnswered \/ AskCancel \/ CancelAnswered
      BY <1>1, <1>3, <2>2, HonestAskProgress, HonestProgressAnswered, HonestAskCancel, HonestCancelAnswered
  <2>3. CASE MergeSession
      BY <1>1, <1>3, <2>3, HonestMergeSession
  <2>4. CASE ReceiveReply \/ ReceiveStarted \/ ReceiveItem \/ ReceiveEnded \/ ReceiveAsk
      BY <1>1, <1>3, <2>4, HonestReceiveReply, HonestReceiveStarted, HonestReceiveItem, HonestReceiveEnded,
         HonestReceiveAsk
  <2>5. CASE \E x \in Answerers : AnswerSent(x) \/ \E a \in Asks : AnswerSend(x, a)
      BY <1>1, <1>3, <2>5, HonestAnswerSent, HonestAnswerSend
  <2> QED
      BY <1>5, <2>1, <2>2, <2>3, <2>4, <2>5 DEF Client
<1>6. CASE Server
  <2>1. CASE \E r \in requests : ServerStarts(r) \/ ServerSteers(r) \/ ServerReads(r) \/ ServerInterrupts(r)
      BY <1>1, <1>3, <2>1, HonestServerStarts, HonestServerSteers, HonestServerReads, HonestServerInterrupts
  <2>2. CASE \E t \in Turns : ServerWorks(t) \/ ServerEnds(t) \/ ServerAsks(t)
      BY <1>1, <1>3, <2>2, HonestServerWorks, HonestServerEnds, HonestServerAsks
  <2> QED
      BY <1>6, <2>1, <2>2 DEF Server
<1>7. CASE Trouble
    BY <1>1, <1>3, <1>7, HonestConnectionLost, HonestRequestTimesOut DEF Trouble
<1> QED
    BY <1>4, <1>5, <1>6, <1>7 DEF Next

\* When nothing is under way the record is what the merges made of it, and the turns that are
\* over are settled.
LEMMA HonestGate == IInv /\ HonestInv => GateIsHonest
<1> SUFFICES ASSUME IInv, Honest, Quiet, missed = {}
             PROVE  /\ (\E t \in Turns : srv[t] = "running") => ThreadHasActiveTurn(tracked, session)
                    /\ ThreadHasActiveTurn(tracked, session) => \E t \in Turns : srv[t] \in {"running", "stopping"}
    BY DEF HonestInv, GateIsHonest
<1> USE DEF Honest
<1>1. Notes = {} /\ DOMAIN merges = {}
    BY DEF Quiet, Notes
<1>2. ASSUME NEW t \in Turns, srv[t] = "running" PROVE ThreadHasActiveTurn(tracked, session)
  <2>1. t = Latest /\ Runs /\ t # NoTurn
    <3>1. t <= Latest /\ ~(t < Latest) /\ t \in Nat /\ Latest \in Nat /\ t # NoTurn
        BY <1>2, Shape DEF OrderInv
    <3> QED
        BY <1>2, <3>1 DEF Runs
  <2>2. Names(session)
    <3>1. CASE Unseen
        BY <1>1, <2>1, <3>1 DEF UnseenInv
    <3>2. CASE ~Unseen
        BY <1>1, <2>1, <3>2 DEF SeenInv, Converges
    <3> QED
        BY <3>1, <3>2
  <2>3. tracked[t].status \in {"none"} \cup ActiveStatus /\ ~tracked[t].finished
      BY <1>2 DEF RunningInv
  <2> QED
      BY <2>1, <2>2, <2>3 DEF ThreadHasActiveTurn, SessionStatus, Names, IsActive
<1>3. ASSUME ThreadHasActiveTurn(tracked, session), \A t \in Turns : srv[t] \notin {"running", "stopping"}
      PROVE  FALSE
  <2> DEFINE n == session.last
  <2>1. session.active \in {NoTurn, n} /\ n <= Latest /\ n \in Named
      BY Parts DEF RecordInv, SessionTypes, Sessions, Named
  <2>2. IsActive(SessionStatus(tracked, session))
      BY <1>3 DEF ThreadHasActiveTurn
  <2>3. n # NoTurn
    <3>1. CASE session.active # NoTurn
        BY <2>1, <3>1
    <3>2. CASE session.active = NoTurn
        BY <2>2, <3>2 DEF SessionStatus, IsActive, ActiveStatus
    <3> QED
        BY <3>1, <3>2
  <2>4. n \in Turns /\ Over(n)
    <3>1. n \in Turns
        BY <2>1, <2>3 DEF Named
    <3>2. srv[n] # "none" /\ srv[n] \in ServerStates
        BY <2>1, <3>1, Shape DEF OrderInv
    <3> QED
        BY <1>3, <3>1, <3>2 DEF Over, ServerStates
  <2>5. tracked[n].finished \/ Settled(n)
      BY <1>1, <2>4 DEF OverInv
  <2>6. session.active = n \/ (session.active = NoTurn /\ IsActive(session.status))
      BY <2>1, <2>2 DEF SessionStatus, IsActive, ActiveStatus
  <2> HIDE DEF n
  <2>7. CASE tracked[n].status = "none"
    <3>1. ~tracked[n].finished
        BY <2>4, <2>7 DEF OrderInv
    <3>2. session.active # n /\ ~IsActive(session.status)
        BY <2>5, <2>7, <3>1 DEF Settled, n
    <3> QED
        BY <2>6, <3>2
  <2>8. CASE tracked[n].status # "none"
    <3>1. n # NoTurn /\ session.last = n
        BY <2>3 DEF n
    <3>2. CASE ~(IsActive(tracked[n].status) /\ tracked[n].finished)
      <4>1. SessionStatus(tracked, session) = tracked[n].status
          BY <2>6, <2>8, <3>1, <3>2 DEF SessionStatus
      <4> QED
          BY <2>2, <2>5, <2>8, <3>2, <4>1 DEF Settled, IsActive, ActiveStatus, Terminal
    <3>3. CASE IsActive(tracked[n].status) /\ tracked[n].finished
      <4>1. ~IsActive(SessionStatus(tracked, session))
          BY <2>6, <2>8, <3>1, <3>3 DEF SessionStatus, IsActive, ActiveStatus
      <4> QED
          BY <2>2, <4>1
    <3> QED
        BY <3>2, <3>3
  <2> QED
      BY <2>7, <2>8
<1> QED
    BY <1>2, <1>3

\* However the answers, notifications, reads and merges interleaved, once nothing is under way
\* the gate says what is true at the server: a prompt is neither started beside a running turn
\* nor queued behind none, until a call about an older turn was asked.
THEOREM GateTellsTheTruth == Spec => []GateIsHonest
<1>1. Init => IInv /\ HonestInv
    BY Initial, HonestInitial
<1>2. (IInv /\ HonestInv) /\ [Next]_vars => (IInv /\ HonestInv)'
    BY Inductive, HonestInductive
<1>3. IInv /\ HonestInv => GateIsHonest
    BY HonestGate
<1> QED
    BY <1>1, <1>2, <1>3, PTL DEF Spec
=============================================================================
