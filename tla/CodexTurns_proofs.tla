-------------------------- MODULE CodexTurns_proofs --------------------------
(***************************************************************************)
(* TLAPS proofs about CodexTurns, for any number of turns, prompts, lost   *)
(* connections and late answers.                                           *)
(***************************************************************************)
EXTENDS CodexTurns, SequenceTheorems, WellFoundedInduction, TLAPS

-----------------------------------------------------------------------------
(* The values of the variables.                                            *)

Statuses == {"running", "completed", "failed", "cancelled", "unknown"}
\* What the server answers to a request.
Answers == [start |-> {"ok"}, steer |-> {"ok", "no turn"}, read |-> Statuses, interrupt |-> {"ok"}]
Ops == {"start", "steer", "read", "interrupt"}
OpsOf == [submit |-> {"start", "steer", "read"}, progress |-> {"read"}, cancel |-> {"interrupt"}]
Values == {"none", "ok", "no turn", "error"} \cup Statuses

CallRecords == [pc : {"none", "wait", "ready"}, op : Ops \cup {"none"}, turn : Turns \cup {NoTurn},
                val : Values, prompt : 0..MaxSubmits, epoch : Nat, ahead : Nat]
RequestRecords == [call : Calls, epoch : Nat, op : Ops, turn : Turns \cup {NoTurn},
                   prompt : 0..MaxSubmits]
Replies == [call : Calls, epoch : Nat, turn : Turns \cup {NoTurn}, val : Values]
Messages == [kind : {"reply"}, what : Replies]
            \cup [kind : {"started", "item"}, what : Turns]
            \cup [kind : {"ended"}, what : [turn : Turns, failed : BOOLEAN]]
            \cup [kind : {"ask"}, what : [turn : Turns, ask : Asks]]
EntryStatuses == Terminal \cup ActiveStatus \cup {"none"}
Entries == [status : EntryStatuses, finished : BOOLEAN, asks : SUBSET Asks]
RecordStatuses == Terminal \cup ActiveStatus \cup {"unknown"}
Sessions == [active : Turns \cup {NoTurn}, last : Turns \cup {NoTurn}, status : RecordStatuses]
Patches == [active : Turns \cup {NoTurn}, clear : BOOLEAN, last : Turns \cup {NoTurn},
            status : RecordStatuses \cup {"none"}]

ServerTypes == srv \in [Turns -> ServerStates] /\ connected \in BOOLEAN
CallTypes == call \in [Calls -> CallRecords]
RequestTypes == requests \subseteq RequestRecords
WireTypes == wire \in Seq(Messages)
MemoryTypes == tracked \in [Turns -> Entries] /\ current \in Turns \cup {NoTurn}
AskTypes == pendingAsks \subseteq Asks /\ answering \in [Answerers -> 0..MaxTwists]
SessionTypes == session \in Sessions /\ merges \in Seq(Patches)
HistoryTypes ==
    /\ submits \in 0..MaxSubmits /\ twists \in 0..MaxTwists
    /\ delivered \in [Prompts -> Nat] /\ missed \subseteq Turns /\ overtaken \in BOOLEAN

Types == /\ ServerTypes /\ CallTypes /\ RequestTypes /\ WireTypes
         /\ MemoryTypes /\ AskTypes /\ SessionTypes /\ HistoryTypes

-----------------------------------------------------------------------------
(* The inductive invariant.                                                *)

\* A request and an answer that a coroutine still waits for; those of calls that timed out
\* carry an older epoch.
LiveRequests == {r \in requests : r.epoch = call[r.call].epoch}
ReplyAt == {i \in DOMAIN wire : wire[i].kind = "reply"}
LiveReplies == {i \in ReplyAt : wire[i].what.epoch = call[wire[i].what.call].epoch}

\* Every call waits for at most one thing, a request at the server or an answer on the
\* wire, and the answer fits the request.
RequestInv ==
    /\ \A r \in requests :
          /\ r.epoch <= call[r.call].epoch
          /\ r.op \in OpsOf[r.call] /\ (r.op \in {"steer", "interrupt"} => r.turn # NoTurn)
    /\ \A r \in LiveRequests :
          /\ call[r.call].pc = "wait" /\ call[r.call].op = r.op /\ call[r.call].turn = r.turn
          /\ call[r.call].prompt = r.prompt
CallInv ==
    \A k \in Calls :
        /\ call[k].pc # "none" => call[k].op \in OpsOf[k]
        /\ call[k].pc = "ready" => call[k].val \in Answers[call[k].op] \cup {"error"}
        /\ call[k].pc # "none" /\ call[k].op = "interrupt" => call[k].turn # NoTurn
        /\ call[k].pc # "none" /\ k = "progress" => call[k].turn # NoTurn
ReplyInv ==
    /\ \A i \in ReplyAt : wire[i].what.epoch <= call[wire[i].what.call].epoch
    /\ \A i \in LiveReplies : LET c == call[wire[i].what.call] IN
          /\ c.pc = "wait" /\ wire[i].what.val \in Answers[c.op]
          /\ c.op = "interrupt" \/ wire[i].what.call = "progress" => wire[i].what.turn # NoTurn
          /\ \A r \in LiveRequests : r.call # wire[i].what.call
    /\ \A i, j \in LiveReplies : wire[i].what.call = wire[j].what.call => i = j

\* The requests that bring a prompt to a turn, and the submission that may still send one.
Carriers == {r \in requests : r.op \in {"start", "steer"}}
Refused == \E i \in LiveReplies : wire[i].what.call = "submit" /\ wire[i].what.val = "no turn"
Holds == /\ call["submit"].pc # "none"
         /\ \/ call["submit"].op = "read"
            \/ call["submit"].op = "steer" /\ call["submit"].pc = "ready" /\ call["submit"].val = "no turn"
            \/ Refused

\* A prompt is at one place: delivered, in one request, or with its submission.
PromptInv ==
    /\ \A n \in Prompts : delivered[n] <= 1 /\ (n > submits => delivered[n] = 0)
    /\ \A r \in Carriers : r.prompt \in 1..submits /\ delivered[r.prompt] = 0
    /\ \A r, q \in Carriers : r.prompt = q.prompt => r = q
    /\ call["submit"].pc # "none" => call["submit"].prompt = submits /\ submits \in Prompts
    /\ Holds => delivered[submits] = 0 /\ \A r \in Carriers : r.prompt # submits

\* A turn waits only for something, and a turn's requests can be answered.
AskInv ==
    \A t \in Turns : /\ tracked[t].asks \subseteq pendingAsks
                     /\ tracked[t].status = "waiting" => tracked[t].asks # {}

IInv == Types /\ RequestInv /\ CallInv /\ ReplyInv /\ PromptInv /\ AskInv

LEMMA TypeParts == Types => TypeOK
BY DEF Types, ServerTypes, CallTypes, CallRecords, MemoryTypes, Entries, EntryStatuses,
       AskTypes, SessionTypes, Sessions, RecordStatuses, HistoryTypes, TypeOK

-----------------------------------------------------------------------------
(* Lemmas about the operators.                                             *)

\* A set of numbers that is not empty has a least element.
LEMMA Least ==
    ASSUME NEW S \in SUBSET Nat, S # {}
    PROVE  \E n \in S : \A m \in S : n <= m
<1> DEFINE R == {ss \in Nat \X Nat : ss[1] < ss[2]}
<1>1. IsWellFoundedOn(R, Nat)
    BY NatLessThanWellFounded, Zenon DEF OpToRel
<1>2. PICK x \in S : \A y \in S : ~ (<<y, x>> \in R)
  <2> HIDE DEF R
  <2> QED
      BY <1>1, WFMin
<1>3. ASSUME NEW y \in S PROVE x <= y
  <2>1. <<y, x>> \notin R
      BY <1>2
  <2>2. <<y, x>> \in R <=> y < x
      OBVIOUS
  <2> QED
      BY <2>1, <2>2
<1> QED
    BY <1>3

\* A bounded set of numbers has a greatest element: the least of its upper bounds.
LEMMA Greatest ==
    ASSUME NEW N \in Nat, NEW S \in SUBSET (0..N), S # {}
    PROVE  Max(S) \in S /\ \A y \in S : Max(S) >= y
<1> DEFINE U == {n \in Nat : \A m \in S : m <= n}
<1>1. U \in SUBSET Nat /\ N \in U
    OBVIOUS
<1>2. PICK n \in U : \A u \in U : n <= u
  <2> HIDE DEF U
  <2> QED
      BY <1>1, Least
<1>3. n \in S
  <2> SUFFICES ASSUME n \notin S PROVE FALSE
      OBVIOUS
  <2>1. n \in Nat /\ \A m \in S : m <= n
      OBVIOUS
  <2>2. PICK m \in S : TRUE
      OBVIOUS
  <2>3. m <= n /\ m # n /\ m \in Nat
      BY <2>1
  <2>4. n - 1 \in Nat
      BY <2>1, <2>3
  <2>5. ASSUME NEW l \in S PROVE l <= n - 1
    <3>1. l <= n /\ l # n /\ l \in Nat
        BY <2>1
    <3> QED
        BY <2>1, <3>1
  <2>6. n - 1 \in U
      BY <2>4, <2>5
  <2>7. n <= n - 1
      BY <1>2, <2>6
  <2> QED
      BY <2>1, <2>7
<1>4. \A y \in S : n >= y
    BY <1>1
<1> QED
    BY <1>3, <1>4 DEF Max

\* The newest turns are turns, and the newest ones.
LEMMA NewestTurns ==
    /\ Latest \in Turns \cup {NoTurn} /\ NewestRunning \in Turns \cup {NoTurn}
    /\ Latest # NoTurn => srv[Latest] # "none"
    /\ NewestRunning # NoTurn => Normalized(srv[NewestRunning]) = "running"
    /\ \A t \in Turns : /\ srv[t] # "none" => t <= Latest
                        /\ Normalized(srv[t]) = "running" => t <= NewestRunning
<1>1. MaxTurns \in Nat
    BY TurnsAssumption
<1>2. ASSUME NEW S \in SUBSET Turns
      PROVE  /\ Max({NoTurn} \cup S) \in {NoTurn} \cup S
             /\ \A t \in S : t <= Max({NoTurn} \cup S)
  <2>1. {NoTurn} \cup S \in SUBSET (0..MaxTurns) /\ {NoTurn} \cup S # {}
      BY <1>1 DEF Turns, NoTurn
  <2>2. /\ Max({NoTurn} \cup S) \in {NoTurn} \cup S
        /\ \A t \in {NoTurn} \cup S : Max({NoTurn} \cup S) >= t
      BY <1>1, <2>1, Greatest
  <2> QED
      BY <2>1, <2>2
<1>3. /\ {t \in Turns : srv[t] # "none"} \in SUBSET Turns
      /\ {t \in Turns : Normalized(srv[t]) = "running"} \in SUBSET Turns
    OBVIOUS
<1>4. /\ Latest \in {NoTurn} \cup {t \in Turns : srv[t] # "none"}
      /\ \A t \in {t \in Turns : srv[t] # "none"} : t <= Latest
    BY <1>2, <1>3 DEF Latest
<1>5. /\ NewestRunning \in {NoTurn} \cup {t \in Turns : Normalized(srv[t]) = "running"}
      /\ \A t \in {t \in Turns : Normalized(srv[t]) = "running"} : t <= NewestRunning
    BY <1>2, <1>3 DEF NewestRunning
<1> QED
    BY <1>4, <1>5

LEMMA NormalizedStatus ==
    ASSUME NEW state \in ServerStates PROVE Normalized(state) \in Statuses
BY DEF ServerStates, Normalized, Statuses

\* What a merge makes of the record.
LEMMA MergedSession ==
    ASSUME NEW s \in Sessions, NEW patch \in Patches
    PROVE  Merged(s, patch) \in Sessions
BY DEF Sessions, Patches, Merged

LEMMA PatchTypes ==
    ASSUME NEW t \in Turns \cup {NoTurn}, NEW status \in RecordStatuses
    PROVE  Patch(t, status) \in Patches
BY DEF Patch, Patches, IsActive

LEMMA OwnSummaryType == OwnSummary \in Patches
BY DEF OwnSummary, Patches, NoTurn

\* The record after a merge, and the merges left.
LEMMA MergeTypes ==
    ASSUME SessionTypes, merges # <<>>
    PROVE  Merged(session, Head(merges)) \in Sessions /\ Tail(merges) \in Seq(Patches)
<1>1. Head(merges) \in Patches /\ Tail(merges) \in Seq(Patches)
    BY HeadTailProperties DEF SessionTypes
<1> QED
    BY <1>1, MergedSession DEF SessionTypes

\* What is on the wire.
LEMMA WireShape ==
    ASSUME WireTypes
    PROVE  /\ Len(wire) \in Nat /\ DOMAIN wire = 1..Len(wire)
           /\ \A i \in DOMAIN wire : wire[i] \in Messages
           /\ \A i \in ReplyAt : /\ wire[i].what \in Replies /\ wire[i].what.call \in Calls
                                 /\ wire[i].what.epoch \in Nat
                                 /\ wire[i].what.turn \in Turns \cup {NoTurn}
<1>1. Len(wire) \in Nat /\ DOMAIN wire = 1..Len(wire) /\ wire \in [1..Len(wire) -> Messages]
    BY LenProperties DEF WireTypes
<1>2. \A i \in DOMAIN wire : wire[i] \in Messages
    BY <1>1
<1>3. ASSUME NEW i \in ReplyAt PROVE wire[i].what \in Replies
    BY <1>2, <1>3 DEF ReplyAt, Messages
<1>4. \A x \in Replies : x.call \in Calls /\ x.epoch \in Nat /\ x.turn \in Turns \cup {NoTurn}
    BY DEF Replies
<1> QED
    BY <1>1, <1>2, <1>3, <1>4

\* No reply joins the wire: each is where it was, or one place nearer.
Shifted(d) ==
    \A i \in DOMAIN wire' :
        wire'[i].kind = "reply" => i + d \in DOMAIN wire /\ wire'[i] = wire[i + d]
NoNewReply == \E d \in {0, 1} : Shifted(d)

\* One does.
NewReply(x) ==
    \E j \in DOMAIN wire' :
        /\ wire'[j] = Message("reply", x)
        /\ \A i \in DOMAIN wire' \ {j} :
              wire'[i].kind = "reply" => i \in DOMAIN wire /\ wire'[i] = wire[i]

LEMMA WireUnchanged ==
    ASSUME WireTypes, wire' = wire PROVE WireTypes' /\ NoNewReply
<1>1. \A i \in DOMAIN wire : i + 0 = i
    BY WireShape
<1> QED
    BY <1>1 DEF WireTypes, NoNewReply, Shifted

LEMMA WireEmptied ==
    ASSUME wire' = <<>> PROVE WireTypes' /\ NoNewReply /\ \A i \in DOMAIN wire' : FALSE
BY DEF WireTypes, NoNewReply, Shifted

LEMMA WireReceived ==
    ASSUME WireTypes, wire # <<>>, wire' = Tail(wire)
    PROVE  /\ WireTypes' /\ NoNewReply
           /\ Head(wire) \in Messages /\ 1 \in DOMAIN wire /\ Head(wire) = wire[1]
           /\ \A i \in DOMAIN wire' : i + 1 \in DOMAIN wire /\ wire'[i] = wire[i + 1]
<1>1. /\ Len(wire) \in Nat /\ Len(wire) >= 1 /\ DOMAIN wire = 1..Len(wire)
      /\ \A i \in DOMAIN wire : wire[i] \in Messages
    BY WireShape, EmptySeq DEF WireTypes
<1>2. wire' \in Seq(Messages) /\ Len(wire') = Len(wire) - 1 /\ Head(wire) \in Messages
    BY HeadTailProperties DEF WireTypes
<1>3. Head(wire) = wire[1] /\ 1 \in DOMAIN wire
    BY <1>1 DEF WireTypes
<1>4. DOMAIN wire' = 1..(Len(wire) - 1)
    BY <1>1, <1>2, LenProperties
<1>5. \A i \in DOMAIN wire' : i + 1 \in DOMAIN wire /\ wire'[i] = wire[i + 1]
    BY <1>1, <1>2, <1>4 DEF WireTypes
<1> QED
    BY <1>2, <1>3, <1>5 DEF WireTypes, NoNewReply, Shifted

LEMMA WireTold ==
    ASSUME WireTypes, NEW m \in Messages, m.kind # "reply", Tell(<<m>>)
    PROVE  WireTypes' /\ NoNewReply
<1>1. CASE ~ connected
    BY <1>1, WireUnchanged DEF Tell
<1>2. CASE connected
  <2>1. wire' = wire \o <<m>>
      BY <1>2 DEF Tell
  <2>2. Len(wire) \in Nat /\ DOMAIN wire = 1..Len(wire) /\ <<m>> \in Seq(Messages)
      BY WireShape
  <2>3. wire' \in Seq(Messages) /\ Len(wire') = Len(wire) + 1
      BY <2>1, <2>2, ConcatProperties, Len(<<m>>) = 1 DEF WireTypes
  <2>4. DOMAIN wire' = 1..(Len(wire) + 1)
      BY <2>2, <2>3, LenProperties
  <2>5. ASSUME NEW i \in DOMAIN wire', wire'[i].kind = "reply"
        PROVE  i + 0 \in DOMAIN wire /\ wire'[i] = wire[i + 0]
    <3>1. CASE i = Len(wire) + 1
      <4>1. wire'[i] = m
          BY <2>1, <2>2, <3>1 DEF WireTypes
      <4> QED
          BY <2>5, <4>1
    <3>2. CASE i \in 1..Len(wire)
        BY <2>1, <2>2, <3>2 DEF WireTypes
    <3> QED
        BY <2>2, <2>4, <3>1, <3>2
  <2> QED
      BY <2>3, <2>5 DEF WireTypes, NoNewReply, Shifted
<1> QED
    BY <1>1, <1>2

LEMMA WireAnswered ==
    ASSUME WireTypes, NEW x \in Replies, wire' = Append(wire, Message("reply", x))
    PROVE  WireTypes' /\ NewReply(x)
<1> DEFINE m == Message("reply", x)
<1>1. m \in Messages /\ m.kind = "reply"
    BY DEF Message, Messages
<1>2. Len(wire) \in Nat /\ DOMAIN wire = 1..Len(wire)
    BY WireShape
<1>3. wire' \in Seq(Messages) /\ Len(wire') = Len(wire) + 1
    BY <1>1, <1>2, AppendProperties DEF WireTypes
<1>4. DOMAIN wire' = 1..(Len(wire) + 1)
    BY <1>2, <1>3, LenProperties
<1>5. wire'[Len(wire) + 1] = m /\ \A i \in 1..Len(wire) : wire'[i] = wire[i]
    BY <1>1, <1>2, AppendProperties DEF WireTypes
<1>6. Len(wire) + 1 \in DOMAIN wire'
    BY <1>2, <1>4
<1>7. \A i \in DOMAIN wire' \ {Len(wire) + 1} : i \in DOMAIN wire /\ wire'[i] = wire[i]
    BY <1>2, <1>4, <1>5
<1> QED
    BY <1>3, <1>5, <1>6, <1>7 DEF WireTypes, NewReply

LEMMA TwoMore ==
    ASSUME NEW S, NEW s \in Seq(S), NEW o \in Seq(S), Len(o) = 2
    PROVE  /\ s \o o \in Seq(S) /\ Len(s \o o) = Len(s) + 2
           /\ \A i \in 1..Len(s) : (s \o o)[i] = s[i]
           /\ (s \o o)[Len(s) + 1] = o[1] /\ (s \o o)[Len(s) + 2] = o[2]
<1>1. Len(s) \in Nat
    BY LenProperties
<1>2. /\ s \o o \in Seq(S) /\ Len(s \o o) = Len(s) + Len(o)
      /\ \A i \in 1 .. Len(s) + Len(o) : (s \o o)[i] = IF i <= Len(s) THEN s[i] ELSE o[i - Len(s)]
    BY ConcatProperties, Zenon
<1>3. \A i \in 1..Len(s) + 2 : (s \o o)[i] = IF i <= Len(s) THEN s[i] ELSE o[i - Len(s)]
    BY <1>2
<1>4. Len(s) + 1 - Len(s) = 1 /\ Len(s) + 2 - Len(s) = 2
    BY <1>1
<1> QED
    BY <1>1, <1>2, <1>3, <1>4

\* The answer to turn/start and its notification, in either order.
LEMMA WireStarted ==
    ASSUME WireTypes, NEW x \in Replies, NEW m \in Messages, m.kind # "reply",
           NEW order \in {<<Message("reply", x), m>>, <<m, Message("reply", x)>>},
           wire' = wire \o order
    PROVE  WireTypes' /\ NewReply(x)
<1> DEFINE a == Message("reply", x)
<1>1. a \in Messages /\ a.kind = "reply"
    BY DEF Message, Messages
<1>2. Len(wire) \in Nat /\ DOMAIN wire = 1..Len(wire)
    BY WireShape
<1>3. order \in Seq(Messages) /\ Len(order) = 2
    BY <1>1
<1>4. /\ wire' \in Seq(Messages) /\ Len(wire') = Len(wire) + 2
      /\ \A i \in 1..Len(wire) : wire'[i] = wire[i]
      /\ wire'[Len(wire) + 1] = order[1] /\ wire'[Len(wire) + 2] = order[2]
  <2>1. wire \in Seq(Messages)
      BY DEF WireTypes
  <2> HIDE DEF a
  <2> QED
      BY <1>3, <2>1, TwoMore
<1>5. DOMAIN wire' = 1..(Len(wire) + 2)
    BY <1>2, <1>4, LenProperties
<1>6. PICK j \in {Len(wire) + 1, Len(wire) + 2} :
         /\ wire'[j] = a
         /\ \A i \in {Len(wire) + 1, Len(wire) + 2} \ {j} : wire'[i] = m
    BY <1>2, <1>4
<1>7. j \in DOMAIN wire'
    BY <1>2, <1>5
<1>8. ASSUME NEW i \in DOMAIN wire' \ {j}, wire'[i].kind = "reply"
      PROVE  i \in DOMAIN wire /\ wire'[i] = wire[i]
    BY <1>2, <1>4, <1>5, <1>6, <1>8
<1> QED
    BY <1>4, <1>6, <1>7, <1>8 DEF WireTypes, NewReply

-----------------------------------------------------------------------------
(* Lemmas about requests and their answers.                                *)

SameCall(k) ==
    /\ call'[k].pc = call[k].pc /\ call'[k].op = call[k].op /\ call'[k].turn = call[k].turn
    /\ call'[k].val = call[k].val /\ call'[k].prompt = call[k].prompt
    /\ call'[k].epoch = call[k].epoch
EpochsGrow == \A k \in Calls : call'[k].epoch \in Nat /\ call'[k].epoch >= call[k].epoch

\* The fields of a coroutine.
LEMMA CallFields ==
    ASSUME CallTypes, NEW k \in Calls
    PROVE  /\ call[k].pc \in {"none", "wait", "ready"} /\ call[k].op \in Ops \cup {"none"}
           /\ call[k].turn \in Turns \cup {NoTurn} /\ call[k].val \in Values
           /\ call[k].prompt \in 0..MaxSubmits /\ call[k].epoch \in Nat /\ call[k].ahead \in Nat
BY DEF CallTypes, CallRecords

\* A reply that is awaited after a step was awaited before it.
LEMMA RepliesBack ==
    ASSUME WireTypes, WireTypes', CallTypes, EpochsGrow, ReplyInv, NEW d \in {0, 1}, Shifted(d)
    PROVE  /\ \A i \in ReplyAt' : i + d \in ReplyAt /\ wire'[i] = wire[i + d]
           /\ \A i \in LiveReplies' : i + d \in LiveReplies /\ wire'[i] = wire[i + d]
                                      /\ i \in Nat /\ wire'[i].what.call \in Calls
<1>1. \A i \in ReplyAt' : i \in Nat /\ i + d \in ReplyAt /\ wire'[i] = wire[i + d]
  <2>1. DOMAIN wire' = 1..Len(wire)' /\ Len(wire)' \in Nat
      BY WireTypes', LenProperties DEF WireTypes
  <2> QED
      BY <2>1 DEF Shifted, ReplyAt
<1>2. ASSUME NEW i \in LiveReplies'
      PROVE  /\ i + d \in LiveReplies /\ wire'[i] = wire[i + d] /\ i \in Nat
             /\ wire'[i].what.call \in Calls
  <2> DEFINE k == wire'[i].what.call
             e == wire'[i].what.epoch
  <2>1. i \in ReplyAt' /\ e = call'[k].epoch
      BY DEF LiveReplies
  <2>2. i + d \in ReplyAt /\ wire'[i] = wire[i + d] /\ i \in Nat
      BY <1>1, <2>1
  <2>3. k \in Calls /\ e \in Nat
      BY <2>2, WireShape
  <2>4. e <= call[k].epoch
      BY <2>2 DEF ReplyInv
  <2>5. call[k].epoch \in Nat /\ call'[k].epoch \in Nat /\ call'[k].epoch >= call[k].epoch
      BY <2>3, CallFields DEF EpochsGrow
  <2>6. e = call[k].epoch
      BY <2>1, <2>3, <2>4, <2>5
  <2> QED
      BY <2>2, <2>3, <2>6 DEF LiveReplies
<1> QED
    BY <1>1, <1>2

\* What is awaited stays as it was.
LEMMA RepliesKept ==
    ASSUME WireTypes, WireTypes', CallTypes, EpochsGrow, ReplyInv, NoNewReply,
           \A i \in LiveReplies' : SameCall(wire'[i].what.call),
           \A r \in LiveRequests' :
              r \in LiveRequests \/ \A i \in LiveReplies' : wire'[i].what.call # r.call
    PROVE  ReplyInv' /\ (Refused' => Refused)
<1>1. PICK d \in {0, 1} : Shifted(d)
    BY DEF NoNewReply
<1>2. /\ \A i \in ReplyAt' : i + d \in ReplyAt /\ wire'[i] = wire[i + d]
      /\ \A i \in LiveReplies' : i + d \in LiveReplies /\ wire'[i] = wire[i + d]
                                 /\ i \in Nat /\ wire'[i].what.call \in Calls
    BY <1>1, RepliesBack
<1>3. ASSUME NEW i \in ReplyAt' PROVE wire'[i].what.epoch <= call'[wire'[i].what.call].epoch
  <2>1. i + d \in ReplyAt /\ wire'[i] = wire[i + d]
      BY <1>2
  <2> DEFINE k == wire[i + d].what.call
             e == wire[i + d].what.epoch
  <2>2. k \in Calls /\ e \in Nat
      BY <2>1, WireShape
  <2>3. e <= call[k].epoch
      BY <2>1 DEF ReplyInv
  <2>4. call[k].epoch \in Nat /\ call'[k].epoch \in Nat /\ call'[k].epoch >= call[k].epoch
      BY <2>2, CallFields DEF EpochsGrow
  <2>5. e <= call'[k].epoch
      BY <2>2, <2>3, <2>4
  <2> QED
      BY <2>1, <2>5
<1>4. ASSUME NEW i \in LiveReplies'
      PROVE  LET c == call'[wire'[i].what.call] IN
             /\ c.pc = "wait" /\ wire'[i].what.val \in Answers[c.op]
             /\ c.op = "interrupt" \/ wire'[i].what.call = "progress" => wire'[i].what.turn # NoTurn
             /\ \A r \in LiveRequests' : r.call # wire'[i].what.call
  <2>1. i + d \in LiveReplies /\ wire'[i] = wire[i + d] /\ SameCall(wire'[i].what.call)
      BY <1>2
  <2> DEFINE k == wire'[i].what.call
  <2>2. /\ call[k].pc = "wait" /\ wire'[i].what.val \in Answers[call[k].op]
        /\ call[k].op = "interrupt" \/ k = "progress" => wire'[i].what.turn # NoTurn
        /\ \A r \in LiveRequests : r.call # k
      BY <2>1 DEF ReplyInv
  <2>3. call'[k].pc = call[k].pc /\ call'[k].op = call[k].op
      BY <2>1 DEF SameCall
  <2>4. \A r \in LiveRequests' : r.call # k
      BY <2>2
  <2> QED
      BY <2>2, <2>3, <2>4
<1>5. ASSUME NEW i \in LiveReplies', NEW j \in LiveReplies', wire'[i].what.call = wire'[j].what.call
      PROVE  i = j
  <2>1. /\ i + d \in LiveReplies /\ wire'[i] = wire[i + d] /\ i \in Nat
        /\ j + d \in LiveReplies /\ wire'[j] = wire[j + d] /\ j \in Nat
      BY <1>2
  <2>2. i + d = j + d
      BY <1>5, <2>1 DEF ReplyInv
  <2> QED
      BY <2>1, <2>2
<1>6. ReplyInv'
    BY <1>3, <1>4, <1>5 DEF ReplyInv
<1>7. Refused' => Refused
    BY <1>2 DEF Refused
<1> QED
    BY <1>6, <1>7

\* The fields of a request.
LEMMA RequestFields ==
    ASSUME RequestTypes, NEW r \in requests
    PROVE  /\ r = [call |-> r.call, epoch |-> r.epoch, op |-> r.op, turn |-> r.turn, prompt |-> r.prompt]
           /\ r.call \in Calls /\ r.epoch \in Nat /\ r.op \in Ops /\ r.turn \in Turns \cup {NoTurn}
           /\ r.prompt \in 0..MaxSubmits
BY DEF RequestTypes, RequestRecords

CallParts == RequestTypes /\ CallTypes /\ WireTypes /\ RequestInv /\ CallInv /\ ReplyInv

\* Steps that no coroutine takes and that answer no request.
LEMMA CallsRest ==
    ASSUME CallParts, WireTypes', NoNewReply, UNCHANGED requests, CallTypes',
           \A k \in Calls : SameCall(k)
    PROVE  CallParts' /\ (Holds' => Holds)
<1>1. EpochsGrow
  <2>1. ASSUME NEW k \in Calls PROVE call'[k].epoch \in Nat /\ call'[k].epoch >= call[k].epoch
      BY CallFields DEF SameCall, CallParts
  <2> QED
      BY <2>1 DEF EpochsGrow
<1>2. LiveRequests' = LiveRequests
    BY RequestFields DEF LiveRequests, SameCall, CallParts
<1>3. \A i \in LiveReplies' : SameCall(wire'[i].what.call)
    BY <1>1, RepliesBack DEF CallParts, NoNewReply
<1>4. ReplyInv' /\ (Refused' => Refused)
    BY <1>1, <1>2, <1>3, RepliesKept DEF CallParts
<1>5. RequestInv'
  <2>1. ASSUME NEW r \in requests'
        PROVE  /\ r.epoch <= call'[r.call].epoch
               /\ r.op \in OpsOf[r.call] /\ (r.op \in {"steer", "interrupt"} => r.turn # NoTurn)
      BY RequestFields DEF RequestInv, CallParts, SameCall
  <2>2. ASSUME NEW r \in LiveRequests'
        PROVE  /\ call'[r.call].pc = "wait" /\ call'[r.call].op = r.op /\ call'[r.call].turn = r.turn
               /\ call'[r.call].prompt = r.prompt
    <3>1. r \in LiveRequests /\ r \in requests /\ r.call \in Calls
        BY <1>2, RequestFields DEF LiveRequests, CallParts
    <3>2. SameCall(r.call)
        BY <3>1
    <3> QED
        BY <3>1, <3>2 DEF RequestInv, CallParts, SameCall
  <2> QED
      BY <2>1, <2>2 DEF RequestInv
<1>6. CallInv'
    BY DEF CallInv, CallParts, SameCall
<1>7. RequestTypes'
    BY DEF CallParts, RequestTypes
<1>8. Holds' => Holds
    BY <1>4 DEF Holds, SameCall, Calls
<1> QED
    BY <1>4, <1>5, <1>6, <1>7, <1>8 DEF CallParts

\* A coroutine that waits for nothing sends a request.
LEMMA RequestSent ==
    ASSUME CallParts, NEW k \in Calls, NEW op \in OpsOf[k], NEW t \in Turns \cup {NoTurn},
           NEW n \in 0..MaxSubmits, call[k].pc # "wait", Request(k, op, t, n), wire' = wire,
           op \in {"steer", "interrupt"} \/ k = "progress" => t # NoTurn
    PROVE  /\ CallParts' /\ (Refused' => Refused) /\ (k = "submit" => ~ Refused')
           /\ \A j \in Calls \ {k} : call'[j] = call[j]
           /\ call'[k].pc = "wait" /\ call'[k].op = op /\ call'[k].prompt = n
           /\ \E x \in requests' : x.op = op /\ x.prompt = n /\ requests' = requests \cup {x}
<1> DEFINE x == [call |-> k, epoch |-> call[k].epoch, op |-> op, turn |-> t, prompt |-> n]
<1>1. /\ call[k] \in CallRecords
      /\ call' = [call EXCEPT ![k] = [call[k] EXCEPT !.pc = "wait", !.op = op, !.turn = t, !.prompt = n]]
      /\ requests' = requests \cup {x}
    BY DEF Request, CallParts, CallTypes
<1>2. op \in Ops
    BY DEF Ops, OpsOf, Calls
<1>3. /\ call'[k] \in CallRecords
      /\ call'[k].pc = "wait" /\ call'[k].op = op /\ call'[k].turn = t /\ call'[k].prompt = n
      /\ call'[k].epoch = call[k].epoch
    BY <1>1, <1>2 DEF CallRecords, CallParts, CallTypes
<1>4. \A j \in Calls \ {k} : call'[j] = call[j]
    BY <1>1 DEF CallParts, CallTypes
<1>5. CallTypes'
    BY <1>1, <1>3 DEF CallParts, CallTypes
<1>6. x \in RequestRecords /\ RequestTypes'
    BY <1>1, <1>2, CallFields DEF RequestRecords, RequestTypes, CallParts
<1>7. \A j \in Calls : call'[j].epoch = call[j].epoch /\ call[j].epoch \in Nat
    BY <1>3, <1>4, CallFields DEF CallParts
<1>8. EpochsGrow
    BY <1>7 DEF EpochsGrow
<1>9. LiveRequests' = LiveRequests \cup {x}
  <2>1. \A r \in requests' : r.call \in Calls
      BY <1>1, RequestFields DEF CallParts
  <2> QED
      BY <1>1, <1>7, <2>1 DEF LiveRequests
<1>10. WireTypes' /\ Shifted(0)
  <2>1. \A i \in DOMAIN wire : i + 0 = i
      BY WireShape DEF CallParts
  <2> QED
      BY <2>1 DEF WireTypes, CallParts, Shifted
<1>11. \A i \in LiveReplies' : i \in LiveReplies /\ wire'[i] = wire[i] /\ wire[i].what.call \in Calls
                               /\ wire[i].what.call # k
  <2>1. \A i \in LiveReplies' : i + 0 \in LiveReplies /\ wire'[i] = wire[i + 0]
                                /\ i \in Nat /\ wire'[i].what.call \in Calls
      BY <1>8, <1>10, RepliesBack DEF CallParts
  <2> QED
      BY <2>1 DEF ReplyInv, CallParts
<1>12. \A i \in LiveReplies' : SameCall(wire'[i].what.call)
    BY <1>4, <1>11 DEF SameCall
<1>13. \A r \in LiveRequests' :
          r \in LiveRequests \/ \A i \in LiveReplies' : wire'[i].what.call # r.call
    BY <1>9, <1>11
<1>14. ReplyInv' /\ (Refused' => Refused)
    BY <1>8, <1>10, <1>12, <1>13, RepliesKept DEF CallParts, NoNewReply
<1>15. k = "submit" => ~ Refused'
    BY <1>11 DEF Refused
<1>16. RequestInv'
  <2>1. ASSUME NEW r \in requests'
        PROVE  /\ r.epoch <= call'[r.call].epoch
               /\ r.op \in OpsOf[r.call] /\ (r.op \in {"steer", "interrupt"} => r.turn # NoTurn)
    <3>1. CASE r = x
        BY <1>7, <3>1
    <3>2. CASE r \in requests
        BY <1>7, <3>2, RequestFields DEF RequestInv, CallParts
    <3> QED
        BY <1>1, <3>1, <3>2
  <2>2. ASSUME NEW r \in LiveRequests'
        PROVE  /\ call'[r.call].pc = "wait" /\ call'[r.call].op = r.op /\ call'[r.call].turn = r.turn
               /\ call'[r.call].prompt = r.prompt
    <3>1. CASE r = x
        BY <1>3, <3>1
    <3>2. CASE r \in LiveRequests
      <4>1. call[r.call].pc = "wait" /\ r.call \in Calls
          BY <3>2, RequestFields DEF RequestInv, CallParts, LiveRequests
      <4> QED
          BY <1>4, <3>2, <4>1 DEF RequestInv, CallParts
    <3> QED
        BY <1>9, <3>1, <3>2
  <2> QED
      BY <2>1, <2>2 DEF RequestInv
<1>17. CallInv'
    BY <1>3, <1>4 DEF CallInv, CallParts
<1> QED
    BY <1>1, <1>3, <1>4, <1>5, <1>6, <1>10, <1>14, <1>15, <1>16, <1>17 DEF CallParts

\* A coroutine that ends, or that gives up waiting.
LEMMA CallEnds ==
    ASSUME CallParts, NEW k \in Calls, UNCHANGED <<requests, wire>>,
           \/ call[k].pc # "wait" /\ call' = Return(k)
           \/ call' = [call EXCEPT ![k] = [NoCall EXCEPT !.epoch = call[k].epoch + 1]]
    PROVE  CallParts' /\ (Holds' => Holds) /\ UNCHANGED Carriers
           /\ \A j \in Calls : call'[j].pc # "none" => call'[j] = call[j]
<1>1. PICK e \in Nat : /\ (e = call[k].epoch /\ call[k].pc # "wait") \/ e = call[k].epoch + 1
                       /\ call' = [call EXCEPT ![k] = [NoCall EXCEPT !.epoch = e]]
  <2>1. call[k].epoch \in Nat /\ call[k].epoch + 1 \in Nat
      BY CallFields DEF CallParts
  <2>2. CASE call[k].pc # "wait" /\ call' = Return(k)
      BY <2>1, <2>2 DEF Return
  <2>3. CASE call' = [call EXCEPT ![k] = [NoCall EXCEPT !.epoch = call[k].epoch + 1]]
      BY <2>1, <2>3
  <2> QED
      BY <2>2, <2>3
<1>2. /\ call'[k] \in CallRecords /\ call'[k].pc = "none" /\ call'[k].epoch = e
      /\ \A j \in Calls \ {k} : call'[j] = call[j]
  <2>1. call'[k] = [NoCall EXCEPT !.epoch = e] /\ \A j \in Calls \ {k} : call'[j] = call[j]
      BY <1>1 DEF CallParts, CallTypes
  <2>2. call'[k] = [pc |-> "none", op |-> "none", turn |-> NoTurn, val |-> "none", prompt |-> 0,
                    epoch |-> e, ahead |-> 0]
      BY <2>1 DEF NoCall
  <2>3. 0 \in 0..MaxSubmits
      BY TurnsAssumption
  <2>4. [pc |-> "none", op |-> "none", turn |-> NoTurn, val |-> "none", prompt |-> 0,
         epoch |-> e, ahead |-> 0] \in CallRecords
      BY <2>3 DEF CallRecords, Values
  <2>5. call'[k].pc = "none" /\ call'[k].epoch = e
      BY <2>2
  <2> QED
      BY <2>1, <2>2, <2>4, <2>5
<1>3. CallTypes'
    BY <1>1, <1>2 DEF CallParts, CallTypes
<1>4. EpochsGrow
    BY <1>1, <1>2, CallFields DEF EpochsGrow, CallParts
<1>5. \A r \in LiveRequests' : r \in LiveRequests /\ r.call # k /\ r.call \in Calls
  <2> TAKE r \in LiveRequests'
  <2>1. r \in requests /\ r.call \in Calls /\ r.epoch = call'[r.call].epoch
      BY RequestFields DEF LiveRequests, CallParts
  <2>2. CASE r.call # k
      BY <1>2, <2>1, <2>2 DEF LiveRequests
  <2>3. CASE r.call = k
    <3>1. r.epoch = e /\ r.epoch <= call[k].epoch /\ call[k].epoch \in Nat
        BY <1>2, <2>1, <2>3, CallFields DEF RequestInv, CallParts
    <3>2. e = call[k].epoch /\ call[k].pc # "wait"
        BY <1>1, <3>1
    <3>3. r \in LiveRequests
        BY <2>1, <2>3, <3>1, <3>2 DEF LiveRequests
    <3> QED
        BY <2>3, <3>2, <3>3 DEF RequestInv, CallParts
  <2> QED
      BY <2>2, <2>3
<1>6. WireTypes' /\ Shifted(0)
  <2>1. \A i \in DOMAIN wire : i + 0 = i
      BY WireShape DEF CallParts
  <2> QED
      BY <2>1 DEF WireTypes, CallParts, Shifted
<1>7. \A i \in LiveReplies' : i \in LiveReplies /\ wire'[i] = wire[i] /\ wire[i].what.call \in Calls
                              /\ wire[i].what.call # k
  <2> TAKE i \in LiveReplies'
  <2>1. i \in LiveReplies /\ wire'[i] = wire[i] /\ wire[i].what.call \in Calls
    <3>1. i + 0 \in LiveReplies /\ wire'[i] = wire[i + 0] /\ i \in Nat /\ wire'[i].what.call \in Calls
        BY <1>4, <1>6, RepliesBack DEF CallParts
    <3> QED
        BY <3>1
  <2>2. SUFFICES ASSUME wire[i].what.call = k PROVE FALSE
      BY <2>1
  <2>3. wire[i].what.epoch = call[k].epoch /\ wire[i].what.epoch = e /\ call[k].pc = "wait"
      BY <1>2, <2>1, <2>2 DEF LiveReplies, ReplyInv, CallParts
  <2> QED
      BY <1>1, <2>3, CallFields DEF CallParts
<1>8. ReplyInv' /\ (Refused' => Refused)
  <2>1. \A i \in LiveReplies' : SameCall(wire'[i].what.call)
      BY <1>2, <1>7 DEF SameCall
  <2>2. \A r \in LiveRequests' : r \in LiveRequests
      BY <1>5
  <2> QED
      BY <1>4, <1>6, <2>1, <2>2, RepliesKept DEF CallParts, NoNewReply
<1>9. RequestInv'
  <2>1. ASSUME NEW r \in requests'
        PROVE  /\ r.epoch <= call'[r.call].epoch
               /\ r.op \in OpsOf[r.call] /\ (r.op \in {"steer", "interrupt"} => r.turn # NoTurn)
    <3>1. r \in requests /\ r.call \in Calls /\ r.epoch \in Nat /\ r.epoch <= call[r.call].epoch
        BY RequestFields DEF RequestInv, CallParts
    <3>2. call[r.call].epoch \in Nat /\ call'[r.call].epoch \in Nat
          /\ call'[r.call].epoch >= call[r.call].epoch
        BY <1>4, <3>1, CallFields DEF EpochsGrow, CallParts
    <3>3. r.epoch <= call'[r.call].epoch
        BY <3>1, <3>2
    <3> QED
        BY <3>1, <3>3 DEF RequestInv, CallParts
  <2> QED
      BY <1>2, <1>5, <2>1 DEF RequestInv, CallParts
<1>10. CallInv'
    BY <1>2 DEF CallInv, CallParts
<1>11. RequestTypes' /\ UNCHANGED Carriers
    BY DEF RequestTypes, CallParts, Carriers
<1>12. \A j \in Calls : call'[j].pc # "none" => call'[j] = call[j]
    BY <1>2
<1>13. Holds' => Holds
  <2>1. Holds' => call'["submit"].pc # "none" /\ call'["submit"] = call["submit"]
      BY <1>12 DEF Holds, Calls
  <2> QED
      BY <1>8, <2>1 DEF Holds
<1> QED
    BY <1>3, <1>6, <1>8, <1>9, <1>10, <1>11, <1>12, <1>13 DEF CallParts

\* The server answers a request.
LEMMA RequestAnswered ==
    ASSUME CallParts, NEW r \in requests, NEW x \in Replies, NewReply(x), WireTypes',
           requests' = requests \ {r}, UNCHANGED call,
           x.call = r.call, x.epoch = r.epoch, x.val \in Answers[r.op],
           (r.op = "interrupt" \/ r.call = "progress") /\ r.turn # NoTurn => x.turn # NoTurn
    PROVE  /\ CallParts'
           /\ Refused' => Refused \/ (r \in LiveRequests /\ r.call = "submit" /\ x.val = "no turn")
<1>1. PICK j \in DOMAIN wire' :
         /\ wire'[j] = Message("reply", x)
         /\ \A i \in DOMAIN wire' \ {j} :
               wire'[i].kind = "reply" => i \in DOMAIN wire /\ wire'[i] = wire[i]
    BY DEF NewReply
<1>2. wire'[j].kind = "reply" /\ wire'[j].what = x
    BY <1>1 DEF Message
<1>3. LiveRequests' = LiveRequests \ {r}
    BY DEF LiveRequests
<1>4. \A i \in ReplyAt' \ {j} : i \in ReplyAt /\ wire'[i] = wire[i]
    BY <1>1 DEF ReplyAt
<1>5. \A i \in LiveReplies' \ {j} : i \in LiveReplies /\ wire'[i] = wire[i]
    BY <1>4 DEF LiveReplies
<1>6. r.call \in Calls /\ r.epoch \in Nat /\ r.epoch <= call[r.call].epoch
    BY RequestFields DEF CallParts, RequestInv
<1>7. j \in LiveReplies' =>
          /\ r \in LiveRequests
          /\ call[r.call].pc = "wait" /\ call[r.call].op = r.op /\ call[r.call].turn = r.turn
    BY <1>2 DEF LiveReplies, LiveRequests, CallParts, RequestInv
<1>8. ASSUME NEW i \in LiveReplies'
      PROVE  LET c == call[wire'[i].what.call] IN
             /\ c.pc = "wait" /\ wire'[i].what.val \in Answers[c.op]
             /\ c.op = "interrupt" \/ wire'[i].what.call = "progress" => wire'[i].what.turn # NoTurn
             /\ \A q \in LiveRequests' : q.call # wire'[i].what.call
  <2>1. CASE i = j
    <3>1. r \in LiveRequests /\ call[r.call].pc = "wait" /\ call[r.call].op = r.op
          /\ call[r.call].turn = r.turn
        BY <1>7, <2>1
    <3>2. r.op = "interrupt" \/ r.call = "progress" => r.turn # NoTurn
        BY <1>6, <3>1 DEF CallInv, CallParts
    <3>3. \A q \in LiveRequests : q.call = r.call => q = r
      <4> TAKE q \in LiveRequests
      <4> HAVE q.call = r.call
      <4>1. q \in requests /\ q.epoch = r.epoch
          BY <3>1 DEF LiveRequests
      <4>2. q.op = r.op /\ q.turn = r.turn /\ q.prompt = r.prompt
          BY <3>1 DEF RequestInv, CallParts
      <4>3. /\ q = [call |-> q.call, epoch |-> q.epoch, op |-> q.op, turn |-> q.turn, prompt |-> q.prompt]
            /\ r = [call |-> r.call, epoch |-> r.epoch, op |-> r.op, turn |-> r.turn, prompt |-> r.prompt]
          BY <4>1, RequestFields DEF CallParts
      <4> QED
          BY <4>1, <4>2, <4>3
    <3> QED
        BY <1>2, <1>3, <2>1, <3>1, <3>2, <3>3
  <2>2. CASE i # j
    <3>1. i \in LiveReplies /\ wire'[i] = wire[i]
        BY <1>5, <2>2
    <3> DEFINE c == call[wire[i].what.call]
    <3>2. /\ c.pc = "wait" /\ wire[i].what.val \in Answers[c.op]
          /\ c.op = "interrupt" \/ wire[i].what.call = "progress" => wire[i].what.turn # NoTurn
          /\ \A q \in LiveRequests : q.call # wire[i].what.call
        BY <3>1 DEF ReplyInv, CallParts
    <3> QED
        BY <1>3, <3>1, <3>2
  <2> QED
      BY <2>1, <2>2
<1>9. ASSUME NEW i \in LiveReplies', NEW l \in LiveReplies', wire'[i].what.call = wire'[l].what.call
      PROVE  i = l
  <2>1. CASE i # j /\ l # j
      BY <1>5, <1>9, <2>1 DEF ReplyInv, CallParts
  <2>2. ASSUME NEW m \in LiveReplies' \ {j}, wire'[m].what.call = r.call, j \in LiveReplies'
        PROVE  FALSE
    <3>1. m \in LiveReplies /\ wire'[m] = wire[m]
        BY <1>5
    <3>2. r \in LiveRequests
        BY <1>7, <2>2
    <3> QED
        BY <2>2, <3>1, <3>2 DEF ReplyInv, CallParts
  <2> QED
      BY <1>2, <1>9, <2>1, <2>2
<1>10. ASSUME NEW i \in ReplyAt' PROVE wire'[i].what.epoch <= call[wire'[i].what.call].epoch
  <2>1. CASE i = j
      BY <1>2, <1>6, <2>1
  <2>2. CASE i # j
      BY <1>4, <2>2 DEF ReplyInv, CallParts
  <2> QED
      BY <2>1, <2>2
<1>11. ReplyInv'
    BY <1>8, <1>9, <1>10 DEF ReplyInv
<1>12. RequestInv' /\ CallInv' /\ RequestTypes' /\ CallTypes'
    BY <1>3 DEF RequestInv, CallInv, RequestTypes, CallTypes, CallParts
<1>13. Refused' => Refused \/ (r \in LiveRequests /\ r.call = "submit" /\ x.val = "no turn")
  <2> SUFFICES ASSUME NEW i \in LiveReplies', wire'[i].what.call = "submit",
                      wire'[i].what.val = "no turn"
               PROVE  Refused \/ (r \in LiveRequests /\ r.call = "submit" /\ x.val = "no turn")
      BY DEF Refused
  <2>1. CASE i = j
      BY <1>2, <1>7, <2>1
  <2>2. CASE i # j
    <3>1. i \in LiveReplies /\ wire'[i] = wire[i]
        BY <1>5, <2>2
    <3>2. wire[i].what.call = "submit" /\ wire[i].what.val = "no turn"
        BY <3>1
    <3>3. Refused
        BY <3>1, <3>2 DEF Refused
    <3> QED
        BY <3>3
  <2> QED
      BY <2>1, <2>2
<1> QED
    BY <1>11, <1>12, <1>13 DEF CallParts

\* An answer arrives: the coroutine that waits for it can go on.
LEMMA ReplyReceived ==
    ASSUME CallParts, SessionTypes, ReceiveReply
    PROVE  CallParts' /\ (Holds' => Holds)
<1> DEFINE x == Head(wire).what
           k == x.call
           waits == call[k].pc = "wait" /\ call[k].epoch = x.epoch
<1>1. /\ wire # <<>> /\ Head(wire).kind = "reply" /\ wire' = Tail(wire) /\ requests' = requests
      /\ call' = IF waits THEN [call EXCEPT ![k] = [call[k] EXCEPT !.pc = "ready", !.turn = x.turn,
                                                                   !.val = x.val, !.ahead = Len(merges)]]
                 ELSE call
  <2>1. What = Head(wire).what /\ requests' = requests
      BY DEF ReceiveReply, What, serverVars
  <2> QED
      BY <2>1 DEF ReceiveReply, Got
<1>2. /\ WireTypes' /\ 1 \in ReplyAt /\ wire[1].what = x
      /\ \A i \in DOMAIN wire' : i \in Nat /\ i >= 1 /\ i + 1 \in DOMAIN wire /\ wire'[i] = wire[i + 1]
  <2>1. DOMAIN wire' = 1..Len(wire') /\ Len(wire') \in Nat
      BY <1>1, WireReceived, LenProperties DEF CallParts, WireTypes
  <2> QED
      BY <1>1, <2>1, WireReceived DEF CallParts, ReplyAt
<1>3. Shifted(1)
    BY <1>2 DEF Shifted
<1>4. x \in Replies /\ k \in Calls /\ x.turn \in Turns \cup {NoTurn} /\ x.val \in Values
    BY <1>2, WireShape DEF CallParts, Replies
<1>5. CASE ~ waits
  <2>1. call' = call
      BY <1>1, <1>5
  <2> QED
      BY <1>1, <1>2, <1>3, <2>1, CallsRest DEF NoNewReply, SameCall, CallParts, CallTypes
<1>6. CASE waits
  <2>1. 1 \in LiveReplies
      BY <1>2, <1>6 DEF LiveReplies
  <2>2. /\ x.val \in Answers[call[k].op] /\ (call[k].op = "interrupt" \/ k = "progress" => x.turn # NoTurn)
        /\ \A r \in LiveRequests : r.call # k
      BY <1>2, <2>1 DEF ReplyInv, CallParts
  <2>3. Len(merges) \in Nat
      BY LenProperties DEF SessionTypes
  <2>4. /\ call'[k] = [call[k] EXCEPT !.pc = "ready", !.turn = x.turn, !.val = x.val, !.ahead = Len(merges)]
        /\ \A j \in Calls \ {k} : call'[j] = call[j]
      BY <1>1, <1>4, <1>6 DEF CallParts, CallTypes
  <2>5. call[k] \in CallRecords
      BY <1>4 DEF CallParts, CallTypes
  <2>6. /\ call'[k] \in CallRecords /\ call'[k].pc = "ready" /\ call'[k].op = call[k].op
        /\ call'[k].turn = x.turn /\ call'[k].val = x.val /\ call'[k].prompt = call[k].prompt
        /\ call'[k].epoch = call[k].epoch
      BY <1>4, <2>3, <2>4, <2>5 DEF CallRecords
  <2>7. CallTypes'
      BY <1>1, <1>4, <1>6, <2>4, <2>6 DEF CallParts, CallTypes
  <2>8. EpochsGrow /\ LiveRequests' = LiveRequests
    <3>1. \A j \in Calls : call'[j].epoch = call[j].epoch /\ call[j].epoch \in Nat
        BY <2>4, <2>6, CallFields DEF CallParts
    <3>2. EpochsGrow
        BY <3>1 DEF EpochsGrow
    <3>3. \A r \in requests : call'[r.call].epoch = call[r.call].epoch
        BY <3>1, RequestFields DEF CallParts
    <3>4. requests' = requests
        BY <1>1
    <3>5. LiveRequests' = LiveRequests
        BY <3>3, <3>4 DEF LiveRequests
    <3> QED
        BY <3>2, <3>5
  <2>9. \A i \in LiveReplies' : i + 1 \in LiveReplies /\ wire'[i] = wire[i + 1]
                                /\ wire'[i].what.call \in Calls /\ wire'[i].what.call # k
    <3> TAKE i \in LiveReplies'
    <3>1. i + 1 \in LiveReplies /\ wire'[i] = wire[i + 1] /\ i \in Nat /\ wire'[i].what.call \in Calls
        BY <1>2, <1>3, <2>8, RepliesBack DEF CallParts
    <3>2. i >= 1 /\ i + 1 # 1
        BY <1>2 DEF LiveReplies, ReplyAt
    <3> QED
        BY <1>2, <2>1, <3>1, <3>2 DEF ReplyInv, CallParts
  <2>10. \A i \in LiveReplies' : SameCall(wire'[i].what.call)
      BY <2>4, <2>9 DEF SameCall
  <2>11. ReplyInv' /\ (Refused' => Refused)
      BY <1>2, <1>3, <2>8, <2>10, RepliesKept DEF CallParts, NoNewReply
  <2>12. RequestInv'
    <3>1. ASSUME NEW r \in requests'
          PROVE  /\ r.epoch <= call'[r.call].epoch
                 /\ r.op \in OpsOf[r.call] /\ (r.op \in {"steer", "interrupt"} => r.turn # NoTurn)
      <4>1. r \in requests
          BY <1>1
      <4>2. /\ r.call \in Calls /\ r.epoch <= call[r.call].epoch
            /\ r.op \in OpsOf[r.call] /\ (r.op \in {"steer", "interrupt"} => r.turn # NoTurn)
          BY <4>1, RequestFields DEF RequestInv, CallParts
      <4>3. call'[r.call].epoch = call[r.call].epoch
          BY <2>4, <2>6, <4>2
      <4> QED
          BY <4>2, <4>3
    <3>2. \A r \in LiveRequests' : call'[r.call] = call[r.call]
        BY <2>2, <2>4, <2>8, RequestFields DEF LiveRequests, CallParts
    <3> QED
        BY <2>8, <3>1, <3>2 DEF RequestInv, CallParts
  <2>13. CallInv'
    <3>1. call[k].op \in OpsOf[k]
        BY <1>4, <1>6 DEF CallInv, CallParts
    <3>2. /\ call'[k].pc # "none" => call'[k].op \in OpsOf[k]
          /\ call'[k].val \in Answers[call'[k].op] \cup {"error"}
          /\ call'[k].op = "interrupt" \/ k = "progress" => call'[k].turn # NoTurn
        BY <2>2, <2>6, <3>1
    <3> QED
        BY <2>4, <3>2 DEF CallInv, CallParts
  <2>14. Holds' => Holds
    <3>1. CASE k # "submit"
        BY <2>4, <2>11, <3>1 DEF Holds, Calls
    <3>2. CASE k = "submit"
      <4>1. x.val = "no turn" => Refused
          BY <1>2, <2>1, <3>2 DEF Refused
      <4> QED
          BY <1>6, <2>6, <2>11, <3>2, <4>1 DEF Holds
    <3> QED
        BY <3>1, <3>2
  <2>15. RequestTypes'
      BY <1>1 DEF RequestTypes, CallParts
  <2> QED
      BY <1>2, <2>7, <2>11, <2>12, <2>13, <2>14, <2>15 DEF CallParts
<1> QED
    BY <1>5, <1>6

\* The connection is lost: waiting coroutines are told.
LEMMA CallsRejected ==
    ASSUME CallParts, SessionTypes, ConnectionLost
    PROVE  CallParts' /\ (Holds' => Holds)
<1>1. /\ wire' = <<>> /\ requests' = {}
      /\ \A j \in Calls : call'[j] = IF call[j].pc = "wait"
             THEN [call[j] EXCEPT !.pc = "ready", !.turn = IF call[j].op = "start" THEN NoTurn ELSE @,
                                  !.val = "error", !.ahead = Len(merges)]
             ELSE call[j]
      /\ call' = [j \in Calls |-> call'[j]]
    BY DEF ConnectionLost
<1>2. WireTypes' /\ ReplyAt' = {} /\ LiveReplies' = {} /\ ~ Refused'
  <2>1. \A i \in DOMAIN wire' : FALSE
      BY <1>1, WireEmptied
  <2>2. ReplyAt' = {}
      BY <2>1 DEF ReplyAt
  <2>3. LiveReplies' = {}
      BY <2>2 DEF LiveReplies
  <2> QED
      BY <1>1, <2>2, <2>3, WireEmptied DEF Refused
<1>3. Len(merges) \in Nat
    BY LenProperties DEF SessionTypes
<1>4. ASSUME NEW j \in Calls
      PROVE  /\ call'[j] \in CallRecords
             /\ call'[j].pc # "wait" /\ call'[j].op = call[j].op
             /\ call[j].pc # "wait" => call'[j] = call[j]
             /\ call[j].pc = "wait" => /\ call'[j].pc = "ready" /\ call'[j].val = "error"
                                       /\ call[j].op # "start" => call'[j].turn = call[j].turn
  <2>1. call[j] \in CallRecords
      BY DEF CallParts, CallTypes
  <2>2. CASE call[j].pc # "wait"
      BY <1>1, <2>1, <2>2
  <2>3. CASE call[j].pc = "wait"
    <3>1. PICK t \in Turns \cup {NoTurn} :
             /\ call'[j] = [call[j] EXCEPT !.pc = "ready", !.turn = t, !.val = "error", !.ahead = Len(merges)]
             /\ call[j].op # "start" => t = call[j].turn
      <4>1. call[j].turn \in Turns \cup {NoTurn}
          BY CallFields DEF CallParts
      <4>2. CASE call[j].op = "start"
          BY <1>1, <2>3, <4>2
      <4>3. CASE call[j].op # "start"
          BY <1>1, <2>3, <4>1, <4>3
      <4> QED
          BY <4>2, <4>3
    <3>2. /\ call'[j].pc = "ready" /\ call'[j].val = "error" /\ call'[j].turn = t
          /\ call'[j].op = call[j].op
        BY <2>1, <3>1 DEF CallRecords
    <3>3. call'[j] \in CallRecords
        BY <1>3, <2>1, <3>1 DEF CallRecords, Values
    <3> QED
        BY <2>3, <3>1, <3>2, <3>3
  <2> QED
      BY <2>2, <2>3
<1>5. CallTypes'
    BY <1>1, <1>4 DEF CallTypes
<1>6. RequestTypes' /\ RequestInv' /\ ReplyInv'
    BY <1>1, <1>2 DEF RequestTypes, RequestInv, ReplyInv, LiveRequests
<1>7. CallInv'
  <2> SUFFICES ASSUME NEW j \in Calls
               PROVE  /\ call'[j].pc # "none" => call'[j].op \in OpsOf[j]
                      /\ call'[j].pc = "ready" => call'[j].val \in Answers[call'[j].op] \cup {"error"}
                      /\ call'[j].pc # "none" /\ call'[j].op = "interrupt" => call'[j].turn # NoTurn
                      /\ call'[j].pc # "none" /\ j = "progress" => call'[j].turn # NoTurn
      BY DEF CallInv
  <2>1. CASE call[j].pc # "wait"
      BY <1>4, <2>1 DEF CallInv, CallParts
  <2>2. CASE call[j].pc = "wait"
    <3>1. call[j].op \in OpsOf[j] /\ (call[j].op = "interrupt" \/ j = "progress" => call[j].turn # NoTurn)
        BY <2>2 DEF CallInv, CallParts
    <3>2. j = "progress" => call[j].op # "start"
        BY <3>1 DEF OpsOf
    <3> QED
        BY <1>4, <2>2, <3>1, <3>2
  <2> QED
      BY <2>1, <2>2
<1>8. Holds' => Holds
    BY <1>2, <1>4 DEF Holds, Calls
<1> QED
    BY <1>2, <1>5, <1>6, <1>7, <1>8 DEF CallParts

-----------------------------------------------------------------------------
(* Lemmas about turns and prompts.                                         *)

\* The fields of what the client knows of a turn.
LEMMA EntryFields ==
    ASSUME MemoryTypes, NEW t \in Turns
    PROVE  /\ tracked[t] \in Entries /\ tracked[t].status \in EntryStatuses
           /\ tracked[t].finished \in BOOLEAN /\ tracked[t].asks \subseteq Asks
BY DEF MemoryTypes, Entries

LEMMA EnsuredEntry ==
    ASSUME MemoryTypes, NEW t \in Turns
    PROVE  /\ Ensured(t) \in Entries /\ Ensured(t).asks = tracked[t].asks
           /\ Ensured(t).status \in Terminal \cup ActiveStatus
           /\ Ensured(t).status = "waiting" => tracked[t].status = "waiting"
<1>1. /\ tracked[t] \in Entries /\ tracked[t].status \in EntryStatuses
    BY EntryFields
<1>2. CASE tracked[t].status = "none"
  <2>1. Ensured(t) = [tracked[t] EXCEPT !.status = "running"]
      BY <1>2 DEF Ensured
  <2> QED
      BY <1>1, <2>1 DEF Entries, EntryStatuses, ActiveStatus
<1>3. CASE tracked[t].status # "none"
    BY <1>1, <1>3 DEF Ensured, EntryStatuses
<1> QED
    BY <1>2, <1>3

\* What the client knows of one turn changes.
LEMMA EntrySet ==
    ASSUME MemoryTypes, AskInv, NEW t \in Turns, NEW e \in Entries,
           tracked' = [tracked EXCEPT ![t] = e], pendingAsks \subseteq pendingAsks',
           e.asks \subseteq pendingAsks', e.status = "waiting" => e.asks # {}
    PROVE  tracked' \in [Turns -> Entries] /\ AskInv'
<1>1. tracked' \in [Turns -> Entries]
    BY DEF MemoryTypes
<1>2. tracked'[t] = e /\ \A u \in Turns \ {t} : tracked'[u] = tracked[u]
    BY DEF MemoryTypes
<1>3. AskInv'
    BY <1>2 DEF AskInv
<1> QED
    BY <1>1, <1>3

\* handle_notification.
LEMMA NotifiedTurn ==
    ASSUME MemoryTypes, SessionTypes, AskInv, NEW t \in Turns, NEW e \in Entries,
           NEW now \in Turns \cup {NoTurn}, Notified(t, e, now), UNCHANGED <<pendingAsks, session>>,
           e.asks = tracked[t].asks, e.status \in Terminal \cup ActiveStatus,
           e.status = "waiting" => tracked[t].status = "waiting"
    PROVE  MemoryTypes' /\ SessionTypes' /\ AskInv'
<1>1. tracked' \in [Turns -> Entries] /\ AskInv'
  <2>1. e.asks \subseteq pendingAsks' /\ (e.status = "waiting" => e.asks # {})
      BY DEF AskInv
  <2> QED
      BY <2>1, EntrySet DEF Notified
<1>2. MemoryTypes'
    BY <1>1 DEF MemoryTypes, Notified
<1>3. PICK patch \in Patches : merges' = Append(merges, patch)
  <2>1. Patch(t, e.status) \in Patches /\ OwnSummary \in Patches
      BY PatchTypes, OwnSummaryType DEF RecordStatuses
  <2> QED
      BY <2>1 DEF Notified, ScheduleMerge
<1>4. SessionTypes'
    BY <1>3, AppendProperties DEF SessionTypes
<1> QED
    BY <1>1, <1>2, <1>4

\* Steps that send no prompt on its way.
LEMMA PromptsRest ==
    ASSUME PromptInv, UNCHANGED <<delivered, submits, Carriers>>, Holds' => Holds,
           call'["submit"].pc # "none" =>
              call["submit"].pc # "none" /\ call'["submit"].prompt = call["submit"].prompt
    PROVE  PromptInv'
BY DEF PromptInv

\* Steps of the client or the server that no coroutine takes and that answer no request.
LEMMA RestStep ==
    ASSUME CallParts, PromptInv, WireTypes', NoNewReply,
           UNCHANGED <<requests, call, delivered, submits>>
    PROVE  CallParts' /\ PromptInv'
<1>1. CallTypes' /\ \A k \in Calls : SameCall(k)
    BY DEF CallParts, CallTypes, SameCall
<1>2. CallParts' /\ (Holds' => Holds)
    BY <1>1, CallsRest
<1>3. UNCHANGED Carriers
    BY DEF Carriers
<1> QED
    BY <1>2, <1>3, PromptsRest

LEMMA Parts ==
    IInv => /\ CallParts /\ PromptInv /\ AskInv
            /\ ServerTypes /\ CallTypes /\ RequestTypes /\ WireTypes
            /\ MemoryTypes /\ AskTypes /\ SessionTypes /\ HistoryTypes
BY DEF IInv, Types, CallParts

-----------------------------------------------------------------------------
(* One lemma per action: what the reader and the server do.                *)

LEMMA MergeSessionStep ==
    ASSUME IInv, MergeSession PROVE IInv'
<1>1. \A k \in Calls : call'[k] = [call[k] EXCEPT !.ahead = IF @ > 0 THEN @ - 1 ELSE 0]
    BY DEF MergeSession
<1>2. ASSUME NEW k \in Calls PROVE call'[k] \in CallRecords /\ SameCall(k)
  <2>1. call[k] \in CallRecords /\ call[k].ahead \in Nat
      BY CallFields DEF IInv, Types, CallTypes
  <2>2. PICK n \in Nat : call'[k] = [call[k] EXCEPT !.ahead = n]
    <3>1. CASE call[k].ahead > 0
      <4>1. call[k].ahead - 1 \in Nat /\ call'[k] = [call[k] EXCEPT !.ahead = call[k].ahead - 1]
          BY <1>1, <2>1, <3>1
      <4> QED
          BY <4>1
    <3>2. CASE ~ (call[k].ahead > 0)
        BY <1>1, <3>2
    <3> QED
        BY <3>1, <3>2
  <2> QED
      BY <2>1, <2>2 DEF CallRecords, SameCall
<1>3. CallTypes'
  <2>1. call' = [k \in Calls |-> call'[k]]
      BY DEF MergeSession
  <2> QED
      BY <1>2, <2>1 DEF CallTypes
<1>4. WireTypes' /\ NoNewReply
    BY WireUnchanged, Parts DEF MergeSession
<1>5. CallParts' /\ (Holds' => Holds)
    BY <1>2, <1>3, <1>4, CallsRest, Parts DEF MergeSession, serverVars
<1>6. PromptInv'
  <2>1. UNCHANGED <<delivered, submits, Carriers>>
      BY DEF MergeSession, serverVars, historyVars, boundVars, Carriers
  <2>2. SameCall("submit")
      BY <1>2 DEF Calls
  <2> QED
      BY <1>5, <2>1, <2>2, PromptsRest, Parts DEF SameCall
<1>7. SessionTypes'
    BY MergeTypes, Parts DEF MergeSession, SessionTypes
<1>8. AskInv' /\ MemoryTypes' /\ AskTypes' /\ ServerTypes' /\ HistoryTypes'
    BY Parts DEF MergeSession, serverVars, memoryVars, askVars, boundVars, historyVars,
       AskInv, MemoryTypes, AskTypes, ServerTypes, HistoryTypes
<1> QED
    BY <1>5, <1>6, <1>7, <1>8 DEF IInv, Types, CallParts

\* What a notification changes beside the turn it is about.
LEMMA ReceivedStep ==
    ASSUME IInv, NEW kind \in {"started", "item", "ended", "ask"}, Got(kind),
           UNCHANGED <<serverVars, connected, call, answering, session, boundVars, historyVars>>
    PROVE  /\ CallParts' /\ PromptInv' /\ ServerTypes' /\ HistoryTypes'
           /\ Head(wire) \in Messages /\ Head(wire).kind = kind
<1>1. WireTypes' /\ NoNewReply /\ Head(wire) \in Messages
    BY WireReceived, Parts DEF Got
<1>2. CallParts' /\ PromptInv'
    BY <1>1, RestStep, Parts DEF serverVars, historyVars, boundVars
<1>3. ServerTypes' /\ HistoryTypes'
    BY Parts DEF serverVars, boundVars, historyVars, ServerTypes, HistoryTypes
<1> QED
    BY <1>1, <1>2, <1>3 DEF Got

LEMMA ReceiveStartedStep ==
    ASSUME IInv, ReceiveStarted PROVE IInv'
<1>1. /\ CallParts' /\ PromptInv' /\ ServerTypes' /\ HistoryTypes'
      /\ Head(wire) \in Messages /\ Head(wire).kind = "started"
  <2>1. Got("started")
        /\ UNCHANGED <<serverVars, connected, call, answering, session, boundVars, historyVars>>
      BY DEF ReceiveStarted, askVars
  <2> QED
      BY <2>1, ReceivedStep
<1>2. What \in Turns
    BY <1>1 DEF What, Messages
<1>3. /\ Ensured(What) \in Entries /\ Ensured(What).asks = tracked[What].asks
      /\ Ensured(What).status \in Terminal \cup ActiveStatus
      /\ Ensured(What).status = "waiting" => tracked[What].status = "waiting"
    BY <1>2, EnsuredEntry, Parts
<1>4. PICK now \in Turns \cup {NoTurn} : Notified(What, Ensured(What), now)
  <2>1. current \in Turns \cup {NoTurn}
      BY Parts DEF MemoryTypes
  <2> QED
      BY <1>2, <2>1 DEF ReceiveStarted
<1>5. UNCHANGED <<pendingAsks, answering, session>>
    BY DEF ReceiveStarted, askVars
<1>6. MemoryTypes' /\ SessionTypes' /\ AskInv'
    BY <1>2, <1>3, <1>4, <1>5, NotifiedTurn, Parts
<1>7. AskTypes'
    BY <1>5, Parts DEF AskTypes
<1> QED
    BY <1>1, <1>6, <1>7 DEF IInv, Types, CallParts

LEMMA ReceiveItemStep ==
    ASSUME IInv, ReceiveItem PROVE IInv'
<1>1. /\ CallParts' /\ PromptInv' /\ ServerTypes' /\ HistoryTypes'
      /\ Head(wire) \in Messages /\ Head(wire).kind = "item"
  <2>1. Got("item")
        /\ UNCHANGED <<serverVars, connected, call, answering, session, boundVars, historyVars>>
      BY DEF ReceiveItem, askVars
  <2> QED
      BY <2>1, ReceivedStep
<1>2. What \in Turns
    BY <1>1 DEF What, Messages
<1>3. /\ Ensured(What) \in Entries /\ Ensured(What).asks = tracked[What].asks
      /\ Ensured(What).status \in Terminal \cup ActiveStatus
      /\ Ensured(What).status = "waiting" => tracked[What].status = "waiting"
    BY <1>2, EnsuredEntry, Parts
<1>4. current \in Turns \cup {NoTurn} /\ Notified(What, Ensured(What), current)
    BY Parts DEF MemoryTypes, ReceiveItem
<1>5. UNCHANGED <<pendingAsks, answering, session>>
    BY DEF ReceiveItem, askVars
<1>6. MemoryTypes' /\ SessionTypes' /\ AskInv'
    BY <1>2, <1>3, <1>4, <1>5, NotifiedTurn, Parts
<1>7. AskTypes'
    BY <1>5, Parts DEF AskTypes
<1> QED
    BY <1>1, <1>6, <1>7 DEF IInv, Types, CallParts

LEMMA ReceiveEndedStep ==
    ASSUME IInv, ReceiveEnded PROVE IInv'
<1>1. /\ CallParts' /\ PromptInv' /\ ServerTypes' /\ HistoryTypes'
      /\ Head(wire) \in Messages /\ Head(wire).kind = "ended"
  <2>1. Got("ended")
        /\ UNCHANGED <<serverVars, connected, call, answering, session, boundVars, historyVars>>
      BY DEF ReceiveEnded, askVars
  <2> QED
      BY <2>1, ReceivedStep
<1>2. What.turn \in Turns
    BY <1>1 DEF What, Messages
<1> DEFINE t == What.turn
<1>3. Ensured(t) \in Entries /\ Ensured(t).asks = tracked[t].asks
    BY <1>2, EnsuredEntry, Parts
<1>4. PICK status \in Terminal : Notified(t, [Ensured(t) EXCEPT !.status = status, !.finished = TRUE], current)
    BY DEF ReceiveEnded, Terminal
<1> DEFINE e == [Ensured(t) EXCEPT !.status = status, !.finished = TRUE]
<1>5. e \in Entries /\ e.asks = tracked[t].asks /\ e.status = status
    BY <1>3 DEF Entries, EntryStatuses
<1>6. e.status \in Terminal \cup ActiveStatus /\ e.status # "waiting"
    BY <1>5 DEF Terminal
<1>7. UNCHANGED <<pendingAsks, answering, session>> /\ current \in Turns \cup {NoTurn}
    BY Parts DEF ReceiveEnded, askVars, MemoryTypes
<1>8. MemoryTypes' /\ SessionTypes' /\ AskInv'
  <2> HIDE DEF e
  <2>1. Notified(t, e, current)
      BY <1>4 DEF e
  <2> QED
      BY <1>2, <1>5, <1>6, <1>7, <2>1, NotifiedTurn, Parts
<1>9. AskTypes'
    BY <1>7, Parts DEF AskTypes
<1> QED
    BY <1>1, <1>8, <1>9 DEF IInv, Types, CallParts

LEMMA ReceiveAskStep ==
    ASSUME IInv, ReceiveAsk PROVE IInv'
<1>1. /\ CallParts' /\ PromptInv' /\ ServerTypes' /\ HistoryTypes'
      /\ Head(wire) \in Messages /\ Head(wire).kind = "ask"
  <2>1. Got("ask")
        /\ UNCHANGED <<serverVars, connected, call, answering, session, boundVars, historyVars>>
      BY DEF ReceiveAsk
  <2> QED
      BY <2>1, ReceivedStep
<1>2. What.turn \in Turns /\ What.ask \in Asks
    BY <1>1 DEF What, Messages
<1> DEFINE t == What.turn
           e == [Ensured(t) EXCEPT !.status = "waiting", !.asks = Ensured(t).asks \cup {What.ask}]
<1>3. Ensured(t) \in Entries /\ Ensured(t).asks = tracked[t].asks /\ tracked[t].asks \subseteq Asks
    BY <1>2, EnsuredEntry, EntryFields, Parts
<1>4. e \in Entries /\ e.asks = tracked[t].asks \cup {What.ask} /\ e.status = "waiting"
    BY <1>2, <1>3 DEF Entries, EntryStatuses, ActiveStatus
<1>5. /\ tracked' = [tracked EXCEPT ![t] = e] /\ pendingAsks' = pendingAsks \cup {What.ask}
      /\ current' = current /\ session' = session /\ answering' = answering
      /\ merges' = Append(merges, Patch(t, "waiting"))
    BY DEF ReceiveAsk, ScheduleMerge
<1>6. tracked' \in [Turns -> Entries] /\ AskInv'
  <2>1. tracked[t].asks \subseteq pendingAsks
      BY <1>2, Parts DEF AskInv
  <2>2. e.asks \subseteq pendingAsks' /\ e.asks # {} /\ pendingAsks \subseteq pendingAsks'
      BY <1>4, <1>5, <2>1
  <2> HIDE DEF e
  <2> QED
      BY <1>2, <1>4, <1>5, <2>2, EntrySet, Parts
<1>7. MemoryTypes' /\ AskTypes'
    BY <1>2, <1>5, <1>6, Parts DEF MemoryTypes, AskTypes
<1>8. SessionTypes'
  <2>1. Patch(t, "waiting") \in Patches
      BY <1>2, PatchTypes DEF RecordStatuses, ActiveStatus
  <2> QED
      BY <1>5, <2>1, AppendProperties, Parts DEF SessionTypes
<1> QED
    BY <1>1, <1>6, <1>7, <1>8 DEF IInv, Types, CallParts

LEMMA ReceiveReplyStep ==
    ASSUME IInv, ReceiveReply PROVE IInv'
<1>1. CallParts' /\ (Holds' => Holds)
    BY ReplyReceived, Parts
<1>2. /\ UNCHANGED <<delivered, submits, Carriers>>
      /\ ServerTypes' /\ MemoryTypes' /\ AskTypes' /\ SessionTypes' /\ HistoryTypes' /\ AskInv'
    BY Parts DEF ReceiveReply, serverVars, memoryVars, askVars, boundVars, historyVars, Carriers,
       ServerTypes, MemoryTypes, AskTypes, SessionTypes, HistoryTypes, AskInv
<1>3. call'["submit"].pc # "none" =>
          call["submit"].pc # "none" /\ call'["submit"].prompt = call["submit"].prompt
  <2>1. CASE call' = call
      BY <2>1
  <2>2. CASE /\ call[What.call].pc = "wait"
             /\ call' = [call EXCEPT ![What.call] =
                            [@ EXCEPT !.pc = "ready", !.turn = What.turn, !.val = What.val,
                                      !.ahead = Len(merges)]]
    <3>1. "submit" \in Calls /\ call["submit"] \in CallRecords
        BY Parts DEF CallTypes, Calls
    <3>2. CASE What.call = "submit"
        BY <2>2, <3>1, <3>2, Parts DEF CallTypes, CallRecords
    <3>3. CASE What.call # "submit"
        BY <2>2, <3>1, <3>3, Parts DEF CallTypes
    <3> QED
        BY <3>2, <3>3
  <2> QED
      BY <2>1, <2>2 DEF ReceiveReply
<1>4. PromptInv'
    BY <1>1, <1>2, <1>3, PromptsRest, Parts
<1> QED
    BY <1>1, <1>2, <1>4 DEF IInv, Types, CallParts

LEMMA AnswerValues ==
    /\ Answers["start"] = {"ok"} /\ Answers["steer"] = {"ok", "no turn"}
    /\ Answers["read"] = Statuses /\ Answers["interrupt"] = {"ok"}
BY DEF Answers

LEMMA AnswerSendStep ==
    ASSUME IInv, NEW x \in Answerers, NEW a \in Asks, AnswerSend(x, a) PROVE IInv'
<1>1. WireTypes' /\ NoNewReply
    BY WireUnchanged, Parts DEF AnswerSend
<1>2. CallParts' /\ PromptInv'
    BY <1>1, RestStep, Parts DEF AnswerSend, serverVars, boundVars, historyVars
<1>3. AskTypes'
    BY Parts DEF AnswerSend, AskTypes, Asks
<1>4. /\ AskInv' /\ MemoryTypes' /\ ServerTypes' /\ SessionTypes' /\ HistoryTypes'
    BY Parts DEF AnswerSend, serverVars, memoryVars, boundVars, historyVars,
       AskInv, MemoryTypes, ServerTypes, SessionTypes, HistoryTypes
<1> QED
    BY <1>2, <1>3, <1>4 DEF IInv, Types, CallParts

\* The turns wait for what is left to answer.
LEMMA AnswerSentStep ==
    ASSUME IInv, NEW x \in Answerers, AnswerSent(x) PROVE IInv'
<1>1. WireTypes' /\ NoNewReply
    BY WireUnchanged, Parts DEF AnswerSent
<1>2. CallParts' /\ PromptInv'
    BY <1>1, RestStep, Parts DEF AnswerSent, serverVars, boundVars, historyVars
<1>3. AskTypes'
  <2>1. 0 \in 0..MaxTwists
      BY TurnsAssumption
  <2> QED
      BY <2>1, Parts DEF AnswerSent, AskTypes
<1>4. MemoryTypes' /\ AskInv'
  <2>1. CASE UNCHANGED <<pendingAsks, tracked>>
      BY <2>1, Parts DEF AnswerSent, MemoryTypes, AskInv
  <2>2. CASE /\ pendingAsks' = pendingAsks \ {answering[x]}
             /\ tracked' = [t \in Turns |-> WithoutAsk(tracked[t], answering[x])]
    <3> DEFINE a == answering[x]
    <3>1. ASSUME NEW t \in Turns
          PROVE  /\ tracked'[t] \in Entries /\ tracked'[t].asks = tracked[t].asks \ {a}
                 /\ tracked'[t].status = "waiting" => tracked[t].status = "waiting" /\ tracked'[t].asks # {}
      <4> DEFINE e == tracked[t]
                 asks == e.asks \ {a}
                 status == IF asks = {} /\ e.status = "waiting" THEN "running" ELSE e.status
      <4>1. tracked'[t] = [e EXCEPT !.asks = asks, !.status = status]
          BY <2>2 DEF WithoutAsk
      <4>2. e \in Entries /\ asks \subseteq Asks /\ status \in EntryStatuses
          BY EntryFields, Parts DEF EntryStatuses, ActiveStatus
      <4>3. status = "waiting" => e.status = "waiting" /\ asks # {}
          BY <4>2, Parts DEF AskInv
      <4> HIDE DEF e, asks, status
      <4>4. tracked'[t] \in Entries /\ tracked'[t].asks = asks /\ tracked'[t].status = status
          BY <4>1, <4>2 DEF Entries
      <4> QED
          BY <4>3, <4>4 DEF asks, e
    <3>2. MemoryTypes'
      <4>1. tracked' = [t \in Turns |-> tracked'[t]]
          BY <2>2
      <4> QED
          BY <3>1, <4>1, Parts DEF MemoryTypes, AnswerSent
    <3>3. AskInv'
        BY <2>2, <3>1, Parts DEF AskInv
    <3> QED
        BY <3>2, <3>3
  <2> QED
      BY <2>1, <2>2 DEF AnswerSent
<1>5. ServerTypes' /\ SessionTypes' /\ HistoryTypes'
    BY Parts DEF AnswerSent, serverVars, boundVars, historyVars, ServerTypes, SessionTypes,
       HistoryTypes
<1> QED
    BY <1>2, <1>3, <1>4, <1>5 DEF IInv, Types, CallParts

\* A message of the server that answers nothing.
LEMMA ServerTells ==
    ASSUME IInv, NEW m \in Messages, m.kind # "reply", Tell(<<m>>), ServerTypes', HistoryTypes',
           UNCHANGED <<requests, call, memoryVars, askVars, merges, session, delivered, submits>>
    PROVE  IInv'
<1>1. WireTypes' /\ NoNewReply
    BY WireTold, Parts
<1>2. CallParts' /\ PromptInv'
    BY <1>1, RestStep, Parts
<1>3. AskInv' /\ MemoryTypes' /\ AskTypes' /\ SessionTypes'
    BY Parts DEF memoryVars, askVars, AskInv, MemoryTypes, AskTypes, SessionTypes
<1> QED
    BY <1>2, <1>3 DEF IInv, Types, CallParts

LEMMA ServerWorksStep ==
    ASSUME IInv, NEW t \in Turns, ServerWorks(t) PROVE IInv'
<1>1. Message("item", t) \in Messages /\ Message("item", t).kind # "reply"
    BY DEF Message, Messages
<1>2. ServerTypes'
    BY Parts DEF ServerWorks, serverVars, ServerTypes
<1>3. twists' \in 0..MaxTwists
    BY TurnsAssumption, Parts DEF ServerWorks, HistoryTypes
<1>4. HistoryTypes'
    BY <1>3, Parts DEF ServerWorks, historyVars, HistoryTypes
<1> QED
    BY <1>1, <1>2, <1>4, ServerTells DEF ServerWorks, serverVars, historyVars

LEMMA ServerAsksStep ==
    ASSUME IInv, NEW t \in Turns, ServerAsks(t) PROVE IInv'
<1> DEFINE m == Message("ask", [turn |-> t, ask |-> twists + 1])
<1>1. twists' = twists + 1 /\ twists' \in 0..MaxTwists /\ twists + 1 \in Asks
    BY TurnsAssumption, Parts DEF ServerAsks, HistoryTypes, Asks
<1>2. m \in Messages /\ m.kind # "reply"
    BY <1>1 DEF Message, Messages
<1>3. ServerTypes'
    BY Parts DEF ServerAsks, serverVars, ServerTypes
<1>4. HistoryTypes'
    BY <1>1, Parts DEF ServerAsks, historyVars, HistoryTypes
<1>5. /\ Tell(<<m>>)
      /\ UNCHANGED <<requests, call, memoryVars, askVars, merges, session, delivered, submits>>
    BY DEF ServerAsks, serverVars, askVars, historyVars
<1> HIDE DEF m
<1> QED
    BY <1>2, <1>3, <1>4, <1>5, ServerTells

LEMMA ServerEndsStep ==
    ASSUME IInv, NEW t \in Turns, ServerEnds(t) PROVE IInv'
<1>1. PICK state \in {"interrupted", "completed", "failed"} :
         /\ srv' = [srv EXCEPT ![t] = state]
         /\ Tell(<<Message("ended", [turn |-> t, failed |-> state = "failed"])>>)
  <2>1. PICK state \in IF srv[t] = "stopping" THEN {"interrupted"} ELSE {"completed", "failed"} :
           /\ srv' = [srv EXCEPT ![t] = state]
           /\ Tell(<<Message("ended", [turn |-> t, failed |-> state = "failed"])>>)
      BY DEF ServerEnds
  <2>2. state \in {"interrupted", "completed", "failed"}
      OBVIOUS
  <2> QED
      BY <2>1, <2>2
<1> DEFINE m == Message("ended", [turn |-> t, failed |-> state = "failed"])
<1>2. m \in Messages /\ m.kind # "reply"
  <2>1. (state = "failed") \in BOOLEAN
      OBVIOUS
  <2>2. [turn |-> t, failed |-> state = "failed"] \in [turn : Turns, failed : BOOLEAN]
      BY <2>1
  <2> QED
      BY <2>2 DEF Message, Messages
<1>3. ServerTypes'
    BY <1>1, Parts DEF ServerEnds, ServerTypes, ServerStates
<1>4. HistoryTypes'
    BY Parts DEF ServerEnds, LoseTrackOf, boundVars, HistoryTypes
<1>5. /\ Tell(<<m>>)
      /\ UNCHANGED <<requests, call, memoryVars, askVars, merges, session, delivered, submits>>
    BY <1>1 DEF ServerEnds, boundVars
<1> HIDE DEF m
<1> QED
    BY <1>2, <1>3, <1>4, <1>5, ServerTells

\* A prompt that reaches a turn leaves its request; one that is refused is with its
\* submission again.
LEMMA PromptMoves ==
    ASSUME IInv, NEW r \in Carriers, requests' = requests \ {r}, UNCHANGED <<call, submits>>,
           \/ delivered' = [delivered EXCEPT ![r.prompt] = delivered[r.prompt] + 1]
              /\ (Refused' => Refused)
           \/ delivered' = delivered
              /\ (Refused' => Refused \/ (r \in LiveRequests /\ r.call = "submit"))
    PROVE  PromptInv' /\ delivered' \in [Prompts -> Nat]
<1>1. /\ r.prompt \in 1..submits /\ delivered[r.prompt] = 0
      /\ \A q \in Carriers : q.prompt = r.prompt => q = r
    BY Parts DEF PromptInv
<1>2. delivered \in [Prompts -> Nat] /\ submits \in 0..MaxSubmits /\ MaxSubmits \in Nat
    BY TurnsAssumption, Parts DEF HistoryTypes
<1>3. r.prompt \in Prompts /\ r.prompt <= submits
    BY <1>1, <1>2 DEF Prompts
<1>4. Carriers' = Carriers \ {r}
    BY DEF Carriers
<1>5. \A n \in Prompts : /\ n # r.prompt => delivered'[n] = delivered[n]
                         /\ delivered'[r.prompt] \in {0, 1}
    BY <1>1, <1>2, <1>3
<1>6. delivered' \in [Prompts -> Nat]
    BY <1>1, <1>2, <1>3
<1>7. \A n \in Prompts : delivered'[n] <= 1 /\ (n > submits' => delivered'[n] = 0)
    BY <1>2, <1>3, <1>5, Parts DEF PromptInv, Prompts
<1>8. \A q \in Carriers' : q.prompt \in 1..submits' /\ delivered'[q.prompt] = 0
  <2> TAKE q \in Carriers'
  <2>1. q \in Carriers /\ q.prompt # r.prompt
      BY <1>1, <1>4
  <2>2. q.prompt \in 1..submits /\ delivered[q.prompt] = 0
      BY <2>1, Parts DEF PromptInv
  <2>3. q.prompt \in Prompts
      BY <1>2, <2>2 DEF Prompts
  <2> QED
      BY <1>5, <2>1, <2>2, <2>3
<1>9. \A q, s \in Carriers' : q.prompt = s.prompt => q = s
    BY <1>4, Parts DEF PromptInv
<1>10. ASSUME Holds' PROVE delivered'[submits'] = 0 /\ \A q \in Carriers' : q.prompt # submits'
  <2>1. call["submit"].pc # "none" /\ submits \in Prompts /\ call["submit"].prompt = submits
      BY <1>10, Parts DEF Holds, PromptInv
  <2>2. CASE Holds
    <3>1. delivered[submits] = 0 /\ \A q \in Carriers : q.prompt # submits
        BY <2>2, Parts DEF PromptInv
    <3> QED
        BY <1>4, <1>5, <2>1, <3>1
  <2>3. CASE ~ Holds
    <3>1. ~ Refused
        BY <2>1, <2>3 DEF Holds
    <3>2. Refused'
        BY <1>10, <2>3 DEF Holds
    <3>3. delivered' = delivered /\ r \in LiveRequests /\ r.call = "submit"
        BY <3>1, <3>2
    <3>4. r.prompt = submits
        BY <2>1, <3>3, Parts DEF CallParts, RequestInv
    <3> QED
        BY <1>1, <1>4, <3>3, <3>4
  <2> QED
      BY <2>2, <2>3
<1>11. PromptInv'
    BY <1>7, <1>8, <1>9, <1>10, Parts DEF PromptInv
<1> QED
    BY <1>6, <1>11

LEMMA ServerStartsStep ==
    ASSUME IInv, NEW r \in requests, ServerStarts(r) PROVE IInv'
<1> DEFINE t == Latest + 1
           x == [call |-> r.call, epoch |-> r.epoch, turn |-> t, val |-> "ok"]
           m == Message("started", t)
<1>1. t \in Turns
    BY NewestTurns, TurnsAssumption DEF ServerStarts, Turns, NoTurn
<1>2. x \in Replies
    BY <1>1, RequestFields, Parts DEF Replies, Values
<1>3. m \in Messages /\ m.kind # "reply"
    BY <1>1 DEF Message, Messages
<1>4. /\ r.op = "start" /\ requests' = requests \ {r} /\ call' = call /\ submits' = submits
      /\ delivered' = [delivered EXCEPT ![r.prompt] = delivered[r.prompt] + 1]
    BY DEF ServerStarts, Answered, boundVars
<1>5. PICK order \in {<<Message("reply", x), m>>, <<m, Message("reply", x)>>} : wire' = wire \o order
    BY DEF ServerStarts, Reply
<1>6. WireTypes' /\ NewReply(x)
  <2> HIDE DEF x, m
  <2> QED
      BY <1>2, <1>3, <1>5, WireStarted, Parts
<1>7. CallParts' /\ (Refused' => Refused)
  <2>1. "ok" \in Answers["start"] /\ r.call # "progress"
      BY <1>4, RequestFields, Parts DEF Answers, RequestInv, CallParts, OpsOf
  <2>2. /\ x.call = r.call /\ x.epoch = r.epoch /\ x.val \in Answers[r.op] /\ x.val # "no turn"
        /\ (r.op = "interrupt" \/ r.call = "progress") /\ r.turn # NoTurn => x.turn # NoTurn
      BY <1>4, <2>1
  <2> HIDE DEF x
  <2> QED
      BY <1>2, <1>4, <1>6, <2>2, RequestAnswered, Parts
<1>8. PromptInv' /\ delivered' \in [Prompts -> Nat]
  <2>1. r \in Carriers
      BY <1>4 DEF Carriers
  <2> QED
      BY <1>4, <1>7, <2>1, PromptMoves
<1>9. ServerTypes'
  <2>1. srv' = [u \in Turns |-> IF u = t THEN "running"
                               ELSE IF srv[u] = "running" THEN "stopping" ELSE srv[u]]
      BY DEF ServerStarts
  <2>2. srv' \in [Turns -> ServerStates]
      BY <2>1, Parts DEF ServerTypes, ServerStates
  <2> QED
      BY <2>2 DEF ServerStarts, ServerTypes
<1>10. HistoryTypes'
  <2>1. overtaken' \in BOOLEAN
      BY DEF ServerStarts
  <2> QED
      BY <1>8, <2>1, Parts DEF ServerStarts, boundVars, HistoryTypes
<1>11. AskInv' /\ MemoryTypes' /\ AskTypes' /\ SessionTypes'
    BY Parts DEF ServerStarts, memoryVars, askVars, AskInv, MemoryTypes, AskTypes, SessionTypes
<1> QED
    BY <1>7, <1>8, <1>9, <1>10, <1>11 DEF IInv, Types, CallParts

LEMMA ServerSteersStep ==
    ASSUME IInv, NEW r \in requests, ServerSteers(r) PROVE IInv'
<1> DEFINE val == IF srv[r.turn] = "running" THEN "ok" ELSE "no turn"
           x == [call |-> r.call, epoch |-> r.epoch, turn |-> r.turn, val |-> val]
<1>1. x \in Replies
    BY RequestFields, Parts DEF Replies, Values
<1>2. /\ r.op = "steer" /\ requests' = requests \ {r} /\ call' = call /\ submits' = submits
      /\ wire' = Append(wire, Message("reply", x))
    BY DEF ServerSteers, Answered, boundVars, Reply
<1>3. WireTypes' /\ NewReply(x)
  <2> HIDE DEF x
  <2> QED
      BY <1>1, <1>2, WireAnswered, Parts
<1>4. CallParts' /\ (Refused' => Refused \/ (r \in LiveRequests /\ r.call = "submit" /\ val = "no turn"))
  <2>1. val \in Answers["steer"] /\ r.call # "progress"
    <3>1. val \in {"ok", "no turn"}
        OBVIOUS
    <3>2. r.op \in OpsOf[r.call]
        BY Parts DEF RequestInv, CallParts
    <3>3. r.call # "progress"
      <4>1. r.op = "steer"
          BY DEF ServerSteers
      <4>2. OpsOf["progress"] = {"read"}
          BY DEF OpsOf
      <4> QED
          BY <3>2, <4>1, <4>2
    <3> QED
        BY <3>1, <3>3, AnswerValues
  <2>2. /\ x.call = r.call /\ x.epoch = r.epoch /\ x.val \in Answers[r.op] /\ x.val = val
        /\ (r.op = "interrupt" \/ r.call = "progress") /\ r.turn # NoTurn => x.turn # NoTurn
      BY <1>2, <2>1
  <2> HIDE DEF x, val
  <2> QED
      BY <1>1, <1>2, <1>3, <2>2, RequestAnswered, Parts
<1>5. PromptInv' /\ delivered' \in [Prompts -> Nat]
  <2>1. r \in Carriers
      BY <1>2 DEF Carriers
  <2>2. CASE srv[r.turn] = "running"
    <3>1. delivered' = [delivered EXCEPT ![r.prompt] = delivered[r.prompt] + 1]
        BY <2>2 DEF ServerSteers
    <3> QED
        BY <1>2, <1>4, <2>1, <2>2, <3>1, PromptMoves
  <2>3. CASE srv[r.turn] # "running"
    <3>1. delivered' = delivered
        BY <2>3 DEF ServerSteers
    <3> QED
        BY <1>2, <1>4, <2>1, <2>3, <3>1, PromptMoves
  <2> QED
      BY <2>2, <2>3
<1>6. HistoryTypes'
    BY <1>5, Parts DEF ServerSteers, boundVars, HistoryTypes
<1>7. AskInv' /\ MemoryTypes' /\ AskTypes' /\ SessionTypes' /\ ServerTypes'
    BY Parts DEF ServerSteers, memoryVars, askVars, AskInv, MemoryTypes, AskTypes, SessionTypes, ServerTypes
<1> QED
    BY <1>4, <1>5, <1>6, <1>7 DEF IInv, Types, CallParts

\* An answer that has nothing to do with prompts.
LEMMA OtherAnswer ==
    ASSUME IInv, NEW r \in requests, NEW t \in Turns \cup {NoTurn}, NEW val \in Answers[r.op],
           r.op \in {"read", "interrupt"}, r.turn # NoTurn => t # NoTurn,
           wire' = Append(wire, Reply(r, t, val)), Answered(r), ServerTypes',
           UNCHANGED <<call, memoryVars, askVars, merges, session, boundVars, historyVars>>
    PROVE  IInv'
<1> DEFINE x == [call |-> r.call, epoch |-> r.epoch, turn |-> t, val |-> val]
<1>1. val \in Values /\ val # "no turn"
  <2>1. CASE r.op = "read"
      BY <2>1, AnswerValues DEF Values, Statuses
  <2>2. CASE r.op = "interrupt"
      BY <2>2, AnswerValues DEF Values
  <2> QED
      BY <2>1, <2>2
<1>2. x \in Replies
    BY <1>1, RequestFields, Parts DEF Replies
<1>3. wire' = Append(wire, Message("reply", x)) /\ requests' = requests \ {r}
    BY DEF Reply, Answered
<1>4. WireTypes' /\ NewReply(x)
  <2> HIDE DEF x
  <2> QED
      BY <1>2, <1>3, WireAnswered, Parts
<1>5. CallParts' /\ (Refused' => Refused)
  <2>1. /\ x.call = r.call /\ x.epoch = r.epoch /\ x.val \in Answers[r.op] /\ x.val # "no turn"
        /\ (r.op = "interrupt" \/ r.call = "progress") /\ r.turn # NoTurn => x.turn # NoTurn
      BY <1>1
  <2> HIDE DEF x
  <2> QED
      BY <1>2, <1>3, <1>4, <2>1, RequestAnswered, Parts
<1>6. PromptInv'
  <2>1. Carriers' = Carriers /\ (Holds' => Holds)
      BY <1>3, <1>5 DEF Carriers, Holds
  <2> QED
      BY <2>1, PromptsRest, Parts DEF boundVars, historyVars
<1>7. AskInv' /\ MemoryTypes' /\ AskTypes' /\ SessionTypes' /\ HistoryTypes'
    BY Parts DEF memoryVars, askVars, boundVars, historyVars, AskInv, MemoryTypes, AskTypes,
       SessionTypes, HistoryTypes
<1> QED
    BY <1>5, <1>6, <1>7 DEF IInv, Types, CallParts

LEMMA ServerReadsStep ==
    ASSUME IInv, NEW r \in requests, ServerReads(r) PROVE IInv'
<1> DEFINE t == IF r.turn # NoTurn THEN r.turn ELSE IF NewestRunning # NoTurn THEN NewestRunning ELSE Latest
           val == IF t = NoTurn THEN "completed" ELSE Normalized(srv[t])
<1>1. t \in Turns \cup {NoTurn}
    BY NewestTurns, RequestFields, Parts
<1>2. val \in Answers["read"]
  <2>1. CASE t = NoTurn
      BY <2>1 DEF Answers, Statuses
  <2>2. CASE t # NoTurn
    <3>1. srv[t] \in ServerStates
        BY <1>1, <2>2, Parts DEF ServerTypes
    <3> HIDE DEF t
    <3> QED
        BY <2>2, <3>1, NormalizedStatus DEF Answers
  <2> QED
      BY <2>1, <2>2
<1>3. r.op = "read" /\ wire' = Append(wire, Reply(r, t, val)) /\ Answered(r)
    BY DEF ServerReads
<1>4. r.turn # NoTurn => t # NoTurn
    OBVIOUS
<1>5. ServerTypes' /\ UNCHANGED <<call, memoryVars, askVars, merges, session, boundVars, historyVars>>
    BY Parts DEF ServerReads, ServerTypes
<1> HIDE DEF t, val
<1> QED
    BY <1>1, <1>2, <1>3, <1>4, <1>5, OtherAnswer

LEMMA ServerInterruptsStep ==
    ASSUME IInv, NEW r \in requests, ServerInterrupts(r) PROVE IInv'
<1>1. r.op = "interrupt" /\ wire' = Append(wire, Reply(r, r.turn, "ok")) /\ Answered(r)
    BY DEF ServerInterrupts
<1>2. r.turn \in Turns \cup {NoTurn} /\ "ok" \in Answers[r.op]
    BY <1>1, RequestFields, Parts DEF Answers
<1>3. ServerTypes'
    BY Parts DEF ServerInterrupts, ServerTypes, ServerStates
<1>4. UNCHANGED <<call, memoryVars, askVars, merges, session, boundVars, historyVars>>
    BY DEF ServerInterrupts
<1> QED
    BY <1>1, <1>2, <1>3, <1>4, OtherAnswer

-----------------------------------------------------------------------------
(* One lemma per action: what the coroutines do.                           *)

\* What the steps of coroutines leave alone.
LEMMA CoroutineRest ==
    ASSUME IInv, UNCHANGED <<srv, wire, connected, askVars, merges, twists, delivered>>,
           submits' \in 0..MaxSubmits, missed' \subseteq Turns, overtaken' \in BOOLEAN
    PROVE  ServerTypes' /\ AskTypes' /\ HistoryTypes' /\ merges' \in Seq(Patches)
BY Parts DEF askVars, ServerTypes, AskTypes, HistoryTypes, SessionTypes

\* A new submission takes the next prompt, which nobody has.
LEMMA FirstRequest ==
    ASSUME IInv, NEW op \in OpsOf["submit"], NEW t \in Turns \cup {NoTurn}, op = "steer" => t # NoTurn,
           call["submit"].pc = "none", submits < MaxSubmits, submits' = submits + 1,
           Request("submit", op, t, submits + 1), UNCHANGED <<wire, delivered>>
    PROVE  CallParts' /\ PromptInv' /\ submits' \in 0..MaxSubmits
<1>1. submits \in Nat /\ MaxSubmits \in Nat /\ submits' \in Prompts /\ submits' \in 0..MaxSubmits
    BY TurnsAssumption, Parts DEF HistoryTypes, Prompts
<1>2. /\ CallParts' /\ ~ Refused'
      /\ call'["submit"].pc = "wait" /\ call'["submit"].op = op /\ call'["submit"].prompt = submits'
      /\ \E x \in requests' : x.op = op /\ x.prompt = submits' /\ requests' = requests \cup {x}
  <2>1. op # "interrupt" /\ "submit" \in Calls
      BY DEF OpsOf, Calls
  <2>2. op \in {"steer", "interrupt"} \/ "submit" = "progress" => t # NoTurn
      BY <2>1
  <2> QED
      BY <1>1, <2>1, <2>2, RequestSent, Parts
<1>3. PICK x \in requests' : x.op = op /\ x.prompt = submits' /\ requests' = requests \cup {x}
    BY <1>2
<1>4. \A r \in Carriers : r.prompt \in 1..submits /\ r.prompt # submits' /\ delivered[r.prompt] = 0
    BY <1>1, Parts DEF PromptInv
<1>5. \A r \in Carriers' : r \in Carriers \/ (r = x /\ op # "read")
    BY <1>3 DEF Carriers
<1>6. \A n \in Prompts : delivered'[n] <= 1 /\ (n > submits' => delivered'[n] = 0)
    BY <1>1, Parts DEF PromptInv, Prompts
<1>7. delivered'[submits'] = 0
    BY <1>1, Parts DEF PromptInv
<1>8. \A r \in Carriers' : r.prompt \in 1..submits' /\ delivered'[r.prompt] = 0
    BY <1>1, <1>3, <1>4, <1>5, <1>7 DEF Prompts
<1>9. \A r, q \in Carriers' : r.prompt = q.prompt => r = q
    BY <1>3, <1>4, <1>5, Parts DEF PromptInv
<1>10. Holds' => \A r \in Carriers' : r.prompt # submits'
    BY <1>2, <1>4, <1>5 DEF Holds
<1>11. PromptInv'
    BY <1>1, <1>2, <1>6, <1>7, <1>8, <1>9, <1>10 DEF PromptInv
<1> QED
    BY <1>1, <1>2, <1>11

\* A submission that has its prompt starts a turn with it.
LEMMA SecondRequest ==
    ASSUME IInv, call["submit"].pc = "ready", Holds, StartTurn(call["submit"].prompt),
           UNCHANGED <<wire, delivered, submits>>
    PROVE  CallParts' /\ PromptInv'
<1>1. call["submit"].prompt = submits /\ submits \in Prompts /\ submits \in 0..MaxSubmits
    BY Parts DEF PromptInv, HistoryTypes
<1>2. /\ CallParts' /\ ~ Refused'
      /\ call'["submit"].pc = "wait" /\ call'["submit"].op = "start" /\ call'["submit"].prompt = submits
      /\ \E x \in requests' : x.op = "start" /\ x.prompt = submits /\ requests' = requests \cup {x}
  <2>1. "start" \in OpsOf["submit"] /\ "submit" \in Calls
      BY DEF OpsOf, Calls
  <2>2. Request("submit", "start", NoTurn, submits)
      BY <1>1 DEF StartTurn
  <2> QED
      BY <1>1, <2>1, <2>2, RequestSent, Parts
<1>3. PICK x \in requests' : x.op = "start" /\ x.prompt = submits /\ requests' = requests \cup {x}
    BY <1>2
<1>4. Carriers' = Carriers \cup {x}
    BY <1>3 DEF Carriers
<1>5. delivered[submits] = 0 /\ \A r \in Carriers : r.prompt # submits
    BY Parts DEF PromptInv
<1>6. ~ Holds'
    BY <1>2 DEF Holds
<1>7. submits \in 1..submits
    BY <1>1 DEF Prompts
<1> QED
    BY <1>1, <1>2, <1>3, <1>4, <1>5, <1>6, <1>7, Parts DEF PromptInv

\* The coroutine of another call sends its request.
LEMMA OtherRequest ==
    ASSUME IInv, NEW k \in {"progress", "cancel"}, NEW op \in OpsOf[k], NEW t \in Turns,
           call[k].pc = "none", Request(k, op, t, 0), UNCHANGED <<wire, delivered, submits>>
    PROVE  CallParts' /\ PromptInv'
<1>1. op \in {"read", "interrupt"} /\ k \in Calls /\ k # "submit" /\ 0 \in 0..MaxSubmits
    BY TurnsAssumption DEF OpsOf, Calls
<1>2. t \in Turns \cup {NoTurn} /\ t # NoTurn
    BY DEF Turns, NoTurn
<1>3. /\ CallParts' /\ (Refused' => Refused)
      /\ \A j \in Calls \ {k} : call'[j] = call[j]
      /\ \E x \in requests' : x.op = op /\ requests' = requests \cup {x}
    BY <1>1, <1>2, RequestSent, Parts
<1>4. call'["submit"] = call["submit"]
    BY <1>1, <1>3 DEF Calls
<1>5. UNCHANGED Carriers
    BY <1>1, <1>3 DEF Carriers
<1>6. Holds' => Holds
    BY <1>3, <1>4 DEF Holds
<1> QED
    BY <1>3, <1>4, <1>5, <1>6, PromptsRest, Parts

\* A coroutine is over.
LEMMA CallOver ==
    ASSUME IInv, NEW k \in Calls, UNCHANGED <<requests, wire, delivered, submits>>,
           \/ call[k].pc # "wait" /\ call' = Return(k)
           \/ call' = [call EXCEPT ![k] = [NoCall EXCEPT !.epoch = call[k].epoch + 1]]
    PROVE  CallParts' /\ PromptInv'
<1>1. /\ CallParts' /\ (Holds' => Holds) /\ UNCHANGED Carriers
      /\ \A j \in Calls : call'[j].pc # "none" => call'[j] = call[j]
    BY CallEnds, Parts
<1>2. call'["submit"].pc # "none" => call'["submit"] = call["submit"]
    BY <1>1 DEF Calls
<1> QED
    BY <1>1, <1>2, PromptsRest, Parts

LEMMA ResolvedTurnIsOne ==
    ASSUME SessionTypes PROVE ResolvedTurn \in Turns \cup {NoTurn}
BY DEF SessionTypes, Sessions, ResolvedTurn

LEMMA SubmitStep ==
    ASSUME IInv, Submit PROVE IInv'
<1>1. /\ call["submit"].pc = "none" /\ submits < MaxSubmits /\ submits' = submits + 1
      /\ UNCHANGED <<wire, delivered>>
    BY DEF Submit, historyVars
<1>2. CallParts' /\ PromptInv' /\ submits' \in 0..MaxSubmits
  <2>1. ResolvedTurn \in Turns \cup {NoTurn} /\ NoTurn \in Turns \cup {NoTurn}
      BY ResolvedTurnIsOne, Parts
  <2>2. {"start", "steer", "read"} = OpsOf["submit"]
      BY DEF OpsOf
  <2>3. CASE ResolvedTurn # NoTurn /\ SteerTurn(submits + 1)
      BY <1>1, <2>1, <2>2, <2>3, FirstRequest DEF SteerTurn
  <2>4. CASE ReadThread("submit", NoTurn, submits + 1)
      BY <1>1, <2>1, <2>2, <2>4, FirstRequest DEF ReadThread
  <2>5. CASE StartTurn(submits + 1)
      BY <1>1, <2>1, <2>2, <2>5, FirstRequest DEF StartTurn
  <2>6. \/ ResolvedTurn # NoTurn /\ SteerTurn(submits + 1)
        \/ ReadThread("submit", NoTurn, submits + 1)
        \/ StartTurn(submits + 1)
      BY DEF Submit
  <2> QED
      BY <2>3, <2>4, <2>5, <2>6
<1>3. ServerTypes' /\ AskTypes' /\ HistoryTypes' /\ merges' \in Seq(Patches)
  <2>1. missed' \subseteq Turns /\ overtaken' \in BOOLEAN
      BY Parts DEF Submit, historyVars, HistoryTypes
  <2>2. UNCHANGED <<srv, wire, connected, askVars, merges, twists, delivered>>
      BY DEF Submit, historyVars
  <2> QED
      BY <1>2, <2>1, <2>2, CoroutineRest
<1>4. AskInv' /\ MemoryTypes' /\ SessionTypes'
    BY <1>3, Parts DEF Submit, memoryVars, askVars, AskInv, MemoryTypes, SessionTypes
<1> QED
    BY <1>2, <1>3, <1>4 DEF IInv, Types, CallParts

LEMMA SteerAnsweredStep ==
    ASSUME IInv, SteerAnswered PROVE IInv'
<1>1. /\ call["submit"].pc = "ready" /\ call["submit"].op = "steer"
      /\ UNCHANGED <<wire, delivered, submits>>
    BY DEF SteerAnswered, Goes, historyVars, boundVars
<1>2. CallParts' /\ PromptInv'
  <2>1. CASE call["submit"].val = "no turn"
    <3>1. Holds
        BY <1>1, <2>1 DEF Holds
    <3>2. StartTurn(call["submit"].prompt)
        BY <2>1 DEF SteerAnswered
    <3> QED
        BY <1>1, <3>1, <3>2, SecondRequest
  <2>2. CASE call["submit"].val # "no turn"
    <3>1. call' = Return("submit") /\ UNCHANGED requests
        BY <2>2 DEF SteerAnswered
    <3> QED
        BY <1>1, <3>1, CallOver DEF Calls
  <2> QED
      BY <2>1, <2>2
<1>3. ServerTypes' /\ AskTypes' /\ HistoryTypes'
    BY Parts DEF SteerAnswered, askVars, boundVars, historyVars, ServerTypes, AskTypes, HistoryTypes
<1>4. AskInv' /\ MemoryTypes' /\ SessionTypes'
    BY Parts DEF SteerAnswered, memoryVars, askVars, AskInv, MemoryTypes, SessionTypes
<1> QED
    BY <1>2, <1>3, <1>4 DEF IInv, Types, CallParts

\* What a read says of a thread can be recorded.
LEMMA ReadAnswer ==
    ASSUME IInv, NEW k \in Calls, Goes(k, "read")
    PROVE  call[k].val \in Statuses \cup {"error"} /\ call[k].turn \in Turns \cup {NoTurn}
BY CallFields, AnswerValues, Parts DEF Goes, CallInv, CallParts

LEMMA RefreshAnsweredStep ==
    ASSUME IInv, RefreshAnswered PROVE IInv'
<1>1. /\ call["submit"].pc = "ready" /\ call["submit"].op = "read"
      /\ UNCHANGED <<wire, delivered, submits>> /\ "submit" \in Calls
    BY DEF RefreshAnswered, Goes, historyVars, boundVars, Calls
<1>2. CallParts' /\ PromptInv'
  <2>1. Holds
      BY <1>1 DEF Holds
  <2>2. CASE StartTurn(call["submit"].prompt)
      BY <1>1, <2>1, <2>2, SecondRequest
  <2>3. CASE call' = Return("submit") /\ UNCHANGED requests
      BY <1>1, <2>3, CallOver
  <2> QED
      BY <2>2, <2>3 DEF RefreshAnswered
<1>3. session' \in Sessions
  <2> DEFINE c == call["submit"]
  <2>1. c.val \in Statuses \cup {"error"} /\ c.turn \in Turns \cup {NoTurn}
      BY <1>1, ReadAnswer DEF RefreshAnswered
  <2>2. session' = Refreshed(c) /\ session \in Sessions
      BY Parts DEF RefreshAnswered, SessionTypes
  <2> HIDE DEF c
  <2>3. CASE Known(c)
    <3>1. c.val \in RecordStatuses
        BY <2>1, <2>3 DEF Known, Statuses, RecordStatuses, Terminal, ActiveStatus
    <3>2. session' = Merged(session, Patch(c.turn, c.val))
        BY <2>2, <2>3 DEF Refreshed
    <3> QED
        BY <2>1, <2>2, <3>1, <3>2, PatchTypes, MergedSession
  <2>4. CASE ~ Known(c)
      BY <2>2, <2>4 DEF Refreshed
  <2> QED
      BY <2>3, <2>4
<1>4. SessionTypes'
    BY <1>3, Parts DEF RefreshAnswered, SessionTypes
<1>5. ServerTypes' /\ AskTypes' /\ HistoryTypes'
    BY Parts DEF RefreshAnswered, askVars, boundVars, historyVars, ServerTypes, AskTypes, HistoryTypes
<1>6. AskInv' /\ MemoryTypes'
    BY Parts DEF RefreshAnswered, memoryVars, askVars, AskInv, MemoryTypes
<1> QED
    BY <1>2, <1>4, <1>5, <1>6 DEF IInv, Types, CallParts

LEMMA PersistTurnStartStep ==
    ASSUME IInv, PersistTurnStart PROVE IInv'
<1>1. /\ call["submit"].pc = "ready" /\ "submit" \in Calls /\ call' = Return("submit")
      /\ UNCHANGED <<requests, wire, delivered, submits>>
    BY DEF PersistTurnStart, Goes, serverVars, historyVars, boundVars, Calls
<1>2. CallParts' /\ PromptInv'
    BY <1>1, CallOver
<1>3. MemoryTypes' /\ AskInv' /\ session' \in Sessions
  <2> DEFINE t == call["submit"].turn
             status == IF tracked[t].status \in Terminal THEN tracked[t].status
                       ELSE IF tracked[t].asks # {} \/ tracked[t].status = "waiting" THEN "waiting"
                       ELSE "running"
             e == [Ensured(t) EXCEPT !.status = status]
  <2>1. t \in Turns \cup {NoTurn}
      BY <1>1, CallFields, Parts
  <2>2. CASE t = NoTurn
    <3>1. UNCHANGED <<tracked, current, session>>
        BY <2>2 DEF PersistTurnStart
    <3> QED
        BY <3>1, Parts DEF MemoryTypes, AskInv, SessionTypes, PersistTurnStart, askVars
  <2>3. CASE t # NoTurn
    <3>1. /\ current' = t /\ tracked' = [tracked EXCEPT ![t] = e]
          /\ session' = Merged(session, Patch(t, status))
        BY <2>3 DEF PersistTurnStart
    <3>2. t \in Turns
        BY <2>1, <2>3
    <3>3. Ensured(t) \in Entries /\ Ensured(t).asks = tracked[t].asks
        BY <3>2, EnsuredEntry, Parts
    <3>4. status \in Terminal \cup {"waiting", "running"}
        OBVIOUS
    <3>5. status = "waiting" => tracked[t].asks # {}
        BY <3>2, Parts DEF AskInv, Terminal
    <3> HIDE DEF status, t
    <3>6. e \in Entries /\ e.asks = tracked[t].asks /\ e.status = status
        BY <3>3, <3>4 DEF Entries, EntryStatuses, Terminal, ActiveStatus
    <3>7. tracked[t].asks \subseteq pendingAsks /\ pendingAsks' = pendingAsks
        BY <3>2, Parts DEF AskInv, PersistTurnStart, askVars
    <3> HIDE DEF e
    <3>8. tracked' \in [Turns -> Entries] /\ AskInv'
        BY <3>1, <3>2, <3>5, <3>6, <3>7, EntrySet, Parts
    <3>9. status \in RecordStatuses
        BY <3>4 DEF RecordStatuses, ActiveStatus
    <3>10. session' \in Sessions
        BY <3>1, <3>2, <3>9, PatchTypes, MergedSession, Parts DEF SessionTypes
    <3> QED
        BY <3>1, <3>2, <3>8, <3>10 DEF MemoryTypes
  <2> QED
      BY <2>2, <2>3
<1>4. ServerTypes' /\ AskTypes' /\ HistoryTypes' /\ SessionTypes'
    BY <1>3, Parts DEF PersistTurnStart, serverVars, askVars, boundVars, historyVars,
       ServerTypes, AskTypes, HistoryTypes, SessionTypes
<1> QED
    BY <1>2, <1>3, <1>4 DEF IInv, Types, CallParts

LEMMA AskProgressStep ==
    ASSUME IInv, AskProgress PROVE IInv'
<1>1. ResolvedTurn \in Turns
    BY ResolvedTurnIsOne, Parts DEF AskProgress
<1>2. CallParts' /\ PromptInv'
  <2>1. "read" \in OpsOf["progress"]
      BY DEF OpsOf
  <2>2. /\ call["progress"].pc = "none" /\ Request("progress", "read", ResolvedTurn, 0)
        /\ UNCHANGED <<wire, delivered, submits>>
      BY DEF AskProgress, ReadThread, boundVars
  <2> QED
      BY <1>1, <2>1, <2>2, OtherRequest
<1>3. ServerTypes' /\ AskTypes' /\ SessionTypes' /\ MemoryTypes' /\ AskInv'
    BY Parts DEF AskProgress, askVars, memoryVars, ServerTypes, AskTypes, SessionTypes, MemoryTypes,
       AskInv
<1>4. HistoryTypes'
  <2>1. overtaken' \in BOOLEAN
      BY DEF AskProgress
  <2> QED
      BY <2>1, Parts DEF AskProgress, boundVars, HistoryTypes
<1> QED
    BY <1>2, <1>3, <1>4 DEF IInv, Types, CallParts

\* A turn that is said to be waiting has a request that can be answered.
LEMMA ProgressAnsweredStep ==
    ASSUME IInv, ProgressAnswered PROVE IInv'
<1>1. /\ call["progress"].pc = "ready" /\ "progress" \in Calls /\ call' = Return("progress")
      /\ UNCHANGED <<requests, wire, delivered, submits>>
    BY DEF ProgressAnswered, Goes, serverVars, boundVars, Calls
<1>2. CallParts' /\ PromptInv'
    BY <1>1, CallOver
<1> DEFINE t == call["progress"].turn
           read == call["progress"].val
           asked == \E a \in pendingAsks : a \in tracked[t].asks
           status == IF asked THEN "waiting"
                     ELSE IF read # "unknown" THEN read
                     ELSE IF tracked[t].status = "none" THEN "unknown" ELSE tracked[t].status
           finished == tracked[t].finished \/ status \in {"completed", "failed"}
           e == [tracked[t] EXCEPT !.status = status, !.finished = finished]
<1>3. t \in Turns /\ read \in Statuses \cup {"error"}
  <2>1. t # NoTurn
      BY <1>1, Parts DEF CallInv, CallParts
  <2> QED
      BY <1>1, <2>1, ReadAnswer DEF ProgressAnswered
<1>4. /\ tracked[t] \in Entries /\ tracked[t].status \in EntryStatuses
      /\ tracked[t].finished \in BOOLEAN /\ tracked[t].asks \subseteq Asks
    BY <1>3, EntryFields, Parts
<1>5. MemoryTypes' /\ AskInv' /\ session' \in Sessions
  <2>1. CASE read = "error"
    <3>1. UNCHANGED <<tracked, session, current, pendingAsks>>
        BY <2>1 DEF ProgressAnswered, askVars
    <3> QED
        BY <3>1, Parts DEF MemoryTypes, AskInv, SessionTypes
  <2>2. CASE read # "error"
    <3>1. /\ tracked' = IF tracked[t].status = "none" \/ status = "unknown" THEN tracked
                        ELSE [tracked EXCEPT ![t] = e]
          /\ session' = Merged(session, Patch(t, status)) /\ current' = current
          /\ pendingAsks' = pendingAsks
        BY <2>2 DEF ProgressAnswered, RecordTurnProgress, askVars
    <3>2. status \in RecordStatuses /\ (status # "unknown" => status \in EntryStatuses)
        BY <1>3, <1>4, <2>2 DEF Statuses, RecordStatuses, EntryStatuses, Terminal, ActiveStatus
    <3>3. status = "waiting" => tracked[t].asks # {}
        BY <1>3, Parts DEF AskInv, Statuses
    <3>4. finished \in BOOLEAN
        BY <1>4
    <3>5. tracked[t].asks \subseteq pendingAsks
        BY <1>3, Parts DEF AskInv
    <3> HIDE DEF status, finished, t
    <3>6. session' \in Sessions
        BY <1>3, <3>1, <3>2, PatchTypes, MergedSession, Parts DEF SessionTypes
    <3>7. tracked' \in [Turns -> Entries] /\ AskInv'
      <4>1. CASE tracked[t].status = "none" \/ status = "unknown"
        <5>1. tracked' = tracked
            BY <3>1, <4>1
        <5> QED
            BY <3>1, <5>1, Parts DEF MemoryTypes, AskInv
      <4>2. CASE ~ (tracked[t].status = "none" \/ status = "unknown")
        <5>1. e \in Entries /\ e.asks = tracked[t].asks /\ e.status = status
            BY <1>4, <3>2, <3>4, <4>2 DEF Entries
        <5>2. tracked' = [tracked EXCEPT ![t] = e]
            BY <3>1, <4>2
        <5> HIDE DEF e
        <5> QED
            BY <1>3, <3>1, <3>3, <3>5, <5>1, <5>2, EntrySet, Parts
      <4> QED
          BY <4>1, <4>2
    <3> QED
        BY <3>1, <3>6, <3>7, Parts DEF MemoryTypes
  <2> QED
      BY <2>1, <2>2
<1>6. ServerTypes' /\ AskTypes' /\ SessionTypes'
    BY <1>5, Parts DEF ProgressAnswered, serverVars, askVars, ServerTypes, AskTypes, SessionTypes
<1>7. HistoryTypes'
  <2>1. missed' \subseteq Turns
    <3>1. missed' = missed \/ missed' = missed \ {t}
        BY DEF ProgressAnswered
    <3> QED
        BY <3>1, Parts DEF HistoryTypes
  <2> QED
      BY <2>1, Parts DEF ProgressAnswered, boundVars, HistoryTypes
<1> QED
    BY <1>2, <1>5, <1>6, <1>7 DEF IInv, Types, CallParts

LEMMA AskCancelStep ==
    ASSUME IInv, AskCancel PROVE IInv'
<1>1. ResolvedTurn \in Turns
    BY ResolvedTurnIsOne, Parts DEF AskCancel
<1>2. CallParts' /\ PromptInv'
  <2>1. "interrupt" \in OpsOf["cancel"]
      BY DEF OpsOf
  <2>2. /\ call["cancel"].pc = "none" /\ Request("cancel", "interrupt", ResolvedTurn, 0)
        /\ UNCHANGED <<wire, delivered, submits>>
      BY DEF AskCancel, boundVars
  <2> QED
      BY <1>1, <2>1, <2>2, OtherRequest
<1>3. ServerTypes' /\ AskTypes' /\ SessionTypes' /\ MemoryTypes' /\ AskInv'
    BY Parts DEF AskCancel, askVars, memoryVars, ServerTypes, AskTypes, SessionTypes, MemoryTypes,
       AskInv
<1>4. HistoryTypes'
  <2>1. overtaken' \in BOOLEAN
      BY DEF AskCancel
  <2> QED
      BY <2>1, Parts DEF AskCancel, boundVars, HistoryTypes
<1> QED
    BY <1>2, <1>3, <1>4 DEF IInv, Types, CallParts

LEMMA CancelAnsweredStep ==
    ASSUME IInv, CancelAnswered PROVE IInv'
<1>1. /\ call["cancel"].pc = "ready" /\ "cancel" \in Calls /\ call' = Return("cancel")
      /\ UNCHANGED <<requests, wire, delivered, submits>>
    BY DEF CancelAnswered, Goes, serverVars, boundVars, Calls
<1>2. CallParts' /\ PromptInv'
    BY <1>1, CallOver
<1> DEFINE t == call["cancel"].turn
           e == [Ensured(t) EXCEPT !.status = "cancelled", !.finished = TRUE]
<1>3. t \in Turns
  <2>1. t # NoTurn
      BY <1>1, Parts DEF CallInv, CallParts, CancelAnswered, Goes
  <2> QED
      BY <1>1, <2>1, CallFields, Parts
<1>4. tracked' \in [Turns -> Entries] /\ AskInv' /\ session' \in Sessions
  <2>1. CASE UNCHANGED <<tracked, session>>
      BY <2>1, Parts DEF MemoryTypes, AskInv, SessionTypes, CancelAnswered, askVars
  <2>2. CASE /\ tracked' = [tracked EXCEPT ![t] = e]
             /\ session' = Merged(session, Patch(t, "cancelled"))
    <3>1. Ensured(t) \in Entries /\ Ensured(t).asks = tracked[t].asks
        BY <1>3, EnsuredEntry, Parts
    <3>2. e \in Entries /\ e.asks = tracked[t].asks /\ e.status = "cancelled"
        BY <3>1 DEF Entries, EntryStatuses, Terminal
    <3>3. e.asks \subseteq pendingAsks' /\ pendingAsks \subseteq pendingAsks'
        BY <1>3, <3>2, Parts DEF AskInv, CancelAnswered, askVars
    <3>4. session' \in Sessions
        BY <1>3, <2>2, PatchTypes, MergedSession, Parts DEF SessionTypes, RecordStatuses, Terminal
    <3> HIDE DEF e, t
    <3>5. tracked' \in [Turns -> Entries] /\ AskInv'
        BY <1>3, <2>2, <3>2, <3>3, EntrySet, Parts
    <3> QED
        BY <3>4, <3>5
  <2> QED
      BY <2>1, <2>2 DEF CancelAnswered
<1>5. MemoryTypes' /\ SessionTypes'
    BY <1>4, Parts DEF CancelAnswered, MemoryTypes, SessionTypes
<1>6. ServerTypes' /\ AskTypes' /\ HistoryTypes'
    BY Parts DEF CancelAnswered, serverVars, askVars, boundVars, ServerTypes, AskTypes, HistoryTypes
<1> QED
    BY <1>2, <1>4, <1>5, <1>6 DEF IInv, Types, CallParts

LEMMA RequestTimesOutStep ==
    ASSUME IInv, NEW k \in Calls, RequestTimesOut(k) PROVE IInv'
<1>1. CallParts' /\ PromptInv'
    BY CallOver DEF RequestTimesOut, serverVars, historyVars
<1>2. HistoryTypes'
  <2>1. twists' \in 0..MaxTwists
      BY TurnsAssumption, Parts DEF RequestTimesOut, HistoryTypes
  <2> QED
      BY <2>1, Parts DEF RequestTimesOut, historyVars, HistoryTypes
<1>3. ServerTypes' /\ AskTypes' /\ SessionTypes' /\ MemoryTypes' /\ AskInv'
    BY Parts DEF RequestTimesOut, serverVars, askVars, memoryVars, ServerTypes, AskTypes,
       SessionTypes, MemoryTypes, AskInv
<1> QED
    BY <1>1, <1>2, <1>3 DEF IInv, Types, CallParts

LEMMA ConnectionLostStep ==
    ASSUME IInv, ConnectionLost PROVE IInv'
<1>1. CallParts' /\ (Holds' => Holds)
    BY CallsRejected, Parts
<1>2. requests' = {} /\ UNCHANGED <<delivered, submits>> /\ Carriers' = {}
    BY DEF ConnectionLost, Carriers
<1>3. call'["submit"].pc # "none" =>
          call["submit"].pc # "none" /\ call'["submit"].prompt = call["submit"].prompt
  <2>1. "submit" \in Calls /\ call["submit"] \in CallRecords
      BY Parts DEF CallTypes, Calls
  <2>2. CASE call["submit"].pc = "wait"
    <3> DEFINE t == IF call["submit"].op = "start" THEN NoTurn ELSE call["submit"].turn
    <3>1. call'["submit"] = [call["submit"] EXCEPT !.pc = "ready", !.turn = t, !.val = "error",
                                                   !.ahead = Len(merges)]
        BY <2>1, <2>2 DEF ConnectionLost
    <3> HIDE DEF t
    <3> QED
        BY <2>1, <2>2, <3>1 DEF CallRecords
  <2>3. CASE call["submit"].pc # "wait"
      BY <2>1, <2>3 DEF ConnectionLost
  <2> QED
      BY <2>2, <2>3
<1>4. PromptInv'
    BY <1>1, <1>2, <1>3, Parts DEF PromptInv
<1>5. HistoryTypes'
  <2>1. twists' \in 0..MaxTwists
    <3>1. twists' = twists + 1 /\ twists < MaxTwists
        BY DEF ConnectionLost
    <3> QED
        BY <3>1, TurnsAssumption, Parts DEF HistoryTypes
  <2>2. missed' \subseteq Turns
      BY Parts DEF ConnectionLost, HistoryTypes
  <2> QED
      BY <2>1, <2>2, Parts DEF ConnectionLost, HistoryTypes
<1>6. ServerTypes' /\ AskTypes' /\ SessionTypes' /\ MemoryTypes' /\ AskInv'
    BY Parts DEF ConnectionLost, askVars, memoryVars, ServerTypes, AskTypes, SessionTypes,
       MemoryTypes, AskInv
<1> QED
    BY <1>1, <1>4, <1>5, <1>6 DEF IInv, Types, CallParts

-----------------------------------------------------------------------------
(* The theorems.                                                           *)

LEMMA Initial == Init => IInv
<1> SUFFICES ASSUME Init PROVE IInv
    OBVIOUS
<1>1. 0 \in 0..MaxSubmits /\ 0 \in 0..MaxTwists
    BY TurnsAssumption
<1>2. ServerTypes /\ RequestTypes /\ WireTypes
    BY DEF Init, ServerTypes, ServerStates, RequestTypes, WireTypes
<1>3. CallTypes
  <2>1. NoCall \in CallRecords
      BY <1>1 DEF NoCall, CallRecords, Values
  <2> QED
      BY <2>1 DEF Init, CallTypes
<1>4. MemoryTypes
  <2>1. Untracked \in Entries
      BY DEF Untracked, Entries, EntryStatuses
  <2> QED
      BY <2>1 DEF Init, MemoryTypes
<1>5. AskTypes /\ SessionTypes
    BY <1>1 DEF Init, AskTypes, SessionTypes, Sessions, RecordStatuses
<1>6. HistoryTypes
    BY <1>1 DEF Init, HistoryTypes
<1>7. RequestInv /\ CallInv
    BY DEF Init, RequestInv, LiveRequests, CallInv, NoCall
<1>8. ReplyInv
  <2>1. \A i \in DOMAIN wire : FALSE
      BY DEF Init
  <2> QED
      BY <2>1 DEF ReplyInv, LiveReplies, ReplyAt
<1>9. PromptInv
  <2>1. call["submit"].pc = "none" /\ ~ Holds
      BY DEF Init, NoCall, Calls, Holds
  <2>2. Carriers = {}
      BY DEF Init, Carriers
  <2>3. submits = 0 /\ \A n \in Prompts : delivered[n] = 0
      BY DEF Init
  <2> QED
      BY <2>1, <2>2, <2>3 DEF PromptInv
<1>10. AskInv
    BY DEF Init, AskInv, Untracked
<1> QED
    BY <1>2, <1>3, <1>4, <1>5, <1>6, <1>7, <1>8, <1>9, <1>10 DEF IInv, Types

LEMMA Inductive == IInv /\ [Next]_vars => IInv'
<1> SUFFICES ASSUME IInv, [Next]_vars PROVE IInv'
    OBVIOUS
<1>1. CASE Client
    BY <1>1, SubmitStep, SteerAnsweredStep, RefreshAnsweredStep, PersistTurnStartStep,
       AskProgressStep, ProgressAnsweredStep, AskCancelStep, CancelAnsweredStep,
       MergeSessionStep, ReceiveReplyStep, ReceiveStartedStep, ReceiveItemStep,
       ReceiveEndedStep, ReceiveAskStep, AnswerSentStep, AnswerSendStep DEF Client
<1>2. CASE Server
    BY <1>2, ServerStartsStep, ServerSteersStep, ServerReadsStep, ServerInterruptsStep,
       ServerWorksStep, ServerEndsStep, ServerAsksStep DEF Server
<1>3. CASE Trouble
    BY <1>3, ConnectionLostStep, RequestTimesOutStep DEF Trouble
<1>4. CASE UNCHANGED vars
  <2>1. WireTypes' /\ NoNewReply
      BY <1>4, WireUnchanged, Parts DEF vars
  <2>2. CallParts' /\ PromptInv'
      BY <1>4, <2>1, RestStep, Parts DEF vars, serverVars, historyVars, boundVars
  <2>3. AskInv' /\ ServerTypes' /\ MemoryTypes' /\ AskTypes' /\ SessionTypes' /\ HistoryTypes'
      BY <1>4, Parts DEF vars, serverVars, memoryVars, askVars, boundVars, historyVars,
         AskInv, ServerTypes, MemoryTypes, AskTypes, SessionTypes, HistoryTypes
  <2> QED
      BY <2>2, <2>3 DEF IInv, Types, CallParts
<1> QED
    BY <1>1, <1>2, <1>3, <1>4 DEF Next

\* The inductive invariant holds of every behaviour.
THEOREM Invariance == Spec => []IInv
BY Initial, Inductive, PTL DEF Spec

\* However requests time out, are refused or lose their answer, and however late the server
\* takes them, a prompt reaches at most one turn: a submission sends it again only after an
\* answer that says it was not taken (app_client_labels.py:213-247,
\* app_client_transport.py:304-351).
THEOREM NoPromptTwice == Spec => []PromptsArriveOnce
<1>1. IInv => PromptsArriveOnce
    BY TypeParts DEF IInv, PromptInv, PromptsArriveOnce
<1> QED
    BY <1>1, Invariance, PTL

\* No progress report, notification, answer or start leaves a turn waiting without a request
\* that somebody can still answer (app_client_permissions.py:66-90).
THEOREM WaitsEnd == Spec => []WaitingIsExplained
<1>1. IInv => WaitingIsExplained
    BY DEF IInv, AskInv, WaitingIsExplained
<1> QED
    BY <1>1, Invariance, PTL

=============================================================================
